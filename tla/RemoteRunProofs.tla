------------------------- MODULE RemoteRunProofs -------------------------
(***************************************************************************)
(* More proofs about RemoteWork, for every set of tasks and leases, every  *)
(* combination of faults and every bound: a task has one worker or one     *)
(* integrating handler at a time, its work lands once, and what landed is  *)
(* not reported failed, but for the exceptions the properties name.        *)
(*                                                                         *)
(* The argument.  A run is bound to its task while it may end the task as  *)
(* its own.  A step moves a row only from under the one run bound to it,   *)
(* when no run is bound to it, or marks the task as overruled; and a row   *)
(* that recovery or a handler integrated moves no more.  So a handler that *)
(* is about to promote finds the row claimed, which it would not be had    *)
(* another run of the task landed.                                         *)
(***************************************************************************)
EXTENDS RemoteWorkProofs

-----------------------------------------------------------------------------
(* One lease at a time *)

\* What the invariant says of one lease.
Standing(l) == LeaseKnown(l) /\ RowHeld(l) /\ RowFollows(l)

\* A lease that a step, other than the poll that mints it, treats well.
Kept(l) ==
    /\ leaseTask'[l] = leaseTask[l]
    /\ Standing(l)'
    /\ Bound(l)' => Bound(l)

\* What has ended is remembered, and so is what was overruled or cut short.
Remembers ==
    /\ [StoreNext]_storeVars
    /\ overruled \subseteq overruled'
    /\ cut \subseteq cut'

\* A step that treats every lease well keeps the invariant.
LEMMA AllKept ==
    ASSUME RunsInv, RemoteInv', Remembers, QueueFree',
           \A k \in Leases : Kept(k)
    PROVE  RunsInv'
<1>1. RunsApart'
  BY DEF RunsInv, RunsApart, Kept, Remembers
<1>2. QED
  BY <1>1 DEF RunsInv, Kept, Standing

\* Whoever is bound to a task or landed something holds a minted lease on it.
LEMMA BoundLease ==
    ASSUME RemoteInv, NEW l \in Leases, Bound(l) \/ InCanonical(l)
    PROVE  leaseStatus[l] # "none" /\ leaseTask[l] \in Tasks
<1>1. job[l].phase # "idle" \/ leaseStatus[l] # "none" \/ job[l] # NoJob
  BY DEF Bound, Working, Integrating, InCanonical, NoJob
<1>2. QED
  BY <1>1, BusyLease

\* An integrated row stays so.
LEMMA IntegratedStays ==
    ASSUME RemoteInv, Remembers, NEW t \in Tasks, status[t] = "integrated"
    PROVE  status'[t] = "integrated"
<1>1. CASE UNCHANGED storeVars
  BY <1>1 DEF storeVars
<1>2. QED
  BY <1>1, InvParts, EndedRowKept DEF Remembers

\* A lease whose job and whose row in the table a step leaves alone is well,
\* if the row of the task it is bound to is left alone too, is integrated
\* during recovery, or is known to be overruled.
LEMMA Bystander ==
    ASSUME RunsInv, Remembers, NEW k \in Leases,
           Serving' <=> Serving,
           boot' = boot \/ boot' = "resuming" \/ job[k].phase = "idle",
           job'[k] = job[k],
           leaseStatus'[k] = leaseStatus[k],
           leaseTask'[k] = leaseTask[k],
           Bound(k) /\ leaseTask[k] \notin overruled' =>
              \/ status'[leaseTask[k]] = status[leaseTask[k]]
              \/ ~Serving /\ status'[leaseTask[k]] = "integrated"
    PROVE  Kept(k)
<1>1. Standing(k) /\ RemoteInv
  BY DEF RunsInv, Standing
<1>2. /\ Integrating(k)' <=> Integrating(k)
      /\ Working(k)' <=> Working(k)
      /\ Judged(k)' <=> Judged(k)
      /\ Bound(k)' <=> Bound(k)
      /\ InCanonical(k)' <=> InCanonical(k)
  BY DEF Integrating, Working, Judged, Bound, InCanonical
<1>3. LeaseKnown(k)'
  BY <1>1, <1>2 DEF Standing, LeaseKnown
<1>4. RowHeld(k)'
  <2>1. Judged(k) => Bound(k) /\ Serving
    BY DEF Judged, Bound, Working, Integrating
  <2>2. QED
    BY <1>1, <1>2, <2>1 DEF Standing, RowHeld, Remembers
<1>5. RowFollows(k)'
  BY <1>1, <1>2, BoundLease, IntegratedStays DEF Standing, RowFollows, Remembers
<1>6. QED
  BY <1>2, <1>3, <1>4, <1>5 DEF Kept, Standing

\* A worker that loses its lease is bound to nothing any more; its result's
\* handler stays where it stood, or gives up.
LEMMA Lapses ==
    ASSUME RunsInv, Remembers, NEW l \in Leases,
           boot' = boot,
           leaseStatus[l] = "active",
           leaseStatus'[l] \in {"released", "expired"},
           leaseTask'[l] = leaseTask[l],
           job'[l].landed = job[l].landed,
           \/ job'[l].phase = job[l].phase
           \/ Serving /\ job'[l].phase \in {"idle", "erring", "closing"}
    PROVE  Kept(l) /\ ~Bound(l)'
<1>1. Standing(l) /\ RemoteInv
  BY DEF RunsInv, Standing
<1>2. /\ Serving' <=> Serving
      /\ ~Integrating(l) /\ job[l].phase # "failing"
      /\ InCanonical(l)' <=> InCanonical(l)
  BY <1>1 DEF Standing, LeaseKnown, Serving, InCanonical
<1>3. ~Integrating(l)' /\ ~Judged(l)' /\ ~Bound(l)'
  BY <1>2 DEF Integrating, Judged, Bound, Working
<1>4. LeaseKnown(l)'
  BY <1>1, <1>2, <1>3 DEF Standing, LeaseKnown, Serving
<1>5. RowHeld(l)'
  BY <1>3 DEF RowHeld
<1>6. RowFollows(l)'
  <2> SUFFICES ASSUME InCanonical(l), l \notin cut, leaseTask[l] \notin overruled
               PROVE  \/ status'[leaseTask[l]] = "integrated"
                      \/ job'[l].phase \in {"landed", "recorded", "resumed",
                                            "reclaiming"}
    BY <1>2 DEF RowFollows, Remembers
  <2>1. CASE status[leaseTask[l]] = "integrated"
    BY <1>1, <2>1, BoundLease, IntegratedStays
  <2>2. CASE job[l].phase \in {"landed", "recorded", "resumed", "reclaiming"}
    <3>1. ~Serving
      BY <1>1, <1>2, <2>2 DEF Standing, LeaseKnown, Integrating
    <3>2. QED
      BY <2>2, <3>1
  <2>3. QED
    BY <1>1, <2>1, <2>2 DEF Standing, RowFollows
<1>7. QED
  BY <1>3, <1>4, <1>5, <1>6 DEF Kept, Standing

\* Two leases on one task that are both bound to it are one, but for an
\* overruled task.
LEMMA Apart ==
    ASSUME RunsInv, NEW l \in Leases, NEW k \in Leases,
           Bound(l), Bound(k), leaseTask[l] = leaseTask[k],
           leaseTask[l] \notin overruled
    PROVE  l = k
  BY DEF RunsInv, RunsApart

-----------------------------------------------------------------------------
(* Steps that end a lease and give its task back *)

\* A released or expired lease gives back a task that no other run is bound
\* to.
LEMMA GivesBack ==
    ASSUME RunsInv, RemoteInv', NEW l \in Leases,
           NEW s \in {"released", "expired"}, FinishWorkLease(l, s),
           UNCHANGED <<boot, history>>,
           ~Serving => UNCHANGED reap,
           \A k \in Leases \ {l} : job'[k] = job[k],
           job'[l].landed = job[l].landed,
           \/ job'[l].phase = job[l].phase
           \/ Serving /\ job'[l].phase \in {"idle", "erring", "closing"}
    PROVE  RunsInv'
<1>1. StoreTypeOK /\ RemoteInv
  BY InvParts DEF RunsInv
<1>2. /\ leaseStatus[l] = "active"
      /\ leaseStatus'[l] = s
      /\ \A k \in Leases \ {l} : leaseStatus'[k] = leaseStatus[k]
      /\ leaseTask' = leaseTask
      /\ status' = Requeue({leaseTask[l]})
  BY <1>1 DEF FinishWorkLease, MayFinish, StoreTypeOK
<1>3. Remembers
  BY <1>1, QuietFinish DEF Remembers, history, QuietStore, LeaseStatus
<1>4. QueueFree'
  BY <1>2 DEF RunsInv, QueueFree, ActiveLeases, Serving, history
<1>5. Kept(l)
  BY <1>2, <1>3, Lapses
<1>6. ASSUME NEW k \in Leases \ {l}
      PROVE  Kept(k)
  <2>1. Bound(l)
    BY <1>2 DEF Bound, Working
  <2>2. Bound(k) /\ leaseTask[k] \notin overruled
           => status'[leaseTask[k]] = status[leaseTask[k]]
    BY <1>1, <1>2, <2>1, Apart, BoundLease DEF Requeue
  <2>3. QED
    BY <1>2, <1>3, <2>2, Bystander DEF history, Serving
<1>7. QED
  BY <1>3, <1>4, <1>5, <1>6, AllKept

\* The expiry sweep of a poll that finds nothing gives back the tasks of
\* every lapsed lease.
LEMMA EmptyPollKeeps ==
    ASSUME RunsInv, RemoteInv', NEW F \in Filters, PollEmpty(F)
    PROVE  RunsInv'
<1>1. StoreTypeOK /\ RemoteInv
  BY InvParts DEF RunsInv
<1>2. /\ status' = SweptTasks
      /\ leaseStatus' = SweptLeases
      /\ UNCHANGED <<leaseTask, job, boot, reap, overruled, cut>>
      /\ Serving
  BY DEF PollEmpty, LeaseNothing, hostVars, history
<1>3. Remembers
  BY <1>1, <1>2, QuietPolls DEF PollEmpty, Remembers, QuietStore
<1>4. QueueFree'
  BY <1>2 DEF QueueFree, Serving
<1>5. ASSUME NEW k \in Leases
      PROVE  Kept(k)
  <2>1. CASE k \in LapsedLeases
    BY <1>1, <1>2, <1>3, <2>1, SweepOnlyEnds, Lapses
    DEF LapsedLeases, ActiveLeases
  <2>2. CASE k \notin LapsedLeases
    <3>1. Bound(k) /\ leaseTask[k] \notin overruled
             => status'[leaseTask[k]] = status[leaseTask[k]]
      <4> SUFFICES ASSUME Bound(k), leaseTask[k] \notin overruled,
                          NEW l \in LapsedLeases, leaseTask[l] = leaseTask[k]
                   PROVE  FALSE
        BY <1>1, <1>2, BoundLease DEF SweptTasks, Requeue
      <4>1. l \in Leases /\ Bound(l)
        BY DEF LapsedLeases, ActiveLeases, Bound, Working
      <4>2. QED
        BY <2>2, <4>1, Apart
    <3>2. QED
      BY <1>1, <1>2, <1>3, <2>2, <3>1, SweepOnlyEnds, Bystander DEF Serving
  <2>3. QED
    BY <2>1, <2>2
<1>6. QED
  BY <1>3, <1>4, <1>5, AllKept

\* A poll that leases a task: nobody was bound to it, and now one worker is.
LEMMA PollKeeps ==
    ASSUME RunsInv, StepOK, NEW l \in Leases, NEW F \in Filters, Poll(l, F)
    PROVE  RunsInv'
<1>1. StoreTypeOK /\ RemoteInv
  BY InvParts DEF RunsInv
<1> DEFINE t == First(Leasable(F))
<1>2. /\ leaseStatus[l] = "none"
      /\ status' = [SweptTasks EXCEPT ![t] = "claimed"]
      /\ leaseStatus' = [SweptLeases EXCEPT ![l] = "active"]
      /\ leaseTask' = [leaseTask EXCEPT ![l] = t]
      /\ UNCHANGED <<job, boot, reap, overruled, cut>>
      /\ Serving
  BY DEF Poll, LeaseNextTask, hostVars, history
<1>3. t \in Tasks /\ SweptTasks[t] = "submitted"
  BY LeasedRow DEF Poll, LeaseNextTask
<1> HIDE DEF t
<1>4. Remembers
  BY <1>2 DEF StepOK, Remembers
<1>5. /\ status'[t] = "claimed"
      /\ \A u \in Tasks \ {t} : status'[u] = SweptTasks[u]
      /\ leaseTask'[l] = t
      /\ \A k \in Leases \ {l} : /\ leaseTask'[k] = leaseTask[k]
                                 /\ leaseStatus'[k] = SweptLeases[k]
  BY <1>1, <1>2, <1>3, SweepTyped DEF StoreTypeOK
<1>6. Standing(l)'
  <2>1. job'[l] = NoJob
    BY <1>1, <1>2, InvParts DEF JobKnows
  <2>2. job'[l].phase = "idle" /\ job'[l].landed = "no"
    BY <2>1 DEF NoJob
  <2>3. ~Integrating(l)' /\ ~Judged(l)' /\ ~InCanonical(l)'
    BY <2>2 DEF Integrating, Judged, InCanonical
  <2>4. LeaseKnown(l)'
    BY <2>2, <2>3 DEF LeaseKnown
  <2>5. RowHeld(l)' /\ RowFollows(l)'
    BY <1>5, <2>3 DEF RowHeld, RowFollows
  <2>6. QED
    BY <2>4, <2>5 DEF Standing
<1>7. ASSUME NEW k \in Leases \ {l}
      PROVE  /\ Kept(k)
             /\ Bound(k)' => leaseTask[k] # t \/ t \in overruled
  <2>1. CASE k \in LapsedLeases
    BY <1>1, <1>2, <1>4, <1>5, <2>1, SweepOnlyEnds, Lapses
    DEF LapsedLeases, ActiveLeases
  <2>2. CASE k \notin LapsedLeases
    <3>1. ASSUME Bound(k), leaseTask[k] \notin overruled
          PROVE  SweptTasks[leaseTask[k]] = status[leaseTask[k]]
      <4> SUFFICES ASSUME NEW m \in LapsedLeases, leaseTask[m] = leaseTask[k]
                   PROVE  FALSE
        BY <1>1, <3>1, BoundLease DEF SweptTasks, Requeue
      <4>1. m \in Leases /\ Bound(m)
        BY DEF LapsedLeases, ActiveLeases, Bound, Working
      <4>2. QED
        BY <2>2, <3>1, <4>1, Apart
    <3>2. ASSUME Bound(k), leaseTask[k] \notin overruled
          PROVE  leaseTask[k] # t
      <4>1. status[leaseTask[k]] \in {"claimed", "integrated"}
        BY <3>2 DEF RunsInv, RowHeld
      <4>2. QED
        BY <1>3, <3>1, <3>2, <4>1
    <3>3. Bound(k) /\ leaseTask[k] \notin overruled
             => status'[leaseTask[k]] = status[leaseTask[k]]
      BY <1>1, <1>5, <3>1, <3>2, BoundLease
    <3>4. Kept(k)
      BY <1>1, <1>2, <1>4, <1>5, <2>2, <3>3, SweepOnlyEnds, Bystander DEF Serving
    <3>5. QED
      BY <3>2, <3>4 DEF Kept
  <2>3. QED
    BY <2>1, <2>2
<1>8. RunsApart'
  <2> SUFFICES ASSUME NEW m \in Leases, NEW k \in Leases, Bound(m)', Bound(k)',
                      leaseTask'[m] = leaseTask'[k],
                      leaseTask'[m] \notin overruled', m # k
               PROVE  FALSE
    BY DEF RunsApart
  <2>1. CASE m = l \/ k = l
    BY <1>2, <1>5, <1>7, <2>1
  <2>2. CASE m # l /\ k # l
    BY <1>2, <1>5, <1>7, <2>2, Apart DEF Kept
  <2>3. QED
    BY <2>1, <2>2
<1>9. QED
  BY <1>2, <1>6, <1>7, <1>8
  DEF RunsInv, StepOK, Standing, Kept, QueueFree, Serving

-----------------------------------------------------------------------------
(* Steps that move a row and no lease *)

\* A row moves from under no run, or from under one that it is overruled by.
LEMMA RowMoves ==
    ASSUME RunsInv, StepOK, Remembers, QueueFree',
           UNCHANGED <<leaseStatus, leaseTask, job, boot>>,
           \A k \in Leases : Bound(k) /\ leaseTask[k] \notin overruled' =>
              status'[leaseTask[k]] = status[leaseTask[k]]
    PROVE  RunsInv'
<1>1. \A k \in Leases : Kept(k)
  BY Bystander DEF Serving
<1>2. QED
  BY <1>1, AllKept DEF StepOK

\* Whoever moves a row marks it as overruled when somebody was bound to it.
LEMMA OverruleMarks ==
    ASSUME NEW t, NEW movers, Overrule(t, movers)
    PROVE  /\ overruled \subseteq overruled'
           /\ cut' = cut
           /\ \A k \in Leases \ movers :
                 Bound(k) /\ leaseTask[k] = t => t \in overruled'
<1>1. \A k \in Leases : Bound(k) => Engaged(k)
  BY DEF Bound, Engaged
<1>2. QED
  BY <1>1 DEF Overrule

\* A moved row is the only one that changes.
LEMMA OneRowMoves ==
    ASSUME StoreTypeOK, NEW t \in Tasks, NEW from, NEW s, MoveTask(t, from, s)
    PROVE  /\ \A u \in Tasks \ {t} : status'[u] = status[u]
           /\ status'[t] = s
           /\ status[t] \in from
           /\ UNCHANGED <<leaseStatus, leaseTask>>
  BY DEF MoveTask, StoreTypeOK

\* A person, or the sweep of stranded claims, moves a row.
LEMMA MovesOver ==
    ASSUME RunsInv, StepOK, Serving, NEW t \in Tasks, NEW from, NEW s,
           MoveTask(t, from, s), Overrule(t, {}), UNCHANGED <<job, boot>>
    PROVE  RunsInv'
<1>1. StoreTypeOK /\ RemoteInv
  BY InvParts DEF RunsInv
<1>2. Remembers
  BY OverruleMarks DEF StepOK, Remembers
<1>3. \A k \in Leases : Bound(k) /\ leaseTask[k] \notin overruled' =>
         status'[leaseTask[k]] = status[leaseTask[k]]
  BY <1>1, OneRowMoves, OverruleMarks, BoundLease
<1>4. QED
  BY <1>1, <1>2, <1>3, OneRowMoves, RowMoves DEF QueueFree, Serving

\* A step that leaves the tables but for the clock, the jobs and the history
\* alone.
LEMMA NothingMoves ==
    ASSUME RunsInv, StepOK,
           UNCHANGED <<status, leaseStatus, leaseTask, job, boot, history>>,
           Serving \/ UNCHANGED reap
    PROVE  RunsInv'
<1>1. Remembers
  BY DEF StepOK, Remembers, history
<1>2. QueueFree'
  BY DEF RunsInv, QueueFree, Serving, ActiveLeases, history
<1>3. QED
  BY <1>1, <1>2, RowMoves

\* Workers, the clock and new tasks.
LEMMA WorkersKeep ==
    ASSUME RunsInv, StepOK,
           \/ \E l \in Leases : \/ \E F \in Filters : Poll(l, F)
                               \/ Heartbeat(l) \/ WorkerRelease(l) \/ ExpireLease(l)
           \/ \E F \in Filters : PollEmpty(F)
           \/ \E t \in Tasks : Submit(t)
           \/ Time
    PROVE  RunsInv'
<1>1. CASE \E l \in Leases : Heartbeat(l)
  BY <1>1, NothingMoves DEF Heartbeat, HeartbeatWorkLease
<1>2. CASE Time
  BY <1>2, NothingMoves DEF Time, Tick, hostVars
<1>3. ASSUME NEW l \in Leases, WorkerRelease(l) \/ ExpireLease(l)
      PROVE  RunsInv'
  <2>1. /\ FinishWorkLease(l, "released") \/ FinishWorkLease(l, "expired")
        /\ UNCHANGED <<job, boot, reap, history>>
    BY <1>3 DEF WorkerRelease, ExpireLease, hostVars
  <2>2. QED
    BY <2>1, GivesBack DEF StepOK
<1>4. ASSUME NEW t \in Tasks, Submit(t)
      PROVE  RunsInv'
  <2>1. /\ StoreTypeOK /\ RemoteInv
        /\ \A u \in Tasks : status[u] # "open"
    BY InvParts DEF RunsInv
  <2>2. /\ status[t] = "absent"
        /\ \A u \in Tasks \ {t} : status'[u] = status[u]
        /\ UNCHANGED <<leaseStatus, leaseTask, job, boot, overruled, cut>>
        /\ Serving
    BY <1>4, <2>1 DEF Submit, SubmitTask, hostVars, history
  <2>3. ASSUME NEW k \in Leases, Bound(k), leaseTask[k] \notin overruled'
        PROVE  status'[leaseTask[k]] = status[leaseTask[k]]
    <3>1. status[leaseTask[k]] \in {"claimed", "integrated"}
      BY <2>2, <2>3 DEF RunsInv, RowHeld
    <3>2. QED
      BY <2>1, <2>2, <2>3, <3>1, BoundLease
  <2>4. Remembers /\ QueueFree'
    BY <2>2 DEF StepOK, Remembers, QueueFree, Serving
  <2>5. QED
    BY <2>2, <2>3, <2>4, RowMoves
<1>5. QED
  BY <1>1, <1>2, <1>3, <1>4, PollKeeps, EmptyPollKeeps DEF StepOK

\* People stop, retry and resume tasks.
LEMMA PeopleKeep ==
    ASSUME RunsInv, StepOK,
           \/ \E t \in Tasks : \/ Retry(t) \/ Resume(t)
                               \/ \E to \in {"cancelled", "paused"} : StopRead(t, to)
           \/ StopWrite \/ StopRelease
    PROVE  RunsInv'
<1>1. RemoteInv /\ HostTyped
  BY InvParts DEF RunsInv
<1>2. ASSUME NEW t \in Tasks, Retry(t) \/ Resume(t)
      PROVE  RunsInv'
  BY <1>2, MovesOver
  DEF Retry, Resume, RetrySubmittedTask, ResumePausedTask, hostVars
<1>3. ASSUME NEW t \in Tasks, NEW to \in {"cancelled", "paused"}, StopRead(t, to)
      PROVE  RunsInv'
  BY <1>3, NothingMoves DEF StopRead, storeVars
<1>4. CASE StopWrite
  <2>1. stop.task \in Tasks
    BY <1>1, <1>4 DEF StopWrite, HostTyped
  <2>2. CASE UNCHANGED <<storeVars, history>>
    BY <1>4, <2>2, NothingMoves DEF StopWrite, storeVars
  <2>3. CASE /\ CancelSubmittedTask(stop.task) \/ PauseSubmittedTask(stop.task)
             /\ Overrule(stop.task, {})
    BY <1>4, <2>1, <2>3, MovesOver
    DEF StopWrite, CancelSubmittedTask, PauseSubmittedTask
  <2>4. QED
    BY <1>4, <2>2, <2>3 DEF StopWrite
<1>5. CASE StopRelease
  <2> DEFINE l == CHOOSE h \in stop.holders : TRUE
  <2>1. stop.holders # {} => l \in Leases
    BY <1>1 DEF HostTyped
  <2>2. /\ \/ stop.holders # {} /\ FinishWorkLease(l, "released")
           \/ UNCHANGED storeVars
        /\ UNCHANGED <<job, boot, reap, history>>
    BY <1>5 DEF StopRelease
  <2> HIDE DEF l
  <2>3. CASE UNCHANGED storeVars
    BY <2>2, <2>3, NothingMoves DEF storeVars
  <2>4. CASE stop.holders # {} /\ FinishWorkLease(l, "released")
    BY <2>1, <2>2, <2>4, GivesBack DEF StepOK
  <2>5. QED
    BY <2>2, <2>3, <2>4
<1>6. QED
  BY <1>2, <1>3, <1>4, <1>5

\* The serving process sweeps stranded claims.
LEMMA SweepKeeps ==
    ASSUME RunsInv, StepOK, Sweep
    PROVE  RunsInv'
<1>1. CASE ReapList \/ ReapLeased \/ ReapDone
  BY <1>1, NothingMoves DEF ReapList, ReapLeased, ReapDone, storeVars
<1>2. ASSUME NEW t \in Tasks, ReapRetry(t)
      PROVE  RunsInv'
  <2>1. CASE UNCHANGED <<storeVars, history>>
    BY <1>2, <2>1, NothingMoves DEF ReapRetry, storeVars
  <2>2. CASE RetrySubmittedTask(t) /\ Overrule(t, {})
    BY <1>2, <2>2, MovesOver DEF ReapRetry, RetrySubmittedTask
  <2>3. QED
    BY <1>2, <2>1, <2>2 DEF ReapRetry
<1>3. QED
  BY <1>1, <1>2 DEF Sweep

-----------------------------------------------------------------------------
(* The handler of a result *)

\* A handler's step that moves no row.
LEMMA HandlerMoves ==
    ASSUME RunsInv, StepOK, Serving, NEW l \in Leases,
           UNCHANGED <<status, leaseTask, boot, overruled, cut>>,
           \A k \in Leases \ {l} : /\ job'[k] = job[k]
                                   /\ leaseStatus'[k] = leaseStatus[k],
           LeaseKnown(l)',
           Bound(l)' => Bound(l),
           Judged(l)' => Judged(l) \/ status[leaseTask[l]] = "claimed",
           InCanonical(l)' =>
              \/ job'[l].phase \in {"landed", "recorded"}
              \/ InCanonical(l) /\ job[l].phase \notin {"landed", "recorded"}
    PROVE  RunsInv'
<1>1. Standing(l) /\ RemoteInv
  BY DEF RunsInv, Standing
<1>2. Remembers /\ QueueFree'
  BY DEF StepOK, Remembers, QueueFree, Serving
<1>3. RowHeld(l)' /\ RowFollows(l)'
  BY <1>1 DEF Standing, RowHeld, RowFollows, LeaseKnown
<1>4. Kept(l)
  BY <1>3 DEF Kept, Standing
<1>5. \A k \in Leases \ {l} : Kept(k)
  BY <1>2, Bystander DEF Serving
<1>6. QED
  BY <1>2, <1>4, <1>5, AllKept DEF StepOK

\* The handler of l goes from one phase to another, and its lease, if it
\* moves, settles: what has to be known for that to be well.
LEMMA PhaseMoves ==
    ASSUME RunsInv, StepOK, NEW l \in Leases, NEW from, NEW to, Goes(l, from, to),
           UNCHANGED <<status, leaseTask>>,
           \A k \in Leases \ {l} : leaseStatus'[k] = leaseStatus[k],
           to \notin {"resumed", "reclaiming", "handingBack"},
           to \in {"settled", "landed", "recorded"} =>
              /\ leaseStatus'[l] = "completed"
              /\ Judged(l),
           to = "failing" => leaseStatus'[l] \in {"failed", "completed"} /\ Bound(l),
           to \in {"checked", "reviewing", "approved"} =>
              /\ leaseStatus'[l] = leaseStatus[l] /\ leaseStatus[l] # "completed"
              /\ Judged(l) \/ status[leaseTask[l]] = "claimed"
                           \/ leaseStatus[l] # "active",
           to \in {"requeueing", "erring"} =>
              /\ leaseStatus'[l] = leaseStatus[l]
              /\ leaseStatus[l] \in {"active", "completed"} => Bound(l),
           leaseStatus'[l] = "active" => leaseStatus[l] = "active",
           from = "landed" => to = "recorded",
           from = "recorded" => leaseTask[l] \in overruled
    PROVE  RunsInv'
<1>1. /\ job \in [Leases -> Job] /\ Standing(l)
      /\ Serving /\ Serving'
      /\ job[l].phase = from
      /\ job' = [job EXCEPT ![l].phase = to]
      /\ UNCHANGED <<boot, overruled, cut>>
  BY InvParts DEF Goes, RunsInv, Standing, hostVars, history, Serving
<1>2. /\ job'[l].phase = to
      /\ job'[l].landed = job[l].landed
      /\ \A k \in Leases \ {l} : job'[k] = job[k]
  BY <1>1 DEF Job
<1>3. Integrating(l)' <=> to \in {"settled", "landed", "recorded"}
  BY <1>1, <1>2 DEF Integrating
<1>4. Judged(l) => Bound(l)
  BY DEF Judged, Bound, Working
<1>5. LeaseKnown(l)'
  BY <1>1, <1>2, <1>3 DEF LeaseKnown
<1>6. Bound(l)' => Bound(l)
  BY <1>1, <1>2, <1>3, <1>4 DEF Bound, Working
<1>7. Judged(l)' => Judged(l) \/ status[leaseTask[l]] = "claimed"
  BY <1>1, <1>2, <1>3 DEF Judged
<1>8. InCanonical(l)' <=> InCanonical(l)
  BY <1>2 DEF InCanonical
<1>9. CASE from # "recorded"
  BY <1>1, <1>2, <1>5, <1>6, <1>7, <1>8, <1>9, HandlerMoves
<1>10. CASE from = "recorded"
  <2>1. RowHeld(l)' /\ RowFollows(l)'
    BY <1>1, <1>10 DEF RowHeld, RowFollows
  <2>2. Kept(l)
    BY <1>5, <1>6, <2>1 DEF Kept, Standing
  <2>3. Remembers /\ QueueFree'
    BY <1>1 DEF StepOK, Remembers, QueueFree
  <2>4. \A k \in Leases \ {l} : Kept(k)
    BY <1>1, <1>2, <2>3, Bystander
  <2>5. QED
    BY <2>2, <2>3, <2>4, AllKept DEF StepOK
<1>11. QED
  BY <1>9, <1>10

\* A lease that settles moves no row and no other lease.
LEMMA Settles ==
    ASSUME StoreTypeOK, NEW l \in Leases, NEW s \in {"completed", "failed"},
           FinishWorkLease(l, s)
    PROVE  /\ leaseStatus[l] = "active" /\ leaseStatus'[l] = s
           /\ UNCHANGED <<status, leaseTask>>
           /\ \A k \in Leases \ {l} : leaseStatus'[k] = leaseStatus[k]
  BY DEF FinishWorkLease, MayFinish, StoreTypeOK

\* A result arrives, is refused or given back, or waits for its review.
LEMMA EntryKeeps ==
    ASSUME RunsInv, StepOK, NEW l \in Leases,
           \/ ReceiveResult(l) \/ RejectResult(l) \/ GiveBack(l)
           \/ ResultTooLate(l) \/ AfterReview(l) \/ AdvanceBlocks(l)
    PROVE  RunsInv'
<1>1. StoreTypeOK /\ RemoteInv /\ Standing(l) /\ job \in [Leases -> Job]
  BY InvParts DEF RunsInv, Standing
<1>2. CASE ReceiveResult(l)
  BY <1>2, PhaseMoves DEF ReceiveResult, storeVars
<1>3. CASE RejectResult(l)
  <2>1. Bound(l)
    BY <1>3 DEF RejectResult, FinishWorkLease, MayFinish, Bound, Working
  <2>2. QED
    BY <1>1, <1>3, <2>1, Settles, PhaseMoves DEF RejectResult
<1>4. CASE FinishWorkLease(l, "released") /\ Goes(l, "checked", "idle")
  <2>1. /\ job'[l].phase = "idle" /\ job'[l].landed = job[l].landed
        /\ \A k \in Leases \ {l} : job'[k] = job[k]
    BY <1>1, <1>4 DEF Goes, Job
  <2>2. QED
    BY <1>4, <2>1, GivesBack DEF Goes, StepOK, hostVars
<1>5. CASE FinishWorkLease(l, "expired") /\ Goes(l, "checked", "idle")
  <2>1. /\ job'[l].phase = "idle" /\ job'[l].landed = job[l].landed
        /\ \A k \in Leases \ {l} : job'[k] = job[k]
    BY <1>1, <1>5 DEF Goes, Job
  <2>2. QED
    BY <1>5, <2>1, GivesBack DEF Goes, StepOK, hostVars
<1>6. CASE UNCHANGED storeVars /\ Goes(l, "checked", "idle")
  BY <1>6, PhaseMoves DEF storeVars
<1>7. CASE AfterReview(l)
  <2>1. PICK to \in {"erring", "approved"} : Goes(l, "reviewing", to)
    BY <1>7 DEF AfterReview
  <2>2. /\ leaseStatus[l] # "completed"
        /\ leaseStatus[l] = "active" => Judged(l) /\ Bound(l)
    BY <1>1, <2>1 DEF Goes, Standing, LeaseKnown, Judged, Bound, Working
  <2>3. QED
    BY <1>7, <2>1, <2>2, PhaseMoves DEF AfterReview, storeVars
<1>8. CASE AdvanceBlocks(l)
  <2>1. leaseStatus[l] \in {"active", "completed"} => Bound(l)
    BY <1>1, <1>8 DEF AdvanceBlocks, Goes, Standing, LeaseKnown, Bound, Working
  <2>2. QED
    BY <1>8, <2>1, PhaseMoves DEF AdvanceBlocks, storeVars
<1>9. QED
  BY <1>2, <1>3, <1>4, <1>5, <1>6, <1>7, <1>8 DEF GiveBack, ResultTooLate

\* A handler that integrates goes on to record what came of it: its lease is
\* completed, and its task is its own.
LEMMA IntegratingMoves ==
    ASSUME RunsInv, StepOK, Serving, NEW l \in Leases, NEW j \in Job,
           UNCHANGED <<storeVars, hostVars, history>>,
           job' = [job EXCEPT ![l] = j],
           Integrating(l),
           j.phase \in {"settled", "landed", "recorded", "requeueing", "failing",
                        "erring"},
           job[l].phase # "settled" => j.phase \in {"landed", "recorded"},
           j.landed \in {"handler", "recovery"} =>
              j.phase \in {"landed", "recorded"} \/ j.landed = job[l].landed
    PROVE  RunsInv'
<1>1. /\ job \in [Leases -> Job] /\ Standing(l)
      /\ UNCHANGED <<status, leaseTask, leaseStatus, boot, overruled, cut>>
      /\ Serving'
  BY InvParts DEF RunsInv, Standing, storeVars, hostVars, history, Serving
<1>2. job'[l] = j /\ \A k \in Leases \ {l} : job'[k] = job[k]
  BY <1>1
<1>3. leaseStatus'[l] = "completed"
  BY <1>1 DEF Standing, LeaseKnown
<1>4. LeaseKnown(l)'
  BY <1>1, <1>2, <1>3 DEF LeaseKnown, Integrating
<1>5. Bound(l) /\ Judged(l)
  BY DEF Bound, Working, Judged
<1>6. InCanonical(l)' =>
         \/ job'[l].phase \in {"landed", "recorded"}
         \/ InCanonical(l) /\ job[l].phase \notin {"landed", "recorded"}
  BY <1>2 DEF InCanonical
<1>7. QED
  BY <1>1, <1>2, <1>4, <1>5, <1>6, HandlerMoves

\* The merge and its record.
LEMMA IntegrateKeeps ==
    ASSUME RunsInv, StepOK, NEW l \in Leases,
           \/ Promote(l) \/ RecordLanding(l) \/ RecordEmpty(l) \/ RecordStale(l)
           \/ RecordLostBet(l) \/ RecordFailure(l) \/ IntegrateThrows(l)
    PROVE  RunsInv'
<1>1. job \in [Leases -> Job] /\ job[l] \in Job
  BY InvParts DEF RunsInv
<1>2. CASE Promote(l)
  <2> DEFINE j == [job[l] EXCEPT !.phase = "landed", !.landed = "handler"]
  <2>1. /\ job' = [job EXCEPT ![l] = j] /\ Integrating(l) /\ Serving
        /\ UNCHANGED <<storeVars, hostVars, history>>
    BY <1>2 DEF Promote, Integrating
  <2>2. j \in Job /\ j.phase = "landed"
    BY <1>1 DEF Job, HandlerPhase
  <2> HIDE DEF j
  <2>3. QED
    BY <2>1, <2>2, IntegratingMoves
<1>3. CASE RecordEmpty(l)
  <2> DEFINE j == [job[l] EXCEPT !.phase = "recorded", !.decided = TRUE,
                                 !.landed = "reported"]
  <2>1. /\ job' = [job EXCEPT ![l] = j] /\ Integrating(l) /\ Serving
        /\ UNCHANGED <<storeVars, hostVars, history>>
    BY <1>3 DEF RecordEmpty, Integrating
  <2>2. j \in Job /\ j.phase = "recorded"
    BY <1>1 DEF Job, HandlerPhase
  <2> HIDE DEF j
  <2>3. QED
    BY <2>1, <2>2, IntegratingMoves
<1>4. ASSUME NEW from, NEW to, Records(l, from, to),
             \/ from = "landed" /\ to = "recorded"
             \/ from = "settled" /\ to \in {"settled", "requeueing", "failing"}
      PROVE  RunsInv'
  <2> DEFINE j == [job[l] EXCEPT !.phase = to, !.decided = TRUE]
  <2>1. /\ job' = [job EXCEPT ![l] = j] /\ Integrating(l) /\ Serving
        /\ job[l].phase = from
        /\ UNCHANGED <<storeVars, hostVars, history>>
    BY <1>4 DEF Records, Integrating
  <2>2. j \in Job /\ j.phase = to /\ j.landed = job[l].landed
    BY <1>1, <1>4 DEF Job, HandlerPhase
  <2> HIDE DEF j
  <2>3. QED
    BY <1>4, <2>1, <2>2, IntegratingMoves
<1>5. CASE IntegrateThrows(l)
  <2>1. Bound(l)
    BY <1>5 DEF IntegrateThrows, Goes, Bound, Working, Integrating
  <2>2. QED
    BY <1>5, <2>1, PhaseMoves DEF IntegrateThrows, storeVars
<1>6. QED
  BY <1>2, <1>3, <1>4, <1>5
  DEF RecordLanding, RecordStale, RecordLostBet, RecordFailure

\* A handler that throws after the branch moved fails a task that is its own,
\* and is remembered as cut short if it landed.
LEMMA ThrowKeeps ==
    ASSUME RunsInv, StepOK, NEW l \in Leases, LandingThrows(l)
    PROVE  RunsInv'
<1>1. /\ job \in [Leases -> Job] /\ Standing(l)
      /\ Serving /\ Serving' /\ Integrating(l)
      /\ UNCHANGED <<status, leaseStatus, leaseTask, boot, overruled>>
      /\ cut \subseteq cut'
      /\ InCanonical(l) => l \in cut'
  BY InvParts
  DEF LandingThrows, RunsInv, Standing, Serving, Integrating, storeVars, hostVars,
      history, CutShort
<1>2. /\ job'[l].phase = "failing" /\ job'[l].landed = job[l].landed
      /\ \A k \in Leases \ {l} : job'[k] = job[k]
  BY <1>1 DEF LandingThrows, Job
<1>3. leaseStatus[l] = "completed" /\ Bound(l)
  BY <1>1 DEF Standing, LeaseKnown, Bound, Working
<1>4. Remembers /\ QueueFree'
  BY <1>1 DEF StepOK, Remembers, QueueFree
<1>5. LeaseKnown(l)' /\ ~Judged(l)'
  BY <1>1, <1>2, <1>3 DEF LeaseKnown, Integrating, Judged
<1>6. RowHeld(l)' /\ RowFollows(l)'
  BY <1>1, <1>2, <1>3, <1>5 DEF Standing, RowHeld, RowFollows, InCanonical
<1>7. Kept(l)
  BY <1>1, <1>3, <1>5, <1>6 DEF Kept, Standing
<1>8. \A k \in Leases \ {l} : Kept(k)
  BY <1>1, <1>2, <1>4, Bystander
<1>9. QED
  BY <1>4, <1>7, <1>8, AllKept DEF StepOK

\* A handler that settles its lease has it when it integrates; one that
\* cannot has lost its task.
LEMMA SettleKeeps ==
    ASSUME RunsInv, StepOK, NEW l \in Leases, SettleLease(l) \/ SettleLost(l)
    PROVE  RunsInv'
<1>1. StoreTypeOK /\ RemoteInv /\ Standing(l) /\ job \in [Leases -> Job]
  BY InvParts DEF RunsInv, Standing
<1>2. CASE SettleLease(l)
  <2>1. Judged(l)
    BY <1>2 DEF SettleLease, Goes, FinishWorkLease, MayFinish, Judged
  <2>2. QED
    BY <1>1, <1>2, <2>1, Settles, PhaseMoves DEF SettleLease
<1>3. CASE SettleLost(l) /\ FinishWorkLease(l, "expired")
  <2>1. /\ job'[l].phase = "erring" /\ job'[l].landed = job[l].landed
        /\ \A k \in Leases \ {l} : job'[k] = job[k]
        /\ Serving /\ UNCHANGED <<boot, history>>
    BY <1>1, <1>3 DEF SettleLost, Goes, Job, hostVars
  <2>2. QED
    BY <1>3, <2>1, GivesBack DEF StepOK
<1>4. CASE SettleLost(l) /\ ~MayFinish(l, "expired") /\ UNCHANGED storeVars
  <2>1. leaseStatus[l] # "active"
    BY <1>4 DEF SettleLost, MayFinish, Lapsed
  <2>2. leaseStatus[l] # "completed" /\ Goes(l, "approved", "erring")
    BY <1>1, <1>4 DEF SettleLost, Goes, Standing, LeaseKnown
  <2>3. QED
    BY <1>4, <2>1, <2>2, PhaseMoves DEF storeVars
<1>5. QED
  BY <1>2, <1>3, <1>4 DEF SettleLost

\* Answers, collected changesets, decisions and closed runs.
LEMMA RewriteSteps ==
    ASSUME RunsInv, StepOK, NEW l \in Leases,
           \/ AnswerQuestion(l)
           \/ \E review \in {"none", "pending"} : Collect(l, review)
           \/ \E v \in {"approved", "refused"} : DecideReview(l, v)
           \/ CloseRun(l)
    PROVE  RunsInv'
<1>1. /\ StoreTypeOK /\ Standing(l)
      /\ job \in [Leases -> Job] /\ job[l] \in Job
  BY InvParts DEF RunsInv, Standing
<1>2. CASE AnswerQuestion(l)
  <2>1. /\ job'[l].phase = "recorded" /\ job'[l].landed = "reported"
        /\ \A k \in Leases \ {l} : job'[k] = job[k]
    BY <1>1, <1>2 DEF AnswerQuestion, Job
  <2>2. /\ leaseStatus[l] = "active" /\ leaseStatus'[l] = "completed"
        /\ UNCHANGED <<status, leaseTask, boot, overruled, cut>>
        /\ \A k \in Leases \ {l} : leaseStatus'[k] = leaseStatus[k]
        /\ Serving /\ Serving' /\ job[l].phase = "checked"
    BY <1>1, <1>2, Settles DEF AnswerQuestion, hostVars, history, Serving
  <2>3. Bound(l) /\ Judged(l) /\ ~InCanonical(l)'
    BY <2>1, <2>2 DEF Bound, Working, Judged, InCanonical
  <2>4. LeaseKnown(l)'
    BY <2>1, <2>2 DEF LeaseKnown
  <2>5. QED
    BY <2>1, <2>2, <2>3, <2>4, HandlerMoves
<1>3. ASSUME NEW review \in {"none", "pending"}, Collect(l, review)
      PROVE  RunsInv'
  <2>1. /\ job'[l].phase = "reviewing" /\ job'[l].landed = job[l].landed
        /\ \A k \in Leases \ {l} : job'[k] = job[k]
    BY <1>1, <1>3 DEF Collect
  <2>2. /\ UNCHANGED <<status, leaseTask, leaseStatus, boot, overruled, cut>>
        /\ Serving /\ Serving' /\ job[l].phase = "checked"
    BY <1>3 DEF Collect, storeVars, hostVars, history, Serving
  <2>3. /\ Bound(l)' => Bound(l)
        /\ Judged(l)' => Judged(l)
        /\ InCanonical(l)' => InCanonical(l)
    BY <2>1, <2>2 DEF Bound, Working, Judged, Integrating, InCanonical
  <2>4. LeaseKnown(l)'
    BY <1>1, <2>1, <2>2 DEF Standing, LeaseKnown, Integrating
  <2>5. QED
    BY <2>1, <2>2, <2>3, <2>4, HandlerMoves
<1>4. ASSUME NEW v \in {"approved", "refused"}, DecideReview(l, v)
      PROVE  RunsInv'
  <2>1. /\ job'[l].phase = job[l].phase /\ job'[l].landed = job[l].landed
        /\ \A k \in Leases \ {l} : job'[k] = job[k]
    BY <1>1, <1>4 DEF DecideReview, Job
  <2>2. UNCHANGED <<status, leaseTask, leaseStatus, boot, reap, overruled, cut>>
    BY <1>4 DEF DecideReview, storeVars, hostVars, history
  <2>3. /\ Bound(l)' <=> Bound(l)
        /\ Judged(l)' <=> Judged(l)
        /\ InCanonical(l)' <=> InCanonical(l)
        /\ Integrating(l)' <=> Integrating(l)
        /\ Serving' <=> Serving
    BY <2>1, <2>2 DEF Bound, Working, Judged, Integrating, InCanonical, Serving
  <2>4. Kept(l)
    BY <1>1, <2>1, <2>2, <2>3
    DEF Kept, Standing, LeaseKnown, RowHeld, RowFollows
  <2>5. Remembers
    BY <2>2 DEF StepOK, Remembers
  <2>6. QueueFree'
    BY <2>2, <2>3 DEF RunsInv, QueueFree, ActiveLeases
  <2>7. \A k \in Leases \ {l} : Kept(k)
    BY <2>1, <2>2, <2>3, <2>5, Bystander
  <2>8. QED
    BY <2>4, <2>5, <2>6, <2>7, AllKept DEF StepOK
<1>5. CASE CloseRun(l)
  <2>1. job'[l] = Closed(job[l]) /\ \A k \in Leases \ {l} : job'[k] = job[k]
    BY <1>1, <1>5 DEF CloseRun
  <2>2. job'[l].phase = "idle" /\ job'[l].landed = job[l].landed
    BY <1>1, <2>1 DEF Closed, NoJob, Job
  <2>3. /\ UNCHANGED <<status, leaseTask, leaseStatus, boot, overruled, cut>>
        /\ Serving /\ Serving' /\ job[l].phase = "closing"
    BY <1>5 DEF CloseRun, storeVars, hostVars, history, Serving
  <2>4. /\ Bound(l)' => Bound(l)
        /\ Judged(l)' => Judged(l)
        /\ InCanonical(l)' => InCanonical(l)
    BY <2>2, <2>3 DEF Bound, Working, Judged, Integrating, InCanonical
  <2>5. LeaseKnown(l)'
    BY <2>2, <2>3 DEF LeaseKnown, Integrating
  <2>6. QED
    BY <2>1, <2>2, <2>3, <2>4, <2>5, HandlerMoves
<1>6. QED
  BY <1>2, <1>3, <1>4, <1>5

\* A handler ends or gives back the row of its task, and closes.
LEMMA EndsRow ==
    ASSUME RunsInv, StepOK, Serving, Remembers, NEW l \in Leases, NEW s,
           MoveTask(leaseTask[l], {"claimed", "failed"}, s),
           status[leaseTask[l]] = "claimed",
           UNCHANGED boot,
           job' = [job EXCEPT ![l].phase = "closing"],
           job[l].phase # "idle",
           leaseStatus[l] # "active",
           s = "integrated" \/ job[l].phase \notin {"landed", "recorded"},
           \A k \in Leases \ {l} :
              Bound(k) /\ leaseTask[k] = leaseTask[l] => leaseTask[l] \in overruled'
    PROVE  RunsInv'
<1>1. /\ StoreTypeOK /\ RemoteInv /\ Standing(l) /\ job \in [Leases -> Job]
      /\ leaseTask[l] \in Tasks
      /\ Serving'
  BY InvParts, BusyLease DEF RunsInv, Standing, Serving
<1>2. /\ \A u \in Tasks \ {leaseTask[l]} : status'[u] = status[u]
      /\ status'[leaseTask[l]] = s
      /\ UNCHANGED <<leaseStatus, leaseTask>>
  BY <1>1, OneRowMoves
<1>3. /\ job'[l].phase = "closing" /\ job'[l].landed = job[l].landed
      /\ \A k \in Leases \ {l} : job'[k] = job[k]
  BY <1>1 DEF Job
<1>4. ~Bound(l)' /\ ~Judged(l)' /\ ~Integrating(l)'
  BY <1>2, <1>3 DEF Bound, Working, Judged, Integrating
<1>5. LeaseKnown(l)' /\ RowHeld(l)'
  BY <1>1, <1>3, <1>4 DEF LeaseKnown, RowHeld
<1>6. RowFollows(l)'
  BY <1>1, <1>2, <1>3
  DEF Standing, LeaseKnown, RowFollows, InCanonical, Remembers
<1>7. Kept(l)
  BY <1>2, <1>4, <1>5, <1>6 DEF Kept, Standing
<1>8. ASSUME NEW k \in Leases \ {l}
      PROVE  Kept(k)
  <2>1. Bound(k) /\ leaseTask[k] \notin overruled'
           => status'[leaseTask[k]] = status[leaseTask[k]]
    BY <1>1, <1>2, BoundLease
  <2>2. QED
    BY <1>1, <1>2, <1>3, <2>1, Bystander
<1>9. QED
  BY <1>1, <1>7, <1>8, AllKept DEF StepOK, QueueFree

\* The row completes, or fails, from under the handler that is bound to it.
LEMMA CompleteKeeps ==
    ASSUME RunsInv, StepOK, NEW l \in Leases, CompleteTask(l) \/ FailTask(l)
    PROVE  RunsInv'
<1>1. /\ StoreTypeOK /\ RemoteInv /\ Standing(l) /\ Serving
      /\ job[l].phase \in {"recorded", "failing"}
  BY InvParts DEF RunsInv, Standing, CompleteTask, FailTask, Goes
<1>2. Bound(l) /\ leaseStatus[l] \in {"failed", "completed"}
  BY <1>1 DEF Standing, LeaseKnown, Bound, Working, Integrating
<1>3. \A k \in Leases \ {l} :
         Bound(k) /\ leaseTask[k] = leaseTask[l] => leaseTask[l] \in overruled
  BY <1>2, Apart
<1>4. UNCHANGED <<boot, history>>
  BY DEF CompleteTask, FailTask, Goes, hostVars
<1>5. Remembers
  BY <1>4 DEF StepOK, Remembers, history
<1>6. CASE status[leaseTask[l]] = "claimed"
  <2>1. /\ job' = [job EXCEPT ![l].phase = "closing"]
        /\ \/ /\ MoveTask(leaseTask[l], {"claimed"}, "integrated")
              /\ job[l].phase = "recorded"
           \/ /\ MoveTask(leaseTask[l], {"claimed"}, "failed")
              /\ job[l].phase = "failing"
    BY <1>6 DEF CompleteTask, FailTask, Goes, CompleteSubmittedTask
  <2>2. PICK s : /\ MoveTask(leaseTask[l], {"claimed"}, s)
                 /\ s = "integrated" \/ job[l].phase = "failing"
    BY <2>1
  <2>3. MoveTask(leaseTask[l], {"claimed", "failed"}, s)
    BY <2>2 DEF MoveTask
  <2>4. QED
    BY <1>1, <1>2, <1>3, <1>4, <1>5, <1>6, <2>1, <2>2, <2>3, EndsRow DEF history
<1>7. CASE status[leaseTask[l]] # "claimed"
  <2>1. UNCHANGED storeVars
    BY <1>7 DEF CompleteTask, FailTask
  <2>2. CASE FailTask(l)
    BY <1>2, <2>1, <2>2, PhaseMoves DEF FailTask, storeVars
  <2>3. CASE CompleteTask(l)
    <3>1. PICK to \in {"closing", "erring"} : Goes(l, "recorded", to)
      BY <2>3 DEF CompleteTask
    <3>2. leaseTask[l] \in overruled
      BY <1>1, <1>7, <3>1 DEF Goes, Standing, RowHeld, Judged, Integrating
    <3>3. QED
      BY <1>2, <2>1, <3>1, <3>2, PhaseMoves DEF storeVars
  <2>4. QED
    BY <2>2, <2>3
<1>8. QED
  BY <1>6, <1>7

\* A task is given back under the run that another has on it only when it is
\* overruled by that.
LEMMA RequeueKeeps ==
    ASSUME RunsInv, StepOK, NEW l \in Leases, RequeueTask(l)
    PROVE  RunsInv'
<1>1. /\ StoreTypeOK /\ RemoteInv /\ job \in [Leases -> Job]
      /\ Serving /\ job[l].phase = "requeueing"
      /\ job' = [job EXCEPT ![l].phase = "closing"]
      /\ UNCHANGED <<hostVars, boot>>
  BY InvParts DEF RunsInv, RequeueTask, hostVars
<1>2. /\ job'[l].phase = "closing" /\ job'[l].landed = job[l].landed
      /\ \A k \in Leases \ {l} : job'[k] = job[k]
  BY <1>1 DEF Job
<1>3. ASSUME NEW s \in {"released", "expired"}, FinishWorkLease(l, s)
      PROVE  RunsInv'
  <2>1. UNCHANGED history
    BY <1>3 DEF RequeueTask, FinishWorkLease, MayFinish
  <2>2. QED
    BY <1>1, <1>2, <1>3, <2>1, GivesBack DEF StepOK
<1>4. CASE /\ leaseStatus[l] # "active"
           /\ status[leaseTask[l]] = "claimed"
           /\ RetrySubmittedTask(leaseTask[l])
  <2>1. Overrule(leaseTask[l], {l})
    BY <1>4 DEF RequeueTask
  <2>2. Remembers
    BY <2>1, OverruleMarks DEF StepOK, Remembers
  <2>3. \A k \in Leases \ {l} :
           Bound(k) /\ leaseTask[k] = leaseTask[l] => leaseTask[l] \in overruled'
    BY <2>1, OverruleMarks
  <2>4. QED
    BY <1>1, <1>4, <2>2, <2>3, EndsRow DEF RetrySubmittedTask
<1>5. CASE /\ leaseStatus[l] # "active"
           /\ status[leaseTask[l]] # "claimed"
           /\ UNCHANGED storeVars
  <2>1. Goes(l, "requeueing", "closing")
    BY <1>1, <1>5 DEF RequeueTask, Goes
  <2>2. QED
    BY <1>5, <2>1, PhaseMoves DEF storeVars
<1>6. QED
  BY <1>3, <1>4, <1>5 DEF RequeueTask

\* The catch takes down only a task its handler is bound to.
LEMMA CatchKeeps ==
    ASSUME RunsInv, StepOK, NEW l \in Leases, CatchError(l)
    PROVE  RunsInv'
<1>1. /\ StoreTypeOK /\ RemoteInv /\ job \in [Leases -> Job]
      /\ Serving /\ job[l].phase = "erring"
  BY InvParts DEF RunsInv, CatchError, Goes
<1>2. CASE FinishWorkLease(l, "failed") /\ Goes(l, "erring", "failing")
  <2>1. Bound(l)
    BY <1>2 DEF FinishWorkLease, MayFinish, Bound, Working
  <2>2. QED
    BY <1>1, <1>2, <2>1, Settles, PhaseMoves
<1>3. CASE FinishWorkLease(l, "expired") /\ Goes(l, "erring", "closing")
  <2>1. /\ job'[l].phase = "closing" /\ job'[l].landed = job[l].landed
        /\ \A k \in Leases \ {l} : job'[k] = job[k]
        /\ UNCHANGED <<boot, history>>
    BY <1>1, <1>3 DEF Goes, Job, hostVars
  <2>2. QED
    BY <1>1, <1>3, <2>1, GivesBack DEF StepOK
<1>4. CASE /\ leaseStatus[l] = "completed" /\ UNCHANGED storeVars
           /\ Goes(l, "erring", "failing")
  <2>1. Bound(l)
    BY <1>1, <1>4 DEF Bound
  <2>2. QED
    BY <1>4, <2>1, PhaseMoves DEF storeVars
<1>5. CASE Goes(l, "erring", "closing") /\ UNCHANGED storeVars
  BY <1>5, PhaseMoves DEF storeVars
<1>6. QED
  BY <1>2, <1>3, <1>4, <1>5 DEF CatchError

\* Whatever the handler of a result does.
LEMMA HandlerKeeps ==
    ASSUME RunsInv, StepOK, NEW l \in Leases, Handle(l)
    PROVE  RunsInv'
  BY EntryKeeps, RewriteSteps, SettleKeeps, IntegrateKeeps, CompleteKeeps,
     RequeueKeeps, CatchKeeps, ThrowKeeps
  DEF Handle

-----------------------------------------------------------------------------
(* A crash, and recovery *)

\* A crash leaves the workers their leases, and remembers what it cut short.
LEMMA CrashKeeps ==
    ASSUME RunsInv, StepOK, Crash
    PROVE  RunsInv'
<1>1. /\ job \in [Leases -> Job] /\ ~Serving'
      /\ UNCHANGED <<status, leaseStatus, leaseTask, overruled>>
      /\ cut \subseteq cut'
      /\ reap'.todo = {}
  BY InvParts DEF RunsInv, Crash, storeVars, Serving, Idle
<1>2. Remembers /\ QueueFree'
  BY <1>1 DEF StepOK, Remembers, QueueFree
<1>3. ASSUME NEW k \in Leases
      PROVE  Kept(k)
  <2>1. Standing(k)
    BY DEF RunsInv, Standing
  <2>2. job'[k].phase = "idle" /\ job'[k].landed = job[k].landed
    BY <1>1 DEF Crash, Job
  <2>3. /\ ~Integrating(k)' /\ ~Judged(k)'
        /\ Bound(k)' => Bound(k)
        /\ InCanonical(k)' <=> InCanonical(k)
    BY <1>1, <2>2 DEF Integrating, Judged, Bound, Working, InCanonical
  <2>4. LeaseKnown(k)' /\ RowHeld(k)'
    BY <1>1, <2>1, <2>2, <2>3 DEF Standing, LeaseKnown, RowHeld
  <2>5. RowFollows(k)'
    <3>1. InCanonical(k) /\ k \notin cut' =>
             job[k].phase \notin {"landed", "recorded", "resumed", "reclaiming"}
      BY DEF Crash
    <3>2. QED
      BY <1>1, <2>1, <2>3, <3>1 DEF Standing, RowFollows
  <2>6. QED
    BY <1>1, <2>3, <2>4, <2>5 DEF Kept, Standing
<1>4. QED
  BY <1>2, <1>3, AllKept DEF StepOK

\* The stages of a boot.
LEMMA BootKeeps ==
    ASSUME RunsInv, StepOK,
           BootExpired \/ BootResumed \/ BootDone \/ \E t \in Tasks : BootReap(t)
    PROVE  RunsInv'
<1>1. /\ StoreTypeOK /\ RemoteInv /\ ~Serving
      /\ UNCHANGED <<leaseStatus, leaseTask, overruled, cut>>
  BY InvParts
  DEF RunsInv, BootExpired, BootResumed, BootDone, BootReap, RetrySubmittedTask,
      MoveTask, storeVars, history, Serving
<1>2. Remembers
  BY <1>1 DEF StepOK, Remembers
<1>3. CASE BootExpired \/ BootResumed
  <2>1. /\ UNCHANGED <<status, job, reap>> /\ ~Serving'
        /\ boot' = "resuming" \/ \A k \in Leases : job[k].phase = "idle"
    BY <1>3 DEF BootExpired, BootResumed, storeVars, Serving
  <2>2. \A k \in Leases : Kept(k)
    BY <1>1, <1>2, <2>1, Bystander
  <2>3. QueueFree'
    BY <1>1, <2>1 DEF RunsInv, QueueFree, ActiveLeases
  <2>4. QED
    BY <1>2, <2>2, <2>3, AllKept DEF StepOK
<1>4. ASSUME NEW t \in Tasks, BootReap(t)
      PROVE  RunsInv'
  <2>1. /\ UNCHANGED <<job, boot, reap>>
        /\ MoveTask(t, {"claimed", "failed"}, "submitted")
        /\ \A l \in ActiveLeases : leaseTask[l] # t
    BY <1>4 DEF BootReap, RetrySubmittedTask, Stranded, hostVars
  <2>2. \A k \in Leases : Bound(k) => leaseTask[k] # t
    BY <1>1, <2>1 DEF Bound, Working, Integrating, ActiveLeases
  <2>3. \A k \in Leases : Bound(k) /\ leaseTask[k] \notin overruled' =>
           status'[leaseTask[k]] = status[leaseTask[k]]
    BY <1>1, <2>1, <2>2, OneRowMoves, BoundLease
  <2>4. QueueFree'
    BY <1>1, <2>1 DEF RunsInv, QueueFree, ActiveLeases, Serving
  <2>5. QED
    BY <1>1, <1>2, <2>1, <2>3, <2>4, RowMoves
<1>5. CASE BootDone
  <2>1. /\ boot = "reaping" /\ Serving' /\ UNCHANGED status
        /\ job \in [Leases -> Job]
    BY <1>5, InvParts DEF RunsInv, BootDone, storeVars, Serving
  <2>2. ASSUME NEW k \in Leases
        PROVE  Kept(k)
    <3>1. Standing(k) /\ job[k].phase = "idle"
      BY <1>1, <2>1 DEF RunsInv, Standing, LeaseKnown
    <3>2. job'[k] = Closed(job[k]) /\ job[k] \in Job
      BY <1>5, <2>1 DEF BootDone
    <3>3. job'[k].phase = "idle" /\ job'[k].landed = job[k].landed
      BY <3>2 DEF Closed, NoJob, Job
    <3>4. /\ ~Integrating(k)' /\ ~Judged(k)'
          /\ Bound(k)' => Bound(k)
          /\ InCanonical(k)' <=> InCanonical(k)
      BY <1>1, <3>3 DEF Integrating, Judged, Bound, Working, InCanonical
    <3>5. LeaseKnown(k)' /\ RowHeld(k)' /\ RowFollows(k)'
      BY <1>1, <2>1, <3>1, <3>3, <3>4 DEF Standing, LeaseKnown, RowHeld, RowFollows
    <3>6. QED
      BY <1>1, <3>4, <3>5 DEF Kept, Standing
  <2>3. QED
    BY <1>2, <2>1, <2>2, AllKept DEF StepOK, QueueFree
<1>6. QED
  BY <1>3, <1>4, <1>5

\* Recovery goes on with the result of l: what it has to show of l, of the
\* queue it claims and of the rows of workers that hold a lease.
LEMMA RecoveryMoves ==
    ASSUME RunsInv, StepOK, Remembers, NEW l \in Leases,
           boot = "resuming", UNCHANGED <<leaseStatus, leaseTask, boot>>,
           \A k \in Leases \ {l} : job'[k] = job[k],
           job'[l].phase \in {"idle", "landed", "resumed", "reclaiming",
                              "handingBack"},
           job'[l].phase # "idle" => job'[l].landed = "recovery",
           RowFollows(l)',
           \A k \in Leases :
              leaseStatus[k] = "active" /\ leaseTask[k] \notin overruled' =>
                 \/ status'[leaseTask[k]] = status[leaseTask[k]]
                 \/ status'[leaseTask[k]] = "integrated",
           \A k \in ActiveLeases :
              leaseTask[k] \in reap'.todo =>
                 leaseTask[k] \in reap.todo \cup overruled'
    PROVE  RunsInv'
<1>1. /\ ~Serving /\ ~Serving'
      /\ \A k \in Leases : /\ Bound(k) <=> leaseStatus[k] = "active"
                           /\ Bound(k)' <=> leaseStatus'[k] = "active"
                           /\ ~Judged(k)' /\ ~Integrating(k)'
  BY DEF Serving, Bound, Working, Integrating, Judged
<1>2. Kept(l)
  <2>1. LeaseKnown(l)'
    BY <1>1 DEF LeaseKnown
  <2>2. RowHeld(l)'
    BY <1>1 DEF RunsInv, RowHeld, Remembers
  <2>3. QED
    BY <1>1, <2>1, <2>2 DEF Kept, Standing
<1>3. \A k \in Leases \ {l} : Kept(k)
  BY <1>1, Bystander
<1>4. QueueFree'
  BY <1>1 DEF RunsInv, QueueFree, ActiveLeases, Remembers
<1>5. QED
  BY <1>2, <1>3, <1>4, AllKept DEF StepOK

\* Recovery integrates what a dead process left, and records the outcome.
LEMMA ResumeRunKeeps ==
    ASSUME RunsInv, StepOK, NEW l \in Leases,
           ResumePromote(l) \/ ResumeFails(l) \/ ResumeRecord(l)
    PROVE  RunsInv'
<1>1. /\ job \in [Leases -> Job] /\ Standing(l)
      /\ boot = "resuming" /\ ~Serving
      /\ UNCHANGED <<status, leaseStatus, leaseTask, boot, reap, overruled, cut>>
  BY InvParts
  DEF RunsInv, Standing, ResumePromote, ResumeFails, ResumeRecord, Resumable,
      Serving, storeVars, hostVars, history
<1>2. Remembers
  BY <1>1 DEF StepOK, Remembers
<1>3. /\ \A k \in Leases \ {l} : job'[k] = job[k]
      /\ \/ job'[l].phase = "landed" /\ job'[l].landed = "recovery"
         \/ /\ job'[l].phase = job[l].phase /\ job[l].phase = "idle"
            /\ job'[l].landed = job[l].landed
         \/ /\ job'[l].phase = "resumed" /\ job[l].phase = "landed"
            /\ job'[l].landed = job[l].landed
  BY <1>1 DEF ResumePromote, ResumeFails, ResumeRecord, Resumable, Job
<1>4. job'[l].phase # "idle" => job'[l].landed = "recovery"
  BY <1>1, <1>3 DEF Standing, LeaseKnown
<1>5. RowFollows(l)'
  BY <1>1, <1>3 DEF Standing, RowFollows, InCanonical
<1>6. QED
  BY <1>1, <1>2, <1>3, <1>4, <1>5, RecoveryMoves

\* Recovery that throws after the branch moved leaves the row where it is.
LEMMA ResumeThrowKeeps ==
    ASSUME RunsInv, StepOK, NEW l \in Leases, ResumeThrows(l)
    PROVE  RunsInv'
<1>1. /\ job \in [Leases -> Job] /\ boot = "resuming"
      /\ UNCHANGED <<status, leaseStatus, leaseTask, boot, reap, overruled>>
      /\ cut' = cut \cup {l}
  BY InvParts
  DEF RunsInv, ResumeThrows, CutShort, storeVars, hostVars
<1>2. job'[l].phase = "idle" /\ \A k \in Leases \ {l} : job'[k] = job[k]
  BY <1>1 DEF ResumeThrows, Job
<1>3. Remembers /\ RowFollows(l)'
  BY <1>1 DEF StepOK, Remembers, RowFollows
<1>4. QED
  BY <1>1, <1>2, <1>3, RecoveryMoves

\* Recovery finishes the row of what it landed.  The queue it claims for that
\* was queued, so no worker holds any of it.
LEMMA ResumeFinishKeeps ==
    ASSUME RunsInv, StepOK, NEW l \in Leases, ResumeFinish(l)
    PROVE  RunsInv'
<1> DEFINE t == leaseTask[l]
           q == Claimable(Repository[t])
<1>1. /\ StoreTypeOK /\ RemoteInv /\ HostTyped
      /\ job \in [Leases -> Job] /\ Standing(l) /\ t \in Tasks
      /\ boot = "resuming" /\ ~Serving /\ job[l].phase = "resumed"
      /\ UNCHANGED boot
  BY InvParts, BusyLease DEF RunsInv, Standing, ResumeFinish, Serving
<1>2. job[l].landed = "recovery"
  BY <1>1 DEF Standing, LeaseKnown
<1>3. CASE status[t] = "submitted"
  <2>1. /\ job' = [job EXCEPT ![l].phase = "reclaiming"]
        /\ reap' = [reap EXCEPT !.todo = q \ {t}]
        /\ UNCHANGED storeVars \/ ClaimSubmittedTasks(Repository[t])
        /\ UNCHANGED <<overruled, cut>>
    BY <1>3 DEF ResumeFinish, history
  <2>2. /\ job'[l].phase = "reclaiming" /\ job'[l].landed = job[l].landed
        /\ \A k \in Leases \ {l} : job'[k] = job[k]
        /\ reap'.todo = q \ {t}
    BY <1>1, <2>1 DEF Job, HostTyped
  <2>3. /\ UNCHANGED <<leaseStatus, leaseTask>>
        /\ \A u \in Tasks \ q : status'[u] = status[u]
        /\ \A u \in q : u \in Tasks /\ status[u] = "submitted"
    BY <2>1 DEF storeVars, ClaimSubmittedTasks, Claimable
  <2>4. Remembers
    BY <2>1 DEF StepOK, Remembers
  <2>5. ASSUME NEW k \in Leases, leaseStatus[k] = "active",
               leaseTask[k] \notin overruled
        PROVE  leaseTask[k] \in Tasks \ q
    <3>1. Bound(k)
      BY <2>5 DEF Bound, Working
    <3>2. status[leaseTask[k]] \in {"claimed", "integrated"}
      BY <2>5, <3>1 DEF RunsInv, RowHeld
    <3>3. QED
      BY <1>1, <2>3, <3>1, <3>2, BoundLease
  <2>6. RowFollows(l)'
    BY <2>2 DEF RowFollows
  <2>7. \A k \in ActiveLeases : leaseTask[k] \in reap'.todo =>
           leaseTask[k] \in reap.todo \cup overruled'
    BY <2>1, <2>2, <2>5 DEF ActiveLeases
  <2>8. \A k \in Leases :
           leaseStatus[k] = "active" /\ leaseTask[k] \notin overruled' =>
              status'[leaseTask[k]] = status[leaseTask[k]]
    BY <2>1, <2>3, <2>5
  <2> HIDE DEF t, q
  <2>9. QED
    BY <1>1, <1>2, <2>2, <2>3, <2>4, <2>6, <2>7, <2>8, RecoveryMoves
<1>4. CASE status[t] # "submitted"
  <2>1. /\ job' = [job EXCEPT ![l].phase = "idle"]
        /\ UNCHANGED reap
        /\ \/ MoveTask(t, {"claimed"}, "integrated") /\ UNCHANGED history
           \/ /\ UNCHANGED storeVars
              /\ \/ status[t] = "integrated" /\ UNCHANGED history
                 \/ CutShort(l)
    BY <1>4 DEF ResumeFinish, CompleteSubmittedTask
  <2>2. /\ job'[l].phase = "idle" /\ job'[l].landed = job[l].landed
        /\ \A k \in Leases \ {l} : job'[k] = job[k]
    BY <1>1, <2>1 DEF Job
  <2>3. /\ UNCHANGED <<leaseStatus, leaseTask>>
        /\ \A u \in Tasks \ {t} : status'[u] = status[u]
        /\ status'[t] = "integrated" \/ (status'[t] = status[t] /\ l \in cut')
    <3>1. CASE MoveTask(t, {"claimed"}, "integrated")
      BY <1>1, <3>1 DEF MoveTask, StoreTypeOK
    <3>2. CASE UNCHANGED storeVars /\ (status[t] = "integrated" \/ CutShort(l))
      BY <3>2 DEF storeVars, CutShort
    <3>3. QED
      BY <2>1, <3>1, <3>2
  <2>4. Remembers
    BY <2>1 DEF StepOK, Remembers, history, CutShort
  <2>5. RowFollows(l)'
    BY <2>3 DEF RowFollows
  <2>6. \A k \in Leases :
           leaseStatus[k] = "active" /\ leaseTask[k] \notin overruled' =>
              \/ status'[leaseTask[k]] = status[leaseTask[k]]
              \/ status'[leaseTask[k]] = "integrated"
    BY <1>1, <2>3 DEF StoreTypeOK
  <2> HIDE DEF t, q
  <2>7. QED
    BY <1>1, <2>1, <2>2, <2>3, <2>4, <2>5, <2>6, RecoveryMoves
<1>5. QED
  BY <1>3, <1>4

\* ... completes the row it claimed, and hands the rest of the queue back.
LEMMA ResumeRowKeeps ==
    ASSUME RunsInv, StepOK, NEW l \in Leases,
           ResumeReclaimed(l) \/ ResumeHandBack(l)
    PROVE  RunsInv'
<1> DEFINE t == leaseTask[l]
<1>1. /\ StoreTypeOK /\ RemoteInv /\ HostTyped
      /\ job \in [Leases -> Job] /\ Standing(l) /\ t \in Tasks
      /\ boot = "resuming" /\ ~Serving
      /\ job[l].phase \in {"reclaiming", "handingBack"}
      /\ UNCHANGED boot
  BY InvParts, BusyLease
  DEF RunsInv, Standing, ResumeReclaimed, ResumeHandBack, Serving
<1>2. job[l].landed = "recovery"
  BY <1>1 DEF Standing, LeaseKnown
<1>3. CASE ResumeReclaimed(l)
  <2>1. \/ /\ MoveTask(t, {"claimed"}, "integrated")
           /\ UNCHANGED <<reap, history>>
           /\ job' = [job EXCEPT ![l].phase = "handingBack"]
        \/ /\ UNCHANGED storeVars /\ CutShort(l) /\ reap' = Idle
           /\ job' = [job EXCEPT ![l].phase = "idle"]
    BY <1>3 DEF ResumeReclaimed, CompleteSubmittedTask
  <2>2. /\ job'[l].phase \in {"idle", "handingBack"}
        /\ job'[l].landed = job[l].landed
        /\ \A k \in Leases \ {l} : job'[k] = job[k]
    BY <1>1, <2>1 DEF Job
  <2>3. /\ UNCHANGED <<leaseStatus, leaseTask>>
        /\ \A u \in Tasks \ {t} : status'[u] = status[u]
        /\ status'[t] = "integrated" \/ (status'[t] = status[t] /\ l \in cut')
        /\ reap'.todo \subseteq reap.todo
    <3>1. CASE MoveTask(t, {"claimed"}, "integrated") /\ UNCHANGED reap
      BY <1>1, <3>1 DEF MoveTask, StoreTypeOK
    <3>2. CASE UNCHANGED storeVars /\ CutShort(l) /\ reap' = Idle
      BY <3>2 DEF storeVars, CutShort, Idle
    <3>3. QED
      BY <2>1, <3>1, <3>2
  <2>4. Remembers
    BY <2>1 DEF StepOK, Remembers, history, CutShort
  <2>5. RowFollows(l)'
    BY <2>3 DEF RowFollows
  <2>6. \A k \in Leases :
           leaseStatus[k] = "active" /\ leaseTask[k] \notin overruled' =>
              \/ status'[leaseTask[k]] = status[leaseTask[k]]
              \/ status'[leaseTask[k]] = "integrated"
    BY <1>1, <2>3 DEF StoreTypeOK
  <2> HIDE DEF t
  <2>7. QED
    BY <1>1, <1>2, <2>2, <2>3, <2>4, <2>5, <2>6, RecoveryMoves
<1>4. ASSUME NEW u \in reap.todo, RetrySubmittedTask(u),
             reap' = [reap EXCEPT !.todo = @ \ {u}], UNCHANGED <<job, history>>
      PROVE  RunsInv'
  <2>1. u \in Tasks /\ reap'.todo \subseteq reap.todo
    BY <1>1, <1>4 DEF HostTyped
  <2>2. /\ UNCHANGED <<leaseStatus, leaseTask>>
        /\ \A v \in Tasks \ {u} : status'[v] = status[v]
    BY <1>1, <1>4, <2>1, OneRowMoves DEF RetrySubmittedTask
  <2>3. Remembers
    BY <1>4 DEF StepOK, Remembers, history
  <2>4. QueueFree'
    BY <1>1, <1>4, <2>1, <2>2 DEF RunsInv, QueueFree, ActiveLeases, history
  <2>5. ASSUME NEW k \in Leases, Bound(k), leaseTask[k] \notin overruled'
        PROVE  status'[leaseTask[k]] = status[leaseTask[k]]
    <3>1. leaseStatus[k] = "active"
      BY <1>1, <2>5 DEF Bound, Working, Integrating
    <3>2. leaseTask[k] # u
      BY <1>1, <1>4, <2>5, <3>1 DEF RunsInv, QueueFree, ActiveLeases, history
    <3>3. QED
      BY <1>1, <2>2, <2>5, <3>2, BoundLease
  <2>6. QED
    BY <1>1, <1>4, <2>2, <2>3, <2>4, <2>5, RowMoves
<1>5. CASE /\ job[l].phase = "handingBack"
           /\ job' = [job EXCEPT ![l].phase = "idle"]
           /\ UNCHANGED <<storeVars, reap, history>>
  <2>1. /\ job'[l].phase = "idle" /\ job'[l].landed = job[l].landed
        /\ \A k \in Leases \ {l} : job'[k] = job[k]
    BY <1>1, <1>5 DEF Job
  <2>2. UNCHANGED <<status, leaseStatus, leaseTask, overruled, cut>>
    BY <1>5 DEF storeVars, history
  <2>3. RowFollows(l)'
    BY <1>1, <1>5, <2>1, <2>2 DEF Standing, RowFollows, InCanonical
  <2>4. Remembers
    BY <2>2 DEF StepOK, Remembers
  <2>5. QED
    BY <1>1, <1>5, <2>1, <2>2, <2>3, <2>4, RecoveryMoves
<1>6. QED
  BY <1>3, <1>4, <1>5 DEF ResumeHandBack

-----------------------------------------------------------------------------
(* The theorems *)

\* Nothing is leased yet.
LEMMA RunsStart == RemoteInit => RunsInv
<1> SUFFICES ASSUME RemoteInit PROVE RunsInv
  OBVIOUS
<1>1. /\ RemoteInv /\ Serving
      /\ \A l \in Leases : /\ leaseStatus[l] = "none"
                           /\ job[l].phase = "idle" /\ job[l].landed = "no"
  BY RemoteStarts DEF RemoteInit, StoreInit, NoJob, Serving
<1>2. \A l \in Leases : ~Bound(l) /\ ~Judged(l) /\ ~Integrating(l) /\ ~InCanonical(l)
  BY <1>1 DEF Bound, Working, Judged, Integrating, InCanonical
<1>3. QED
  BY <1>1, <1>2
  DEF RunsInv, RunsApart, QueueFree, LeaseKnown, RowHeld, RowFollows

\* Every step keeps the invariant.
LEMMA RunsSteps ==
    ASSUME RunsInv, [RemoteNext]_remoteVars
    PROVE  RunsInv'
<1>1. StepOK
  BY RemoteSteps DEF RunsInv
<1>2. CASE Recover
  BY <1>1, <1>2, BootKeeps, ResumeRunKeeps, ResumeThrowKeeps, ResumeFinishKeeps,
     ResumeRowKeeps
  DEF Recover
<1>3. CASE UNCHANGED remoteVars
  BY <1>1, <1>3, NothingMoves DEF remoteVars, storeVars, hostVars
<1>4. CASE \/ \E l \in Leases : \/ \E F \in Filters : Poll(l, F)
                               \/ Heartbeat(l) \/ WorkerRelease(l) \/ ExpireLease(l)
           \/ \E F \in Filters : PollEmpty(F)
           \/ \E t \in Tasks : Submit(t)
           \/ Time
  BY <1>1, <1>4, WorkersKeep
<1>5. CASE \/ \E t \in Tasks : \/ Retry(t) \/ Resume(t)
                              \/ \E to \in {"cancelled", "paused"} : StopRead(t, to)
           \/ StopWrite \/ StopRelease
  BY <1>1, <1>5, PeopleKeep
<1>6. ASSUME NEW l \in Leases,
             \/ ReceiveResult(l) \/ Handle(l)
             \/ \E v \in {"approved", "refused"} : DecideReview(l, v)
      PROVE  RunsInv'
  BY <1>1, <1>6, EntryKeeps, RewriteSteps, HandlerKeeps
<1>7. QED
  BY <1>1, <1>2, <1>3, <1>4, <1>5, <1>6, SweepKeeps, CrashKeeps DEF RemoteNext

\* What every reachable state satisfies: where each handler stands tells what
\* its lease and its task's row are, at most one run is bound to a task, and
\* what landed is on its way to the row or reported there.
THEOREM RunsInvariant == RemoteSpec => []RunsInv
  BY RunsStart, RunsSteps, PTL DEF RemoteSpec

\* A task that nobody overruled has one worker or one integrating handler,
\* whatever crashes, lapses, is late or is recovered.
THEOREM OneRunPerTaskHolds == RemoteSpec => []OneRunPerTask
<1>1. RunsInv => OneRunPerTask
  <2> SUFFICES ASSUME RunsInv, NEW t \in Tasks \ overruled
               PROVE  Cardinality(Holders(t)) <= 1
    BY DEF OneRunPerTask
  <2>1. \A l, k \in Holders(t) : l = k
    BY Apart DEF Holders, Bound
  <2>2. CASE Holders(t) = {}
    BY <2>2, FS_EmptySet
  <2>3. ASSUME NEW l \in Holders(t)
        PROVE  Cardinality(Holders(t)) <= 1
    <3>1. Holders(t) = {l}
      BY <2>1, <2>3
    <3>2. QED
      BY <3>1, FS_Singleton
  <2>4. QED
    BY <2>2, <2>3
<1>2. QED
  BY RunsInvariant, <1>1, PTL

\* What a handler put into canonical is not reported failed.
THEOREM LandedIsNotFailedHolds == RemoteSpec => []LandedIsNotFailed
<1>1. RunsInv => LandedIsNotFailed
  <2> SUFFICES ASSUME RunsInv, NEW l \in Leases, job[l].landed = "handler",
                      status[leaseTask[l]] = "failed",
                      leaseTask[l] \notin overruled, l \notin cut
               PROVE  FALSE
    BY DEF LandedIsNotFailed
  <2>1. job[l].phase \in {"landed", "recorded", "resumed", "reclaiming"}
    BY DEF RunsInv, RowFollows, InCanonical
  <2>2. Integrating(l)
    BY <2>1 DEF RunsInv, LeaseKnown, Integrating
  <2>3. QED
    BY <2>2 DEF RunsInv, RowHeld, Judged
<1>2. QED
  BY RunsInvariant, <1>1, PTL

\* No lease comes to say that its handler landed something.
NoneLands ==
    \A l \in Leases : job'[l].landed = "handler" => job[l].landed = "handler"

\* A job that is rewritten to one that no handler landed is no landing.
LEMMA RewriteLandsNone ==
    ASSUME job \in [Leases -> Job], NEW k \in Leases, NEW j,
           job' = [job EXCEPT ![k] = j],
           j.landed = "handler" => job[k].landed = "handler"
    PROVE  NoneLands
  BY DEF NoneLands

\* Nor is a handler that moves on to another phase.
LEMMA PhaseLandsNone ==
    ASSUME job \in [Leases -> Job], NEW k \in Leases, NEW to,
           job' = [job EXCEPT ![k].phase = to]
    PROVE  NoneLands
  BY DEF NoneLands, Job

\* Only the promotion of a settled result is one.
LEMMA OnlyPromotesLand ==
    ASSUME RemoteInv, [RemoteNext]_remoteVars
    PROVE  NoneLands \/ \E l \in Leases : Promote(l)
<1>1. job \in [Leases -> Job]
  BY InvParts
<1>2. CASE UNCHANGED job
  BY <1>2 DEF NoneLands
<1>3. ASSUME NEW l \in Leases, Handle(l)
      PROVE  NoneLands \/ Promote(l)
  <2>1. job[l] \in Job
    BY <1>1
  <2>2. ASSUME NEW from, NEW to, Goes(l, from, to)
        PROVE  NoneLands
    BY <1>1, <2>2, PhaseLandsNone DEF Goes
  <2>3. ASSUME NEW from, NEW to, Records(l, from, to)
        PROVE  NoneLands
    <3>1. [job[l] EXCEPT !.phase = to, !.decided = TRUE].landed = job[l].landed
      BY <2>1 DEF Job
    <3>2. QED
      BY <1>1, <2>3, <3>1, RewriteLandsNone DEF Records
  <2>4. CASE AnswerQuestion(l) \/ RecordEmpty(l)
    <3>1. /\ [job[l] EXCEPT !.phase = "recorded", !.landed = "reported"].landed
                = "reported"
          /\ [job[l] EXCEPT !.phase = "recorded", !.decided = TRUE,
                            !.landed = "reported"].landed = "reported"
      BY <2>1 DEF Job
    <3>2. QED
      BY <1>1, <2>4, <3>1, RewriteLandsNone DEF AnswerQuestion, RecordEmpty
  <2>5. CASE \E review \in {"none", "pending"} : Collect(l, review)
    BY <1>1, <2>5, RewriteLandsNone DEF Collect
  <2>6. CASE RequeueTask(l) \/ LandingThrows(l)
    BY <1>1, <2>6, PhaseLandsNone DEF RequeueTask, LandingThrows
  <2>7. CASE CloseRun(l)
    <3>1. Closed(job[l]).landed = job[l].landed
      BY <2>1 DEF Closed, NoJob, Job
    <3>2. QED
      BY <1>1, <2>7, <3>1, RewriteLandsNone DEF CloseRun
  <2>8. QED
    BY <1>3, <2>2, <2>3, <2>4, <2>5, <2>6, <2>7
    DEF Handle, ResultTooLate, RejectResult, GiveBack, AfterReview, AdvanceBlocks,
        SettleLease, SettleLost, RecordLanding, RecordStale, RecordLostBet,
        RecordFailure, IntegrateThrows, CompleteTask, FailTask, CatchError
<1>4. ASSUME NEW l \in Leases,
             \/ ReceiveResult(l)
             \/ \E v \in {"approved", "refused"} : DecideReview(l, v)
      PROVE  NoneLands
  BY <1>1, <1>4, PhaseLandsNone DEF ReceiveResult, Goes, DecideReview, NoneLands, Job
<1>5. ASSUME NEW l \in Leases,
             \/ ResumePromote(l) \/ ResumeFails(l) \/ ResumeRecord(l)
             \/ ResumeThrows(l)
             \/ ResumeFinish(l) \/ ResumeReclaimed(l) \/ ResumeHandBack(l)
      PROVE  NoneLands
  <2>1. job[l] \in Job
    BY <1>1
  <2>2. CASE ResumePromote(l)
    <3>1. [job[l] EXCEPT !.phase = "landed", !.landed = "recovery"].landed = "recovery"
      BY <2>1 DEF Job
    <3>2. QED
      BY <1>1, <2>2, <3>1, RewriteLandsNone DEF ResumePromote
  <2>3. CASE ResumeRecord(l)
    <3>1. [job[l] EXCEPT !.phase = "resumed", !.decided = TRUE].landed = job[l].landed
      BY <2>1 DEF Job
    <3>2. QED
      BY <1>1, <2>3, <3>1, RewriteLandsNone DEF ResumeRecord
  <2>4. CASE ResumeFails(l)
    BY <1>1, <2>4 DEF ResumeFails, NoneLands, Job
  <2>5. CASE ResumeThrows(l) \/ ResumeFinish(l) \/ ResumeReclaimed(l) \/ ResumeHandBack(l)
    <3>1. \/ UNCHANGED job
          \/ job' = [job EXCEPT ![l].phase = "idle"]
          \/ job' = [job EXCEPT ![l].phase = "reclaiming"]
          \/ job' = [job EXCEPT ![l].phase = "handingBack"]
      BY <2>5 DEF ResumeThrows, ResumeFinish, ResumeReclaimed, ResumeHandBack
    <3>2. QED
      BY <1>1, <3>1 DEF NoneLands, Job
  <2>6. QED
    BY <1>5, <2>2, <2>3, <2>4, <2>5
<1>6. CASE Crash
  BY <1>1, <1>6 DEF Crash, NoneLands, Job
<1>7. CASE BootDone
  <2>1. \A l \in Leases : job[l] \in Job /\ job'[l] = Closed(job[l])
    BY <1>1, <1>7 DEF BootDone
  <2>2. \A l \in Leases : Closed(job[l]).landed = job[l].landed
    BY <2>1 DEF Closed, NoJob, Job
  <2>3. QED
    BY <2>1, <2>2 DEF NoneLands
<1>8. CASE Recover
  BY <1>2, <1>5, <1>7, <1>8 DEF Recover, BootExpired, BootResumed, BootReap
<1>9. CASE Sweep
  BY <1>2, <1>9 DEF Sweep, ReapList, ReapLeased, ReapDone, ReapRetry
<1>10. CASE \/ \E l \in Leases : \/ \E F \in Filters : Poll(l, F)
                                \/ Heartbeat(l) \/ WorkerRelease(l) \/ ExpireLease(l)
            \/ \E F \in Filters : PollEmpty(F)
            \/ \E t \in Tasks : \/ Submit(t) \/ Retry(t) \/ Resume(t)
                                \/ \E to \in {"cancelled", "paused"} : StopRead(t, to)
            \/ StopWrite \/ StopRelease
            \/ Time
  BY <1>2, <1>10
  DEF Poll, Heartbeat, WorkerRelease, ExpireLease, PollEmpty, Submit, Retry, Resume,
      StopRead, StopWrite, StopRelease, Time
<1>11. CASE UNCHANGED remoteVars
  BY <1>2, <1>11 DEF remoteVars
<1>12. QED
  BY <1>3, <1>4, <1>6, <1>8, <1>9, <1>10, <1>11 DEF RemoteNext

\* Work that is in canonical and was not cut short is not landed again: at a
\* promotion the row of the task is claimed, which it is not when another run
\* of it has landed, and no other run is on its way there.
THEOREM LandsOnceHolds == RemoteSpec => LandsOnce
<1> DEFINE Once == \A l \in Leases : LandsAgain(l) => leaseTask[l] \in overruled
<1>1. RunsInv /\ [RemoteNext]_remoteVars => Once
  <2> SUFFICES ASSUME RunsInv, [RemoteNext]_remoteVars,
                      NEW l \in Leases, LandsAgain(l),
                      leaseTask[l] \notin overruled
               PROVE  FALSE
    OBVIOUS
  <2>1. PICK k \in Leases \ (cut \cup {l}) :
           InCanonical(k) /\ leaseTask[k] = leaseTask[l]
    BY DEF LandsAgain
  <2>2. /\ job \in [Leases -> Job]
        /\ LeaseKnown(k) /\ RowFollows(k) /\ RowHeld(l)
    BY InvParts DEF RunsInv
  <2>3. PICK m \in Leases : Promote(m)
    BY OnlyPromotesLand DEF RunsInv, LandsAgain, NoneLands
  <2>4. m = l
    BY <2>2, <2>3 DEF Promote, LandsAgain
  <2>5. Serving /\ Integrating(l)
    BY <2>3, <2>4 DEF Promote, Integrating
  <2>6. status[leaseTask[l]] = "claimed" /\ Bound(l)
    BY <2>2, <2>5 DEF RowHeld, Judged, Bound, Working
  <2>7. Integrating(k)
    BY <2>1, <2>2, <2>5, <2>6 DEF RowFollows, LeaseKnown, Integrating
  <2>8. Bound(k)
    BY <2>7 DEF Bound, Working
  <2>9. QED
    BY <2>1, <2>6, <2>8, Apart
<1>2. QED
  BY RunsInvariant, <1>1, PTL DEF RemoteSpec, LandsOnce
=============================================================================
