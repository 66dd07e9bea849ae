------------------------- MODULE RemoteWorkProofs -------------------------
(***************************************************************************)
(* Proofs about RemoteWork, for every set of tasks and leases, every       *)
(* combination of faults and every bound: the handlers, sweeps and         *)
(* recovery only ever use the store's methods (so WorkStore's theorems     *)
(* hold of them), a reviewed changeset waits for its review, and a task is *)
(* reported integrated only when something landed.                         *)
(***************************************************************************)
EXTENDS RemoteWork, WorkStoreProofs

-----------------------------------------------------------------------------
(* What the store methods leave alone *)

\* No row becomes integrated or open.
Quiet ==
    \A t \in Tasks : status'[t] \in {"integrated", "open"}
                        => status'[t] = status[t]

QuietStore == [StoreNext]_storeVars /\ Quiet

\* A minted lease keeps its task, and a completed one stays completed.
LEMMA LeaseKept ==
    ASSUME StoreTypeOK, [StoreNext]_storeVars, NEW l \in Leases
    PROVE  /\ leaseStatus[l] # "none" => leaseTask'[l] = leaseTask[l]
           /\ leaseStatus[l] # "none" => leaseStatus'[l] # "none"
           /\ leaseStatus[l] = "completed" => leaseStatus'[l] = "completed"
<1>1. ASSUME NEW k \in Leases, NEW F \in Filters, LeaseNextTask(k, F)
      PROVE  /\ leaseStatus[l] # "none" => leaseTask'[l] = leaseTask[l]
             /\ leaseStatus[l] # "none" => leaseStatus'[l] # "none"
             /\ leaseStatus[l] = "completed" => leaseStatus'[l] = "completed"
  <2>1. /\ leaseStatus[k] = "none"
        /\ \A m \in Leases \ {k} : /\ leaseStatus'[m] = SweptLeases[m]
                                   /\ leaseTask'[m] = leaseTask[m]
    BY <1>1, SweepTyped DEF LeaseNextTask, StoreTypeOK
  <2>2. QED
    BY <2>1, SweepOnlyEnds DEF LapsedLeases, ActiveLeases
<1>2. CASE \E F \in Filters : LeaseNothing(F)
  BY <1>2, SweepOnlyEnds DEF LeaseNothing, LapsedLeases, ActiveLeases
<1>3. CASE \E k \in Leases : HeartbeatWorkLease(k)
  BY <1>3 DEF HeartbeatWorkLease
<1>4. CASE \E k \in Leases, s \in LeaseStatus \ {"none", "active"} :
              FinishWorkLease(k, s)
  BY <1>4 DEF FinishWorkLease, MayFinish, StoreTypeOK, LeaseStatus
<1>5. CASE TaskStep
  BY <1>5, TaskStepTyped
<1>6. CASE Tick
  BY <1>6 DEF Tick
<1>7. CASE UNCHANGED storeVars
  BY <1>7 DEF storeVars
<1>8. QED
  BY <1>1, <1>2, <1>3, <1>4, <1>5, <1>6, <1>7 DEF StoreNext, LeaseStep

\* The shape of the tables survives every step of the store.
LEMMA StoreStepTyped ==
    ASSUME StoreTypeOK, [StoreNext]_storeVars
    PROVE  StoreTypeOK'
<1>1. CASE UNCHANGED storeVars
  BY <1>1 DEF StoreTypeOK, storeVars
<1>2. QED
  BY <1>1, LeaseStepTyped, TaskStepTyped, TickTyped DEF StoreNext

\* Polls, heartbeats and the clock are quiet.
LEMMA QuietPolls ==
    ASSUME StoreTypeOK,
           \/ \E l \in Leases, F \in Filters : LeaseNextTask(l, F)
           \/ \E F \in Filters : LeaseNothing(F)
           \/ \E l \in Leases : HeartbeatWorkLease(l)
           \/ Tick
    PROVE  QuietStore
<1>1. StoreNext
  BY DEF StoreNext, LeaseStep
<1>2. \A t \in Tasks : SweptTasks[t] \in {"integrated", "open"}
                          => SweptTasks[t] = status[t]
  BY DEF SweptTasks, Requeue
<1>3. CASE \E l \in Leases, F \in Filters : LeaseNextTask(l, F)
  <2>1. PICK t : status' = [SweptTasks EXCEPT ![t] = "claimed"]
    BY <1>3 DEF LeaseNextTask
  <2>2. QED
    BY <2>1, <1>1, <1>2, SweepTyped DEF QuietStore, Quiet
<1>4. CASE \E F \in Filters : LeaseNothing(F)
  BY <1>1, <1>2, <1>4 DEF LeaseNothing, QuietStore, Quiet
<1>5. QED
  BY <1>1, <1>3, <1>4 DEF HeartbeatWorkLease, Tick, QuietStore, Quiet

\* So is the ending of a lease.
LEMMA QuietFinish ==
    ASSUME StoreTypeOK, NEW l \in Leases,
           NEW s \in LeaseStatus \ {"none", "active"}, FinishWorkLease(l, s)
    PROVE  /\ QuietStore
           /\ leaseStatus[l] = "active"
           /\ leaseStatus'[l] = s
<1>1. StoreNext
  BY DEF StoreNext, LeaseStep
<1>2. \A t \in Tasks : Requeue({leaseTask[l]})[t] \in {"integrated", "open"}
                          => Requeue({leaseTask[l]})[t] = status[t]
  BY DEF Requeue
<1>3. QED
  BY <1>1, <1>2 DEF FinishWorkLease, MayFinish, StoreTypeOK, QuietStore, Quiet

\* So are the moves of a row to any status but integrated and open.
LEMMA QuietTasks ==
    ASSUME StoreTypeOK, NEW t \in Tasks,
           \A u \in Tasks : status[u] # "open",
           \/ SubmitTask(t, "submitted")
           \/ ClaimSubmittedTasks(Repository[t])
           \/ RetrySubmittedTask(t)
           \/ CancelSubmittedTask(t)
           \/ PauseSubmittedTask(t)
           \/ ResumePausedTask(t)
           \/ CompleteSubmittedTask(t, "failed")
    PROVE  QuietStore
<1>1. StoreNext
  BY DEF StoreNext, TaskStep, CompletionStatus
<1>2. QED
  BY <1>1 DEF SubmitTask, ClaimSubmittedTasks, RetrySubmittedTask,
     CancelSubmittedTask, PauseSubmittedTask, ResumePausedTask,
     CompleteSubmittedTask, MoveTask, StoreTypeOK, QuietStore, Quiet

\* Nothing at all is quiet.
LEMMA QuietStutter ==
    ASSUME UNCHANGED storeVars
    PROVE  QuietStore
  BY DEF storeVars, QuietStore, Quiet

-----------------------------------------------------------------------------
(* The invariant, lease by lease *)

\* What a job says of its lease and its review.
JobKnows(l) ==
    /\ leaseStatus[l] = "none" => job[l] = NoJob
    /\ job[l].phase \in {"landed", "recorded", "resumed", "reclaiming",
                         "handingBack"} => job[l].landed # "no"
    /\ job[l].phase = "checked" => job[l].landed # "handler"
    /\ job[l].phase \in {"approved", "settled"}
          => job[l].review \in {"none", "approved"}
    /\ job[l].phase = "settled" \/ job[l].landed = "handler"
          => leaseStatus[l] = "completed"
    /\ job[l].landed = "handler" => job[l].review \in {"none", "approved"}

\* The rest of the state has its shape.
HostTyped ==
    /\ boot \in BootStage
    /\ reap \in [phase : {"idle", "listed", "reaping"}, todo : SUBSET Tasks]
    /\ stop \in [phase : {"idle", "read", "written"},
                 task : Tasks \cup {NoTask}, to : {"none", "cancelled", "paused"},
                 holders : SUBSET Leases]
    /\ stop.phase # "idle" => stop.task \in Tasks
    /\ beats \in 0..MaxBeats
    /\ crashes \in 0..MaxCrashes
    /\ overruled \subseteq Tasks
    /\ cut \subseteq Leases

\* The invariant is the shape, the knowledge of each job and what is said of
\* rows that ended.
LEMMA InvParts ==
    RemoteInv <=> /\ StoreTypeOK
                  /\ job \in [Leases -> Job]
                  /\ HostTyped
                  /\ \A l \in Leases : JobKnows(l)
                  /\ \A t \in Tasks : status[t] # "open"
                  /\ IntegratedMeansLanded
  BY DEF RemoteInv, RemoteTypeOK, HostTyped, PhasesKnow, JobKnows,
         HandlersAwaitReview

\* Whether a row that became integrated has something that landed.
EndsLanded ==
    \A t \in Tasks : status'[t] \in {"integrated", "open"} =>
       \/ status'[t] = status[t]
       \/ /\ status'[t] = "integrated"
          /\ \E l \in Leases : leaseTask[l] = t /\ job[l].landed # "no"

\* A step that rewrites the jobs keeps the invariant when each of them still
\* knows what it should and none forgets that it landed.
LEMMA Carry ==
    ASSUME RemoteInv, [StoreNext]_storeVars, EndsLanded,
           job' \in [Leases -> Job], HostTyped',
           \A l \in Leases : \/ job'[l] = job[l]
                             \/ /\ leaseStatus'[l] # "none" /\ JobKnows(l)'
                                /\ job[l].landed # "no" => job'[l].landed # "no"
    PROVE  RemoteInv'
<1>1. /\ StoreTypeOK /\ StoreTypeOK'
      /\ job \in [Leases -> Job]
      /\ \A l \in Leases : JobKnows(l)
      /\ \A t \in Tasks : status[t] # "open"
      /\ IntegratedMeansLanded
  BY InvParts, StoreStepTyped
<1>2. \A l \in Leases : JobKnows(l)'
  BY <1>1, LeaseKept DEF JobKnows
<1>3. \A t \in Tasks : status'[t] # "open"
  BY <1>1 DEF EndsLanded
<1>4. IntegratedMeansLanded'
  <2> SUFFICES ASSUME NEW t \in Tasks, status'[t] = "integrated"
               PROVE  \E l \in Leases : leaseTask'[l] = t /\ job'[l].landed # "no"
    BY DEF IntegratedMeansLanded
  <2>1. PICK l \in Leases : leaseTask[l] = t /\ job[l].landed # "no"
    BY <1>1 DEF EndsLanded, IntegratedMeansLanded
  <2>2. leaseStatus[l] # "none"
    BY <1>1, <2>1 DEF JobKnows, NoJob
  <2>3. leaseTask'[l] = t
    BY <1>1, <2>1, <2>2, LeaseKept
  <2>4. job'[l].landed # "no"
    BY <2>1
  <2>5. QED
    BY <2>3, <2>4
<1>5. QED
  BY <1>1, <1>2, <1>3, <1>4
  DEF RemoteInv, RemoteTypeOK, HostTyped, PhasesKnow, JobKnows,
      HandlersAwaitReview

\* The same for a quiet step that rewrites the job of one lease.
LEMMA CarryOne ==
    ASSUME RemoteInv, QuietStore, NEW l \in Leases,
           job' \in [Leases -> Job],
           \A k \in Leases \ {l} : job'[k] = job[k],
           leaseStatus'[l] # "none", JobKnows(l)',
           job[l].landed # "no" => job'[l].landed # "no",
           HostTyped'
    PROVE  RemoteInv'
  BY Carry DEF QuietStore, Quiet, EndsLanded

\* A quiet step that leaves the jobs alone.
LEMMA CarryNone ==
    ASSUME RemoteInv, QuietStore, UNCHANGED job, HostTyped'
    PROVE  RemoteInv'
  BY Carry, InvParts DEF QuietStore, Quiet, EndsLanded

\* What leaves the host alone keeps its shape.
LEMMA HostKept ==
    ASSUME RemoteInv, UNCHANGED <<hostVars, history>>
    PROVE  HostTyped'
  BY InvParts DEF HostTyped, hostVars, history

-----------------------------------------------------------------------------
(* The steps *)

\* A handler's step from one phase to another keeps the invariant.
LEMMA GoesKeeps ==
    ASSUME RemoteInv, QuietStore, NEW l \in Leases,
           NEW from \in HandlerPhase, NEW to \in HandlerPhase,
           Goes(l, from, to),
           from # "idle" \/ leaseStatus[l] # "none",
           to \in {"landed", "recorded", "resumed", "reclaiming", "handingBack"}
              => job[l].landed # "no",
           to = "checked" => job[l].landed # "handler",
           to \in {"approved", "settled"} => job[l].review \in {"none", "approved"},
           to = "settled" => leaseStatus'[l] = "completed"
    PROVE  RemoteInv'
<1>1. /\ job \in [Leases -> Job]
      /\ JobKnows(l)
      /\ StoreTypeOK
      /\ job[l].phase = from
      /\ job' = [job EXCEPT ![l].phase = to]
  BY InvParts DEF Goes
<1>2. leaseStatus[l] # "none"
  BY <1>1 DEF JobKnows, NoJob
<1>3. /\ leaseStatus'[l] # "none"
      /\ leaseStatus[l] = "completed" => leaseStatus'[l] = "completed"
  BY <1>1, <1>2, LeaseKept DEF QuietStore
<1>4. /\ job' \in [Leases -> Job]
      /\ job'[l] = [job[l] EXCEPT !.phase = to]
      /\ \A k \in Leases \ {l} : job'[k] = job[k]
  BY <1>1 DEF Job
<1>5. JobKnows(l)'
  BY <1>1, <1>3, <1>4 DEF JobKnows, Job
<1>6. HostTyped'
  BY HostKept DEF Goes
<1>7. QED
  BY <1>1, <1>3, <1>4, <1>5, <1>6, CarryOne DEF Job

\* A lease that is not idle was minted, for a task.
LEMMA BusyLease ==
    ASSUME RemoteInv, NEW l \in Leases,
           job[l].phase # "idle" \/ leaseStatus[l] # "none" \/ job[l] # NoJob
    PROVE  leaseStatus[l] # "none" /\ leaseTask[l] \in Tasks
  BY InvParts DEF JobKnows, NoJob, StoreTypeOK

StepOK == RemoteInv' /\ [StoreNext]_storeVars

\* Workers, the clock and new tasks.
LEMMA WorkerSteps ==
    ASSUME RemoteInv,
           \/ \E l \in Leases : \/ \E F \in Filters : Poll(l, F)
                               \/ Heartbeat(l) \/ WorkerRelease(l) \/ ExpireLease(l)
           \/ \E F \in Filters : PollEmpty(F)
           \/ \E t \in Tasks : Submit(t)
           \/ Time
    PROVE  StepOK
<1>1. StoreTypeOK /\ \A u \in Tasks : status[u] # "open"
  BY InvParts
<1>2. QuietStore
  BY <1>1, QuietPolls, QuietFinish, QuietTasks
  DEF Poll, PollEmpty, Heartbeat, WorkerRelease, ExpireLease, Time, Submit,
      LeaseStatus
<1>3. UNCHANGED job
  BY DEF Poll, PollEmpty, Heartbeat, WorkerRelease, ExpireLease, Time, Submit
<1>4. HostTyped'
  <2>1. CASE \E l \in Leases : Heartbeat(l)
    <3>1. beats' \in 0..MaxBeats
      BY <2>1, InvParts, RemoteAssumption DEF Heartbeat, HostTyped
    <3>2. QED
      BY <2>1, <3>1, InvParts DEF Heartbeat, HostTyped, history
  <2>2. QED
    BY <2>1, HostKept
    DEF Poll, PollEmpty, WorkerRelease, ExpireLease, Time, Submit
<1>5. QED
  BY <1>2, <1>3, <1>4, CarryNone DEF StepOK, QuietStore

\* A job is rewritten to j, in a step of the store that ends a row as
\* integrated only when something landed.
LEMMA RewriteKeeps ==
    ASSUME RemoteInv, [StoreNext]_storeVars, EndsLanded, NEW l \in Leases,
           NEW j \in Job, job' = [job EXCEPT ![l] = j],
           job[l].phase # "idle" \/ job[l] # NoJob,
           j.phase \in {"landed", "recorded", "resumed", "reclaiming",
                        "handingBack"} => j.landed # "no",
           j.phase = "checked" => j.landed # "handler",
           j.phase \in {"approved", "settled"} => j.review \in {"none", "approved"},
           j.phase = "settled" \/ j.landed = "handler"
              => leaseStatus'[l] = "completed",
           j.landed = "handler" => j.review \in {"none", "approved"},
           job[l].landed # "no" => j.landed # "no",
           HostTyped'
    PROVE  StepOK
<1>1. StoreTypeOK /\ job \in [Leases -> Job] /\ leaseStatus[l] # "none"
  BY InvParts, BusyLease
<1>2. /\ job' \in [Leases -> Job]
      /\ job'[l] = j
      /\ \A k \in Leases \ {l} : job'[k] = job[k]
  BY <1>1
<1>3. leaseStatus'[l] # "none"
  BY <1>1, LeaseKept
<1>4. JobKnows(l)'
  BY <1>2, <1>3 DEF JobKnows
<1>5. \A k \in Leases : \/ job'[k] = job[k]
                        \/ /\ leaseStatus'[k] # "none" /\ JobKnows(k)'
                           /\ job[k].landed # "no" => job'[k].landed # "no"
  <2> SUFFICES ASSUME NEW k \in Leases, job'[k] # job[k]
               PROVE  /\ leaseStatus'[k] # "none" /\ JobKnows(k)'
                      /\ job[k].landed # "no" => job'[k].landed # "no"
    OBVIOUS
  <2>1. k = l
    BY <1>2
  <2>2. QED
    BY <1>2, <1>3, <1>4, <2>1
<1>6. RemoteInv'
  BY <1>2, <1>5, Carry
<1>7. QED
  BY <1>6 DEF StepOK

\* Quiet steps of the store end no row.
LEMMA QuietEnds ==
    ASSUME QuietStore
    PROVE  [StoreNext]_storeVars /\ EndsLanded
  BY DEF QuietStore, Quiet, EndsLanded

\* A result arrives, and is refused, given back or collected.
LEMMA EntrySteps ==
    ASSUME RemoteInv, NEW l \in Leases,
           \/ ReceiveResult(l) \/ RejectResult(l) \/ GiveBack(l)
           \/ ResultTooLate(l) \/ AnswerQuestion(l)
           \/ \E review \in {"none", "pending"} : Collect(l, review)
           \/ \E v \in {"approved", "refused"} : DecideReview(l, v)
           \/ AfterReview(l)
    PROVE  StepOK
<1>1. StoreTypeOK /\ job \in [Leases -> Job] /\ JobKnows(l)
  BY InvParts
<1>2. job[l] \in Job
  BY <1>1
<1>3. CASE ReceiveResult(l)
  <2>1. leaseStatus[l] = "active" /\ job[l].landed # "handler"
    BY <1>1, <1>3 DEF ReceiveResult, JobKnows
  <2>2. QuietStore
    BY <1>3, QuietStutter DEF ReceiveResult
  <2>3. RemoteInv'
    BY <1>3, <2>1, <2>2, GoesKeeps DEF ReceiveResult, HandlerPhase
  <2>4. QED
    BY <2>2, <2>3 DEF StepOK, QuietStore
<1>4. CASE RejectResult(l)
  <2>1. QuietStore /\ leaseStatus[l] = "active"
    BY <1>1, <1>4, QuietFinish DEF RejectResult, LeaseStatus
  <2>2. QED
    BY <1>4, <2>1, GoesKeeps DEF RejectResult, StepOK, QuietStore, HandlerPhase
<1>5. CASE GiveBack(l)
  BY <1>1, <1>5, QuietFinish, GoesKeeps
  DEF GiveBack, StepOK, QuietStore, LeaseStatus, HandlerPhase
<1>6. CASE ResultTooLate(l)
  <2>1. QuietStore
    BY <1>1, <1>6, QuietFinish, QuietStutter DEF ResultTooLate, LeaseStatus
  <2>2. QED
    BY <1>6, <2>1, GoesKeeps DEF ResultTooLate, StepOK, QuietStore, HandlerPhase
<1>7. CASE AnswerQuestion(l)
  <2>1. QuietStore /\ leaseStatus'[l] = "completed" /\ HostTyped'
    BY <1>1, <1>7, QuietFinish, HostKept DEF AnswerQuestion, LeaseStatus
  <2> DEFINE j == [job[l] EXCEPT !.phase = "recorded", !.landed = "reported"]
  <2>2. job[l].phase = "checked" /\ job' = [job EXCEPT ![l] = j]
    BY <1>7 DEF AnswerQuestion
  <2>3. j \in Job /\ j.phase = "recorded" /\ j.landed = "reported"
    BY <1>2 DEF Job, HandlerPhase
  <2> HIDE DEF j
  <2>4. QED
    BY <2>1, <2>2, <2>3, QuietEnds, RewriteKeeps
<1>8. ASSUME NEW review \in {"none", "pending"}, Collect(l, review)
      PROVE  StepOK
  <2>1. QuietStore /\ leaseStatus' = leaseStatus /\ HostTyped'
    BY <1>8, QuietStutter, HostKept DEF Collect, storeVars
  <2> DEFINE j == [phase |-> "reviewing", run |-> "running", decided |-> FALSE,
                   review |-> review, landed |-> job[l].landed]
  <2>2. job[l].phase = "checked" /\ job' = [job EXCEPT ![l] = j]
    BY <1>8 DEF Collect
  <2>3. j \in Job /\ j.phase = "reviewing" /\ j.landed = job[l].landed
    BY <1>2 DEF Job, HandlerPhase
  <2>4. job[l].landed # "handler"
    BY <1>1, <2>2 DEF JobKnows
  <2> HIDE DEF j
  <2>5. QED
    BY <2>1, <2>2, <2>3, <2>4, QuietEnds, RewriteKeeps
<1>9. ASSUME NEW v \in {"approved", "refused"}, DecideReview(l, v)
      PROVE  StepOK
  <2>1. QuietStore /\ leaseStatus' = leaseStatus /\ HostTyped'
    BY <1>9, QuietStutter, HostKept DEF DecideReview, storeVars
  <2> DEFINE j == [job[l] EXCEPT !.review = v]
  <2>2. job[l].review = "pending" /\ job[l] # NoJob /\ job' = [job EXCEPT ![l] = j]
    BY <1>9 DEF DecideReview, NoJob
  <2>3. /\ j \in Job /\ j.phase = job[l].phase /\ j.landed = job[l].landed
    BY <1>2 DEF Job
  <2>4. /\ job[l].landed # "handler"
        /\ job[l].phase \notin {"approved", "settled"}
    BY <1>1, <2>2 DEF JobKnows
  <2> HIDE DEF j
  <2>5. QED
    BY <1>1, <2>1, <2>2, <2>3, <2>4, QuietEnds, RewriteKeeps DEF JobKnows
<1>10. CASE AfterReview(l)
  <2>1. job[l].review \in {"none", "approved", "refused"}
    BY <1>1, <1>10 DEF AfterReview, Job
  <2>2. QED
    BY <1>10, <2>1, QuietStutter, GoesKeeps
    DEF AfterReview, StepOK, QuietStore, HandlerPhase
<1>11. QED
  BY <1>3, <1>4, <1>5, <1>6, <1>7, <1>8, <1>9, <1>10

\* A result that was settled is integrated, and its outcome recorded.
LEMMA IntegrateSteps ==
    ASSUME RemoteInv, NEW l \in Leases,
           \/ Promote(l) \/ RecordLanding(l) \/ RecordEmpty(l) \/ RecordStale(l)
           \/ RecordLostBet(l) \/ RecordFailure(l) \/ CloseRun(l)
    PROVE  StepOK
<1>1. StoreTypeOK /\ job \in [Leases -> Job] /\ JobKnows(l) /\ job[l] \in Job
  BY InvParts
<1>2. UNCHANGED storeVars /\ UNCHANGED <<hostVars, history>>
  BY DEF Promote, RecordLanding, RecordEmpty, RecordStale, RecordLostBet,
     RecordFailure, CloseRun, Records
<1>3. /\ [StoreNext]_storeVars /\ EndsLanded
      /\ HostTyped'
      /\ leaseStatus' = leaseStatus
  BY <1>2, QuietStutter, QuietEnds, HostKept DEF storeVars
<1>4. CASE Promote(l)
  <2> DEFINE j == [job[l] EXCEPT !.phase = "landed", !.landed = "handler"]
  <2>1. job[l].phase = "settled" /\ job' = [job EXCEPT ![l] = j]
    BY <1>4 DEF Promote
  <2>2. /\ j \in Job /\ j.phase = "landed" /\ j.landed = "handler"
        /\ j.review = job[l].review
    BY <1>1 DEF Job, HandlerPhase
  <2> HIDE DEF j
  <2>3. QED
    BY <1>1, <1>3, <2>1, <2>2, RewriteKeeps DEF JobKnows
<1>5. CASE RecordEmpty(l)
  <2> DEFINE j == [job[l] EXCEPT !.phase = "recorded", !.decided = TRUE,
                                 !.landed = "reported"]
  <2>1. job[l].phase = "settled" /\ job' = [job EXCEPT ![l] = j]
    BY <1>5 DEF RecordEmpty
  <2>2. j \in Job /\ j.phase = "recorded" /\ j.landed = "reported"
    BY <1>1 DEF Job, HandlerPhase
  <2> HIDE DEF j
  <2>3. QED
    BY <1>1, <1>3, <2>1, <2>2, RewriteKeeps
<1>6. CASE CloseRun(l)
  <2>1. job[l].phase = "closing" /\ job' = [job EXCEPT ![l] = Closed(job[l])]
    BY <1>1, <1>6 DEF CloseRun
  <2>2. /\ Closed(job[l]) \in Job
        /\ Closed(job[l]).phase = "idle"
        /\ Closed(job[l]).landed = job[l].landed
        /\ job[l].landed # "no" => Closed(job[l]).review = job[l].review
    BY <1>1 DEF Closed, NoJob, Job, HandlerPhase
  <2>3. QED
    BY <1>1, <1>3, <2>1, <2>2, RewriteKeeps DEF JobKnows
<1>7. ASSUME NEW from \in {"settled", "landed"},
             NEW to \in {"recorded", "settled", "requeueing", "failing"},
             Records(l, from, to),
             to = "settled" => from = "settled",
             to = "recorded" => from = "landed"
      PROVE  StepOK
  <2> DEFINE j == [job[l] EXCEPT !.phase = to, !.decided = TRUE]
  <2>1. job[l].phase = from /\ job' = [job EXCEPT ![l] = j]
    BY <1>7 DEF Records
  <2>2. /\ j \in Job /\ j.phase = to /\ j.landed = job[l].landed
        /\ j.review = job[l].review
    BY <1>1 DEF Job, HandlerPhase
  <2> HIDE DEF j
  <2>3. QED
    BY <1>1, <1>3, <1>7, <2>1, <2>2, RewriteKeeps DEF JobKnows
<1>8. QED
  BY <1>4, <1>5, <1>6, <1>7
  DEF RecordLanding, RecordStale, RecordLostBet, RecordFailure

\* Marking a task as overruled keeps the host's shape.
LEMMA OverruleTyped ==
    ASSUME RemoteInv, NEW t \in Tasks, NEW movers, Overrule(t, movers),
           UNCHANGED hostVars
    PROVE  HostTyped'
  BY InvParts DEF HostTyped, hostVars, Overrule

\* The lease is settled, or found lost, before the result is integrated.
LEMMA SettleSteps ==
    ASSUME RemoteInv, NEW l \in Leases,
           AdvanceBlocks(l) \/ SettleLease(l) \/ SettleLost(l) \/ IntegrateThrows(l)
    PROVE  StepOK
<1>1. StoreTypeOK /\ JobKnows(l)
  BY InvParts
<1>2. CASE AdvanceBlocks(l)
  BY <1>2, QuietStutter, GoesKeeps
  DEF AdvanceBlocks, StepOK, QuietStore, HandlerPhase
<1>3. CASE SettleLease(l)
  <2>1. QuietStore /\ leaseStatus'[l] = "completed"
    BY <1>1, <1>3, QuietFinish DEF SettleLease, LeaseStatus
  <2>2. job[l].review \in {"none", "approved"}
    BY <1>1, <1>3 DEF SettleLease, Goes, JobKnows
  <2>3. QED
    BY <1>3, <2>1, <2>2, GoesKeeps DEF SettleLease, StepOK, QuietStore, HandlerPhase
<1>4. CASE SettleLost(l)
  <2>1. QuietStore
    BY <1>1, <1>4, QuietFinish, QuietStutter DEF SettleLost, LeaseStatus
  <2>2. QED
    BY <1>4, <2>1, GoesKeeps DEF SettleLost, StepOK, QuietStore, HandlerPhase
<1>5. CASE IntegrateThrows(l)
  BY <1>5, QuietStutter, GoesKeeps
  DEF IntegrateThrows, StepOK, QuietStore, HandlerPhase
<1>6. QED
  BY <1>2, <1>3, <1>4, <1>5

\* A throw after the branch moved, under a handler or in recovery.
LEMMA ThrowSteps ==
    ASSUME RemoteInv, NEW l \in Leases, LandingThrows(l) \/ ResumeThrows(l)
    PROVE  StepOK
<1>1. StoreTypeOK /\ HostTyped /\ job \in [Leases -> Job] /\ JobKnows(l)
  BY InvParts
<1>2. PICK to \in {"failing", "idle"} : job' = [job EXCEPT ![l].phase = to]
  BY DEF LandingThrows, ResumeThrows
<1>3. /\ UNCHANGED storeVars /\ job[l].phase # "idle" /\ HostTyped'
  BY <1>1 DEF LandingThrows, ResumeThrows, CutShort, HostTyped, hostVars, history
<1>4. [StoreNext]_storeVars /\ EndsLanded /\ leaseStatus' = leaseStatus
  BY <1>1, <1>3, QuietStutter, QuietEnds DEF storeVars
<1> DEFINE j == [job[l] EXCEPT !.phase = to]
<1>5. job' = [job EXCEPT ![l] = j]
  BY <1>1, <1>2
<1>6. /\ j \in Job /\ j.phase = to /\ j.landed = job[l].landed
      /\ j.review = job[l].review
  BY <1>1 DEF Job, HandlerPhase
<1> HIDE DEF j
<1>7. QED
  BY <1>1, <1>3, <1>4, <1>5, <1>6, RewriteKeeps DEF JobKnows

\* The row of a result that landed completes.
LEMMA CompleteStep ==
    ASSUME RemoteInv, NEW l \in Leases, CompleteTask(l)
    PROVE  StepOK
<1>1. /\ StoreTypeOK /\ JobKnows(l) /\ job[l] \in Job
      /\ job[l].phase = "recorded" /\ job[l].landed # "no"
      /\ leaseTask[l] \in Tasks
  BY InvParts, BusyLease DEF CompleteTask, JobKnows
<1>2. PICK to \in {"closing", "erring"} : Goes(l, "recorded", to)
  BY DEF CompleteTask
<1>3. CASE status[leaseTask[l]] = "claimed"
  <2>1. CompleteSubmittedTask(leaseTask[l], "integrated")
    BY <1>3 DEF CompleteTask
  <2>2. StoreNext
    BY <1>1, <2>1 DEF StoreNext, TaskStep, CompletionStatus
  <2>3. /\ status' = [status EXCEPT ![leaseTask[l]] = "integrated"]
        /\ leaseStatus' = leaseStatus
    BY <2>1 DEF CompleteSubmittedTask, MoveTask
  <2>4. EndsLanded
    BY <1>1, <2>3 DEF EndsLanded, StoreTypeOK
  <2> DEFINE j == [job[l] EXCEPT !.phase = to]
  <2>5. /\ job' = [job EXCEPT ![l] = j]
        /\ j \in Job /\ j.phase = to /\ j.landed = job[l].landed
        /\ j.review = job[l].review
    BY <1>1, <1>2 DEF Goes, Job, HandlerPhase
  <2>6. HostTyped'
    BY <1>2, HostKept DEF Goes
  <2> HIDE DEF j
  <2>7. QED
    BY <1>1, <2>2, <2>3, <2>4, <2>5, <2>6, RewriteKeeps DEF JobKnows
<1>4. CASE status[leaseTask[l]] # "claimed"
  <2>1. QuietStore
    BY <1>4, QuietStutter DEF CompleteTask
  <2>2. QED
    BY <1>2, <2>1, GoesKeeps DEF StepOK, QuietStore, HandlerPhase
<1>5. QED
  BY <1>3, <1>4

\* The endings of a handler that did not land its result.
LEMMA FailureSteps ==
    ASSUME RemoteInv, NEW l \in Leases, FailTask(l) \/ CatchError(l)
    PROVE  StepOK
<1>1. /\ StoreTypeOK /\ \A u \in Tasks : status[u] # "open"
      /\ job[l].phase \in {"failing", "erring"}
  BY InvParts DEF FailTask, CatchError, Goes
<1>2. leaseTask[l] \in Tasks
  BY <1>1, BusyLease
<1>3. QuietStore
  BY <1>1, <1>2, QuietFinish, QuietTasks, QuietStutter
  DEF FailTask, CatchError, LeaseStatus
<1>4. PICK from \in {"failing", "erring"}, to \in {"failing", "closing"} :
         Goes(l, from, to)
  BY DEF FailTask, CatchError
<1>5. QED
  BY <1>3, <1>4, GoesKeeps DEF StepOK, QuietStore, HandlerPhase

\* The task of a result that canonical overtook goes back to the queue.
LEMMA RequeueStep ==
    ASSUME RemoteInv, NEW l \in Leases, RequeueTask(l)
    PROVE  StepOK
<1>1. /\ StoreTypeOK /\ JobKnows(l) /\ job[l] \in Job
      /\ \A u \in Tasks : status[u] # "open"
      /\ job[l].phase = "requeueing" /\ leaseTask[l] \in Tasks
  BY InvParts, BusyLease DEF RequeueTask
<1>2. QuietStore
  BY <1>1, QuietFinish, QuietTasks, QuietStutter DEF RequeueTask, LeaseStatus
<1>3. HostTyped'
  BY <1>1, HostKept, OverruleTyped DEF RequeueTask
<1> DEFINE j == [job[l] EXCEPT !.phase = "closing"]
<1>4. /\ job' = [job EXCEPT ![l] = j]
      /\ j \in Job /\ j.phase = "closing" /\ j.landed = job[l].landed
      /\ j.review = job[l].review
  BY <1>1 DEF RequeueTask, Job, HandlerPhase
<1>5. leaseStatus[l] = "completed" => leaseStatus'[l] = "completed"
  BY <1>1, <1>2, LeaseKept DEF QuietStore
<1> HIDE DEF j
<1>6. QED
  BY <1>1, <1>2, <1>3, <1>4, <1>5, QuietEnds, RewriteKeeps DEF JobKnows

-----------------------------------------------------------------------------
\* People retry, pause, cancel and resume.
LEMMA PeopleSteps ==
    ASSUME RemoteInv,
           \/ \E t \in Tasks : \/ Retry(t) \/ Resume(t)
                              \/ \E to \in {"cancelled", "paused"} : StopRead(t, to)
           \/ StopWrite \/ StopRelease
    PROVE  StepOK
<1>1. /\ StoreTypeOK /\ HostTyped
      /\ \A u \in Tasks : status[u] # "open"
  BY InvParts
<1>2. UNCHANGED job
  BY DEF Retry, Resume, StopRead, StopWrite, StopRelease
<1>3. ASSUME NEW t \in Tasks, Retry(t)
      PROVE  StepOK
  BY <1>1, <1>2, <1>3, QuietTasks, OverruleTyped, CarryNone
  DEF Retry, StepOK, QuietStore
<1>4. ASSUME NEW t \in Tasks, Resume(t)
      PROVE  StepOK
  BY <1>1, <1>2, <1>4, QuietTasks, OverruleTyped, CarryNone
  DEF Resume, StepOK, QuietStore
<1>5. ASSUME NEW t \in Tasks, NEW to \in {"cancelled", "paused"}, StopRead(t, to)
      PROVE  StepOK
  <2>1. HostTyped'
    BY <1>1, <1>5 DEF StopRead, HostTyped, history, ActiveLeases
  <2>2. QED
    BY <1>2, <1>5, <2>1, QuietStutter, CarryNone DEF StopRead, StepOK, QuietStore
<1>6. CASE StopWrite
  <2>1. stop.task \in Tasks
    BY <1>1, <1>6 DEF StopWrite, HostTyped
  <2>2. QuietStore
    BY <1>1, <1>6, <2>1, QuietTasks, QuietStutter DEF StopWrite
  <2>3. stop' = [stop EXCEPT !.phase = "written"] \/ stop' = NoStop
    BY <1>6 DEF StopWrite
  <2>4. overruled' \subseteq Tasks /\ cut' = cut
    BY <1>1, <1>6, <2>1 DEF StopWrite, Overrule, history, HostTyped
  <2>5. HostTyped'
    BY <1>1, <1>6, <2>1, <2>3, <2>4 DEF StopWrite, HostTyped, NoStop
  <2>6. QED
    BY <1>2, <2>2, <2>5, CarryNone DEF StepOK, QuietStore
<1>7. CASE StopRelease
  <2>1. stop.holders \subseteq Leases
    BY <1>1 DEF HostTyped
  <2>2. QuietStore
    <3> DEFINE l == CHOOSE h \in stop.holders : TRUE
    <3>1. stop.holders # {} => l \in Leases
      BY <2>1
    <3>2. \/ stop.holders # {} /\ FinishWorkLease(l, "released")
          \/ UNCHANGED storeVars
      BY <1>7 DEF StopRelease
    <3> HIDE DEF l
    <3>3. QED
      BY <1>1, <3>1, <3>2, QuietFinish, QuietStutter DEF LeaseStatus
  <2>3. HostTyped'
    BY <1>1, <1>7 DEF StopRelease, HostTyped, NoStop, history
  <2>4. QED
    BY <1>2, <2>2, <2>3, CarryNone DEF StepOK, QuietStore
<1>8. QED
  BY <1>3, <1>4, <1>5, <1>6, <1>7

\* The serving process sweeps stranded claims.
LEMMA SweepSteps ==
    ASSUME RemoteInv, Sweep
    PROVE  StepOK
<1>1. /\ StoreTypeOK /\ HostTyped
      /\ \A u \in Tasks : status[u] # "open"
  BY InvParts
<1>2. UNCHANGED job
  BY DEF Sweep, ReapList, ReapLeased, ReapDone, ReapRetry
<1>3. CASE ReapList
  <2>1. HostTyped'
    BY <1>1, <1>3 DEF ReapList, HostTyped, history, StaleClaims
  <2>2. QED
    BY <1>2, <1>3, <2>1, QuietStutter, CarryNone DEF ReapList, StepOK, QuietStore
<1>4. CASE ReapLeased
  <2>1. HostTyped'
    BY <1>1, <1>4 DEF ReapLeased, HostTyped, history
  <2>2. QED
    BY <1>2, <1>4, <2>1, QuietStutter, CarryNone DEF ReapLeased, StepOK, QuietStore
<1>5. CASE ReapDone
  <2>1. HostTyped'
    BY <1>1, <1>5 DEF ReapDone, HostTyped, history, Idle
  <2>2. QED
    BY <1>2, <1>5, <2>1, QuietStutter, CarryNone DEF ReapDone, StepOK, QuietStore
<1>6. ASSUME NEW t \in Tasks, ReapRetry(t)
      PROVE  StepOK
  <2>1. QuietStore
    BY <1>1, <1>6, QuietTasks, QuietStutter DEF ReapRetry
  <2>2. overruled' \subseteq Tasks /\ cut' = cut
    BY <1>1, <1>6 DEF ReapRetry, Overrule, history, HostTyped
  <2>3. reap' \in [phase : {"idle", "listed", "reaping"}, todo : SUBSET Tasks]
    BY <1>1, <1>6 DEF ReapRetry, HostTyped
  <2>4. HostTyped'
    BY <1>1, <1>6, <2>2, <2>3 DEF ReapRetry, HostTyped
  <2>5. QED
    BY <1>2, <2>1, <2>4, CarryNone DEF StepOK, QuietStore
<1>7. QED
  BY <1>3, <1>4, <1>5, <1>6 DEF Sweep

-----------------------------------------------------------------------------
\* A crash forgets where each handler stood, and no more.
LEMMA CrashStep ==
    ASSUME RemoteInv, Crash
    PROVE  StepOK
<1>1. /\ StoreTypeOK /\ HostTyped /\ job \in [Leases -> Job]
      /\ \A l \in Leases : JobKnows(l)
  BY InvParts
<1>2. QuietStore /\ leaseStatus' = leaseStatus
  BY QuietStutter DEF Crash, storeVars
<1>3. job' \in [Leases -> Job]
  BY <1>1 DEF Crash, Job, HandlerPhase
<1>4. HostTyped'
  BY <1>1, RemoteAssumption DEF Crash, HostTyped, BootStage, Idle, NoStop
<1>5. ASSUME NEW l \in Leases
      PROVE  \/ job'[l] = job[l]
             \/ /\ leaseStatus'[l] # "none" /\ JobKnows(l)'
                /\ job[l].landed # "no" => job'[l].landed # "no"
  <2>1. /\ job'[l].phase = "idle" /\ job'[l].landed = job[l].landed
        /\ job'[l].review = job[l].review
        /\ job[l].phase = "idle" => job'[l] = job[l]
    BY <1>1 DEF Crash, Job
  <2>2. CASE leaseStatus[l] = "none"
    BY <1>1, <2>1, <2>2 DEF JobKnows, NoJob
  <2>3. CASE leaseStatus[l] # "none"
    BY <1>1, <1>2, <2>1, <2>3 DEF JobKnows
  <2>4. QED
    BY <2>2, <2>3
<1>6. QED
  BY <1>2, <1>3, <1>4, <1>5, QuietEnds, Carry DEF StepOK

\* A finished boot closes the runs that died with the last process.
LEMMA BootDoneStep ==
    ASSUME RemoteInv, BootDone
    PROVE  StepOK
<1>1. /\ StoreTypeOK /\ HostTyped /\ job \in [Leases -> Job]
      /\ \A l \in Leases : JobKnows(l)
  BY InvParts
<1>2. QuietStore /\ leaseStatus' = leaseStatus
  BY QuietStutter DEF BootDone, storeVars
<1>3. job' \in [Leases -> Job]
  BY <1>1 DEF BootDone, Closed, NoJob, Job, HandlerPhase
<1>4. HostTyped'
  BY <1>1 DEF BootDone, HostTyped, BootStage, history
<1>5. ASSUME NEW l \in Leases
      PROVE  \/ job'[l] = job[l]
             \/ /\ leaseStatus'[l] # "none" /\ JobKnows(l)'
                /\ job[l].landed # "no" => job'[l].landed # "no"
  <2>1. CASE leaseStatus[l] = "none"
    <3>1. job[l] = NoJob /\ job'[l] = Closed(job[l])
      BY <1>1, <2>1 DEF BootDone, JobKnows
    <3>2. Closed(NoJob) = NoJob
      BY DEF Closed, NoJob
    <3>3. QED
      BY <3>1, <3>2
  <2>2. CASE leaseStatus[l] # "none"
    <3>1. job'[l] = Closed(job[l]) /\ job[l] \in Job
      BY <1>1 DEF BootDone
    <3>2. /\ job'[l].phase = "idle" /\ job'[l].landed = job[l].landed
          /\ job[l].landed # "no" => job'[l].review = job[l].review
      BY <3>1 DEF Closed, NoJob, Job
    <3>3. QED
      BY <1>1, <1>2, <2>2, <3>2 DEF JobKnows
  <2>3. QED
    BY <2>1, <2>2
<1>6. QED
  BY <1>2, <1>3, <1>4, <1>5, QuietEnds, Carry DEF StepOK

\* The stages of a boot.
LEMMA BootSteps ==
    ASSUME RemoteInv,
           BootExpired \/ BootResumed \/ \E t \in Tasks : BootReap(t)
    PROVE  StepOK
<1>1. /\ StoreTypeOK /\ HostTyped
      /\ \A u \in Tasks : status[u] # "open"
  BY InvParts
<1>2. QuietStore
  BY <1>1, QuietTasks, QuietStutter DEF BootExpired, BootResumed, BootReap
<1>3. HostTyped'
  BY <1>1 DEF BootExpired, BootResumed, BootReap, HostTyped, BootStage,
     hostVars, history
<1>4. UNCHANGED job
  BY DEF BootExpired, BootResumed, BootReap
<1>5. QED
  BY <1>2, <1>3, <1>4, CarryNone DEF StepOK, QuietStore

\* Recovery integrates what a dead process left, and records the outcome.
LEMMA ResumeRunSteps ==
    ASSUME RemoteInv, NEW l \in Leases,
           ResumePromote(l) \/ ResumeFails(l) \/ ResumeRecord(l)
    PROVE  StepOK
<1>1. StoreTypeOK /\ job \in [Leases -> Job] /\ JobKnows(l) /\ job[l] \in Job
  BY InvParts
<1>2. UNCHANGED storeVars /\ UNCHANGED <<hostVars, history>>
  BY DEF ResumePromote, ResumeFails, ResumeRecord
<1>3. /\ [StoreNext]_storeVars /\ EndsLanded
      /\ HostTyped'
      /\ leaseStatus' = leaseStatus
  BY <1>2, QuietStutter, QuietEnds, HostKept DEF storeVars
<1>4. CASE ResumePromote(l)
  <2> DEFINE j == [job[l] EXCEPT !.phase = "landed", !.landed = "recovery"]
  <2>1. job[l] # NoJob /\ job' = [job EXCEPT ![l] = j]
    BY <1>4 DEF ResumePromote, Resumable, NoJob
  <2>2. j \in Job /\ j.phase = "landed" /\ j.landed = "recovery"
    BY <1>1 DEF Job, HandlerPhase
  <2> HIDE DEF j
  <2>3. QED
    BY <1>1, <1>3, <2>1, <2>2, RewriteKeeps
<1>5. CASE ResumeFails(l)
  <2> DEFINE j == [job[l] EXCEPT !.decided = TRUE]
  <2>1. job[l] # NoJob /\ job[l].phase = "idle" /\ job' = [job EXCEPT ![l] = j]
    BY <1>1, <1>5 DEF ResumeFails, Resumable, NoJob
  <2>2. /\ j \in Job /\ j.phase = "idle" /\ j.landed = job[l].landed
        /\ j.review = job[l].review
    BY <1>1, <2>1 DEF Job
  <2> HIDE DEF j
  <2>3. QED
    BY <1>1, <1>3, <2>1, <2>2, RewriteKeeps DEF JobKnows
<1>6. CASE ResumeRecord(l)
  <2> DEFINE j == [job[l] EXCEPT !.phase = "resumed", !.decided = TRUE]
  <2>1. job[l].phase = "landed" /\ job' = [job EXCEPT ![l] = j]
    BY <1>6 DEF ResumeRecord
  <2>2. /\ j \in Job /\ j.phase = "resumed" /\ j.landed = job[l].landed
        /\ j.review = job[l].review
    BY <1>1 DEF Job, HandlerPhase
  <2> HIDE DEF j
  <2>3. QED
    BY <1>1, <1>3, <2>1, <2>2, RewriteKeeps DEF JobKnows
<1>7. QED
  BY <1>4, <1>5, <1>6

\* ... and finishes the row of what it promoted.
LEMMA ResumeRowSteps ==
    ASSUME RemoteInv, NEW l \in Leases,
           ResumeFinish(l) \/ ResumeReclaimed(l) \/ ResumeHandBack(l)
    PROVE  StepOK
<1>1. /\ StoreTypeOK /\ HostTyped /\ job \in [Leases -> Job]
      /\ JobKnows(l) /\ job[l] \in Job
      /\ \A u \in Tasks : status[u] # "open"
      /\ job[l].phase \in {"resumed", "reclaiming", "handingBack"}
      /\ job[l].landed # "no"
      /\ leaseTask[l] \in Tasks
  BY InvParts, BusyLease
  DEF ResumeFinish, ResumeReclaimed, ResumeHandBack, JobKnows
<1>2. QuietStore \/ CompleteSubmittedTask(leaseTask[l], "integrated")
  BY <1>1, QuietTasks, QuietStutter
  DEF ResumeFinish, ResumeReclaimed, ResumeHandBack, HostTyped
<1>3. [StoreNext]_storeVars /\ EndsLanded
  <2>1. CASE QuietStore
    BY <2>1, QuietEnds
  <2>2. CASE CompleteSubmittedTask(leaseTask[l], "integrated")
    <3>1. StoreNext
      BY <1>1, <2>2 DEF StoreNext, TaskStep, CompletionStatus
    <3>2. EndsLanded
      BY <1>1, <2>2 DEF CompleteSubmittedTask, MoveTask, EndsLanded, StoreTypeOK
    <3>3. QED
      BY <3>1, <3>2
  <2>3. QED
    BY <1>2, <2>1, <2>2
<1>4. leaseStatus[l] = "completed" => leaseStatus'[l] = "completed"
  BY <1>1, <1>3, LeaseKept
<1>5. reap' \in [phase : {"idle", "listed", "reaping"}, todo : SUBSET Tasks]
  <2>1. Claimable(Repository[leaseTask[l]]) \subseteq Tasks
    BY DEF Claimable
  <2>2. reap \in [phase : {"idle", "listed", "reaping"}, todo : SUBSET Tasks]
    BY <1>1 DEF HostTyped
  <2>3. Idle \in [phase : {"idle", "listed", "reaping"}, todo : SUBSET Tasks]
    BY DEF Idle
  <2>4. QED
    BY <2>1, <2>2, <2>3 DEF ResumeFinish, ResumeReclaimed, ResumeHandBack
<1>6. HostTyped'
  <2>1. overruled' \subseteq Tasks /\ cut' \subseteq Leases
    BY <1>1 DEF ResumeFinish, ResumeReclaimed, ResumeHandBack, HostTyped, CutShort,
       history
  <2>2. QED
    BY <1>1, <1>5, <2>1 DEF ResumeFinish, ResumeReclaimed, ResumeHandBack, HostTyped
<1>7. CASE UNCHANGED job
  BY <1>3, <1>6, <1>7, InvParts, Carry DEF StepOK
<1>8. ASSUME NEW to \in {"idle", "reclaiming", "handingBack"},
             job' = [job EXCEPT ![l].phase = to]
      PROVE  StepOK
  <2> DEFINE j == [job[l] EXCEPT !.phase = to]
  <2>1. /\ job' = [job EXCEPT ![l] = j]
        /\ j \in Job /\ j.phase = to /\ j.landed = job[l].landed
        /\ j.review = job[l].review
    BY <1>1, <1>8 DEF Job, HandlerPhase
  <2> HIDE DEF j
  <2>2. QED
    BY <1>1, <1>3, <1>4, <1>6, <2>1, RewriteKeeps DEF JobKnows
<1>9. QED
  BY <1>7, <1>8 DEF ResumeFinish, ResumeReclaimed, ResumeHandBack

-----------------------------------------------------------------------------
(* The theorems *)

\* Nothing has happened yet: the invariant holds.
LEMMA RemoteStarts == RemoteInit => RemoteInv
<1> SUFFICES ASSUME RemoteInit PROVE RemoteInv
  OBVIOUS
<1>1. StoreTypeOK /\ \A t \in Tasks : status[t] = "absent"
  BY StoreAssumption
  DEF RemoteInit, StoreInit, StoreTypeOK, TaskStatus, LeaseStatus
<1>2. job \in [Leases -> Job] /\ \A l \in Leases : job[l] = NoJob
  BY DEF RemoteInit, NoJob, Job, HandlerPhase
<1>3. HostTyped
  BY RemoteAssumption DEF RemoteInit, HostTyped, BootStage, Idle, NoStop
<1>4. \A l \in Leases : JobKnows(l)
  BY <1>2 DEF JobKnows, NoJob
<1>5. QED
  BY <1>1, <1>2, <1>3, <1>4, InvParts DEF IntegratedMeansLanded

\* Every step keeps the invariant and is a step of the store.
LEMMA RemoteSteps ==
    ASSUME RemoteInv, [RemoteNext]_remoteVars
    PROVE  StepOK
<1>1. ASSUME NEW l \in Leases, Handle(l)
      PROVE  StepOK
  BY <1>1, EntrySteps, SettleSteps, IntegrateSteps, CompleteStep, FailureSteps,
     RequeueStep, ThrowSteps
  DEF Handle
<1>2. CASE Sweep
  BY <1>2, SweepSteps
<1>3. CASE Recover
  BY <1>3, BootSteps, BootDoneStep, ResumeRunSteps, ResumeRowSteps, ThrowSteps
  DEF Recover
<1>4. CASE Crash
  BY <1>4, CrashStep
<1>5. CASE \/ \E l \in Leases : \/ \E F \in Filters : Poll(l, F)
                               \/ Heartbeat(l) \/ WorkerRelease(l) \/ ExpireLease(l)
           \/ \E F \in Filters : PollEmpty(F)
           \/ \E t \in Tasks : Submit(t)
           \/ Time
  BY <1>5, WorkerSteps
<1>6. CASE \/ \E t \in Tasks : \/ Retry(t) \/ Resume(t)
                              \/ \E to \in {"cancelled", "paused"} : StopRead(t, to)
           \/ StopWrite \/ StopRelease
  BY <1>6, PeopleSteps
<1>7. ASSUME NEW l \in Leases,
             \/ ReceiveResult(l)
             \/ \E v \in {"approved", "refused"} : DecideReview(l, v)
      PROVE  StepOK
  BY <1>7, EntrySteps
<1>8. CASE UNCHANGED remoteVars
  <2>1. QuietStore /\ UNCHANGED job /\ HostTyped'
    BY <1>8, QuietStutter, HostKept DEF remoteVars
  <2>2. QED
    BY <2>1, CarryNone DEF StepOK, QuietStore
<1>9. QED
  BY <1>1, <1>2, <1>3, <1>4, <1>5, <1>6, <1>7, <1>8 DEF RemoteNext

\* What every reachable state satisfies: the shape, what each handler knows of
\* its lease and its review, and what is said of rows that ended.
THEOREM RemoteInvariant == RemoteSpec => []RemoteInv
<1>1. RemoteInv /\ [RemoteNext]_remoteVars => RemoteInv'
  BY RemoteSteps DEF StepOK
<1>2. QED
  BY RemoteStarts, <1>1, PTL DEF RemoteSpec

\* The tables, the handlers, the sweeps and recovery keep their shape.
THEOREM RemoteTypeCorrect == RemoteSpec => []RemoteTypeOK
<1>1. RemoteInv => RemoteTypeOK
  BY DEF RemoteInv
<1>2. QED
  BY RemoteInvariant, <1>1, PTL

\* acceptWorkResult integrates a changeset only past its review.
THEOREM HandlersAwaitReviewHolds == RemoteSpec => []HandlersAwaitReview
<1>1. RemoteInv => HandlersAwaitReview
  BY DEF RemoteInv
<1>2. QED
  BY RemoteInvariant, <1>1, PTL

\* A row says integrated only when a handler or recovery landed something for
\* it, or its worker reported an answer or no change.
THEOREM IntegratedMeansLandedHolds == RemoteSpec => []IntegratedMeansLanded
<1>1. RemoteInv => IntegratedMeansLanded
  BY DEF RemoteInv
<1>2. QED
  BY RemoteInvariant, <1>1, PTL

\* Handlers, people, sweeps and recovery change the tables by the store's
\* methods only: whatever holds of every caller of the store holds of them.
THEOREM RemoteImplementsStore == RemoteSpec => StoreSpec
<1>1. RemoteInit => StoreInit
  BY DEF RemoteInit
<1>2. RemoteInv /\ [RemoteNext]_remoteVars => [StoreNext]_storeVars
  BY RemoteSteps DEF StepOK
<1>3. QED
  BY RemoteInvariant, <1>1, <1>2, PTL DEF RemoteSpec, StoreSpec

\* So no two workers hold one task, whatever crashes, lapses or is retried.
THEOREM RemoteOneActiveLease == RemoteSpec => []OneActiveLeasePerTask
  BY RemoteImplementsStore, OneActiveLeaseHolds, PTL
=============================================================================
