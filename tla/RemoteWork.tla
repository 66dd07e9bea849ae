---------------------------- MODULE RemoteWork ----------------------------
(***************************************************************************)
(* The life of a task on a remote worker, from the poll that leases it to  *)
(* the row that says how it ended: the worker routes, acceptWorkResult,    *)
(* the people who retry, pause and cancel, the sweeps that expire leases   *)
(* and requeue stranded claims, and what a restart recovers.               *)
(*                                                                         *)
(* The tables are those of WorkStore, and an action that touches them is   *)
(* one of its store methods: what lies between two awaited calls of a      *)
(* handler is another step, so everything may happen there.  A handler is  *)
(* keyed by its lease (`processing` runs at most one per lease).           *)
(*                                                                         *)
(* Abstractions.  A plan check, a merge or a validation ends in any way    *)
(* the code has a branch for.  failClaimedTask's read and write, and the   *)
(* bookkeeping of a run that follows a task's ending, are one step each.   *)
(***************************************************************************)
EXTENDS WorkStore

CONSTANTS
    Faults,         \* which of "crash", "reap", "operator" may happen
    MaxBeats,       \* bound: heartbeats of all workers together
    MaxCrashes      \* bound: restarts of the control plane

ASSUME RemoteAssumption ==
    /\ Faults \subseteq {"crash", "reap", "operator"}
    /\ MaxBeats \in Nat
    /\ MaxCrashes \in Nat

VARIABLES
    job,            \* per lease: the result handler and the run it records
    boot,           \* the control plane: serving, or a stage of recovery
    reap,           \* the stranded-work sweep of the serving process
    stop,           \* a cancel or pause under way
    beats,          \* heartbeats so far
    crashes,        \* restarts so far
    overruled,      \* history: tasks moved under a run that held them
    cut             \* history: leases whose work landed and whose run ended,
                    \* by a crash or a throw, before the row could say so

hostVars == <<boot, reap, stop, beats, crashes>>
history  == <<overruled, cut>>
remoteVars == <<storeVars, job, hostVars, history>>

\* Where acceptWorkResult, or recovery for that lease, stands.
HandlerPhase ==
    {"idle", "checked", "reviewing", "approved", "settled", "landed",
     "recorded", "failing", "requeueing", "erring", "closing",
     "resumed", "reclaiming", "handingBack"}

Job == [phase   : HandlerPhase,
        run     : {"none", "running", "over"},     \* runs.status
        decided : BOOLEAN,                         \* an integration row exists
        review  : {"none", "pending", "approved", "refused"},
        landed  : {"no", "handler", "recovery", "reported"}]

NoJob == [phase |-> "idle", run |-> "none", decided |-> FALSE,
          review |-> "none", landed |-> "no"]

BootStage == {"serving", "expiring", "resuming", "reaping"}

Idle == [phase |-> "idle", todo |-> {}]
NoStop == [phase |-> "idle", task |-> NoTask, to |-> "none", holders |-> {}]

-----------------------------------------------------------------------------
(* Who is doing what *)

Serving == boot = "serving"

\* A settled result that its handler is carrying into canonical.
Integrating(l) == Serving /\ job[l].phase \in {"settled", "landed", "recorded"}

\* Somebody is entitled to end l's task: its worker, or its result's handler.
Working(l) == leaseStatus[l] = "active" \/ Integrating(l)

Holders(t) == {l \in Leases : leaseTask[l] = t /\ Working(l)}

InCanonical(l) == job[l].landed \in {"handler", "recovery"}

\* Somebody may still write the row of l's task, to end it or to give it back.
Engaged(l) ==
    Working(l) \/ job[l].phase \in {"failing", "requeueing", "erring"}

\* A step that moves t's row marks it when somebody was engaged on it, other
\* than those whose step it is.
Overrule(t, movers) ==
    /\ overruled' = IF \E l \in Leases \ movers : leaseTask[l] = t /\ Engaged(l)
                    THEN overruled \cup {t} ELSE overruled
    /\ UNCHANGED cut

\* l's work is in canonical, and its row does not come to say so.
CutShort(l) ==
    /\ cut' = cut \cup {l}
    /\ UNCHANGED overruled

\* A run that is over is read again only for what it landed.
Closed(j) ==
    IF j.landed = "no" THEN NoJob
    ELSE [j EXCEPT !.phase = "idle", !.run = "over", !.decided = FALSE]

\* The handler of l goes from one phase to another; nothing else of it moves.
Goes(l, from, to) ==
    /\ Serving
    /\ job[l].phase = from
    /\ job' = [job EXCEPT ![l].phase = to]
    /\ UNCHANGED <<hostVars, history>>

-----------------------------------------------------------------------------
(* Workers and the clock *)

Poll(l, F) ==
    /\ Serving
    /\ LeaseNextTask(l, F)
    /\ UNCHANGED <<job, hostVars, history>>

PollEmpty(F) ==
    /\ Serving
    /\ LeaseNothing(F)
    /\ UNCHANGED <<job, hostVars, history>>

Heartbeat(l) ==
    /\ Serving
    /\ beats < MaxBeats
    /\ HeartbeatWorkLease(l)
    /\ beats' = beats + 1
    /\ UNCHANGED <<job, boot, reap, stop, crashes, history>>

\* A worker hands its lease back.
WorkerRelease(l) ==
    /\ Serving
    /\ FinishWorkLease(l, "released")
    /\ UNCHANGED <<job, hostVars, history>>

\* expireWorkLeases, from the periodic sweep, a result or recovery.
ExpireLease(l) ==
    /\ boot \in {"serving", "expiring"}
    /\ FinishWorkLease(l, "expired")
    /\ UNCHANGED <<job, hostVars, history>>

Time == Tick /\ UNCHANGED <<job, hostVars, history>>

Submit(t) ==
    /\ Serving
    /\ SubmitTask(t, "submitted")
    /\ UNCHANGED <<job, hostVars, history>>

-----------------------------------------------------------------------------
(* acceptWorkResult, up to the run *)

\* A result on an active, unlapsed lease whose task is still claimed.
ReceiveResult(l) ==
    /\ leaseStatus[l] = "active"
    /\ ~Lapsed(l)
    /\ status[leaseTask[l]] = "claimed"
    /\ Goes(l, "idle", "checked")
    /\ UNCHANGED storeVars

\* A result whose task is no longer claimed; a reported failure, a spent
\* hand-off budget; a result that breaks the admitted plan: the lease fails,
\* then the task if it is claimed.
RejectResult(l) ==
    /\ FinishWorkLease(l, "failed")
    /\ \/ job[l].phase = "idle" /\ status[leaseTask[l]] # "claimed"
       \/ job[l].phase = "checked"
    /\ Goes(l, job[l].phase, "failing")

\* A context hand-off, a partial result with nothing granted in it, or a
\* canonical that moved into what the result depends on: the lease is
\* released and the task replans.
GiveBack(l) ==
    /\ FinishWorkLease(l, "released")
    /\ Goes(l, "checked", "idle")

\* Whatever the result was to end as, its lease is gone or lapsed.
ResultTooLate(l) ==
    /\ leaseStatus[l] # "active" \/ Lapsed(l)
    /\ Goes(l, "checked", "idle")
    /\ IF leaseStatus[l] = "active"
       THEN FinishWorkLease(l, "expired") ELSE UNCHANGED storeVars

\* The answer to a question settles its lease and has no run.
AnswerQuestion(l) ==
    /\ leaseTask[l] \in Questions
    /\ FinishWorkLease(l, "completed")
    /\ Serving
    /\ job[l].phase = "checked"
    /\ job' = [job EXCEPT ![l] = [@ EXCEPT !.phase = "recorded", !.landed = "reported"]]
    /\ UNCHANGED <<hostVars, history>>

\* createRun and saveChangeSet; the policy may ask for a review.
Collect(l, review) ==
    /\ leaseTask[l] \notin Questions
    /\ Serving
    /\ job[l].phase = "checked"
    /\ job' = [job EXCEPT ![l] =
                 [phase |-> "reviewing", run |-> "running", decided |-> FALSE,
                  review |-> review, landed |-> job[l].landed]]
    /\ UNCHANGED <<storeVars, hostVars, history>>

\* A person decides the request, or its time runs out.  (Nobody reads the
\* decision once the run is over.)
DecideReview(l, verdict) ==
    /\ job[l].run = "running"
    /\ job[l].review = "pending"
    /\ job' = [job EXCEPT ![l].review = verdict]
    /\ UNCHANGED <<storeVars, hostVars, history>>

\* Fault: the handler goes on once the request is no longer pending.
AfterAnyReview(l) ==
    /\ job[l].review # "pending"
    /\ Goes(l, "reviewing", "approved")
    /\ UNCHANGED storeVars

\* A review that was not granted throws.
AfterReview(l) ==
    /\ job[l].review # "pending"
    /\ Goes(l, "reviewing",
            IF job[l].review = "refused" THEN "erring" ELSE "approved")
    /\ UNCHANGED storeVars

\* Canonical moved during the review into what the result depends on.
AdvanceBlocks(l) ==
    /\ Goes(l, "approved", "requeueing")
    /\ UNCHANGED storeVars

\* Fault: the answer of finishWorkLease is not looked at.
SettleLeaseUnchecked(l) ==
    /\ Goes(l, "approved", "settled")
    /\ IF MayFinish(l, "completed")
       THEN FinishWorkLease(l, "completed") ELSE UNCHANGED storeVars

\* The lease completes BEFORE the result is integrated.
SettleLease(l) ==
    /\ FinishWorkLease(l, "completed")
    /\ Goes(l, "approved", "settled")

\* "Lease was lost before integration".
SettleLost(l) ==
    /\ ~MayFinish(l, "completed")
    /\ Goes(l, "approved", "erring")
    /\ IF MayFinish(l, "expired")
       THEN FinishWorkLease(l, "expired") ELSE UNCHANGED storeVars

-----------------------------------------------------------------------------
(* acceptWorkResult, integrating *)

\* IntegrationService.integrate moves the branch: canonical holds the result,
\* and nobody has been told yet.
Promote(l) ==
    /\ Serving
    /\ job[l].phase = "settled"
    /\ job' = [job EXCEPT ![l] = [@ EXCEPT !.phase = "landed", !.landed = "handler"]]
    /\ UNCHANGED <<storeVars, hostVars, history>>

\* integrate returns; saveIntegration, and where its outcome leads.
Records(l, from, to) ==
    /\ Serving
    /\ job[l].phase = from
    /\ job' = [job EXCEPT ![l] = [@ EXCEPT !.phase = to, !.decided = TRUE]]
    /\ UNCHANGED <<storeVars, hostVars, history>>

RecordLanding(l) == Records(l, "landed", "recorded")

\* status "empty": a run that changed nothing is a success too.
RecordEmpty(l) ==
    /\ Serving
    /\ job[l].phase = "settled"
    /\ job' = [job EXCEPT ![l] = [@ EXCEPT !.phase = "recorded",
                                           !.decided = TRUE,
                                           !.landed = "reported"]]
    /\ UNCHANGED <<storeVars, hostVars, history>>

\* status "stale": graded once more against the advance that won, so a record
\* already there spends the budget (STALE_REASSESSMENT_BUDGET = 1).
RecordStale(l) ==
    \/ ~job[l].decided /\ Records(l, "settled", "settled")
    \/ Records(l, "settled", "requeueing")

\* A merge or a validation failed that was a bet on canonical's advance.
RecordLostBet(l) == Records(l, "settled", "requeueing")

\* Conflict, validation or policy: the result itself is at fault.
RecordFailure(l) == Records(l, "settled", "failing")

\* git, the sandbox or the disk threw before the branch moved.
IntegrateThrows(l) ==
    /\ Goes(l, "settled", "erring")
    /\ UNCHANGED storeVars

\* integrate threw after the branch moved, on reading canonical back; or one of
\* the writes between that and completeSubmittedTask threw.  The lease has
\* completed, so the catch goes on to fail the task.
LandingThrows(l) ==
    /\ Serving
    /\ job[l].phase \in {"landed", "recorded"}
    /\ job[l].run = "running"
    /\ job' = [job EXCEPT ![l].phase = "failing"]
    /\ IF InCanonical(l) THEN CutShort(l) ELSE UNCHANGED history
    /\ UNCHANGED <<storeVars, hostVars>>

\* Fault: the row is completed whatever its status.
CompleteTaskAnyway(l) ==
    /\ Goes(l, "recorded", "closing")
    /\ status' = [status EXCEPT ![leaseTask[l]] = "integrated"]
    /\ UNCHANGED <<claimedFor, leaseStatus, leaseTask, leaseLeft>>

\* completeSubmittedTask(task, "integrated") throws unless the row is claimed
\* (by whoever it is claimed by now); the answer to a question has no catch.
CompleteTask(l) ==
    LET t == leaseTask[l] IN
    /\ job[l].phase = "recorded"
    /\ Goes(l, "recorded",
            IF status[t] = "claimed" \/ job[l].run = "none"
            THEN "closing" ELSE "erring")
    /\ IF status[t] = "claimed"
       THEN CompleteSubmittedTask(t, "integrated") ELSE UNCHANGED storeVars

\* failClaimedTask: the row fails if it is claimed.
FailTask(l) ==
    /\ Goes(l, "failing", "closing")
    /\ IF status[leaseTask[l]] = "claimed"
       THEN CompleteSubmittedTask(leaseTask[l], "failed")
       ELSE UNCHANGED storeVars

\* requeueForCanonicalChange with a run: an active lease is released (or has
\* lapsed); otherwise the row is retried if it is claimed - by anyone.
RequeueTask(l) ==
    LET t == leaseTask[l]
        late == leaseStatus[l] # "active" /\ status[t] = "claimed"
    IN  /\ Serving
        /\ job[l].phase = "requeueing"
        /\ job' = [job EXCEPT ![l].phase = "closing"]
        /\ UNCHANGED hostVars
        /\ \/ FinishWorkLease(l, "released")
           \/ FinishWorkLease(l, "expired")
           \/ late /\ RetrySubmittedTask(t)
           \/ leaseStatus[l] # "active" /\ ~late /\ UNCHANGED storeVars
        /\ IF late THEN Overrule(t, {l}) ELSE UNCHANGED history

\* Fault: the catch fails the task whatever became of the lease.
CatchErrorBlind(l) ==
    /\ Goes(l, "erring", "failing")
    /\ IF MayFinish(l, "failed")
       THEN FinishWorkLease(l, "failed") ELSE UNCHANGED storeVars

\* The catch: only a lease that completed, or that fails here, takes its task
\* down with it.
CatchError(l) ==
    \/ /\ FinishWorkLease(l, "failed")
       /\ Goes(l, "erring", "failing")
    \/ /\ FinishWorkLease(l, "expired")
       /\ Goes(l, "erring", "closing")
    \/ /\ leaseStatus[l] # "active"
       /\ Goes(l, "erring",
               IF leaseStatus[l] = "completed" THEN "failing" ELSE "closing")
       /\ UNCHANGED storeVars

\* finishRun, and the handler returns.
CloseRun(l) ==
    /\ Serving
    /\ job[l].phase = "closing"
    /\ job' = [job EXCEPT ![l] = Closed(@)]
    /\ UNCHANGED <<storeVars, hostVars, history>>

\* The handler of l runs on.
Handle(l) ==
    \/ ResultTooLate(l) \/ RejectResult(l) \/ GiveBack(l)
    \/ AnswerQuestion(l)
    \/ \E review \in {"none", "pending"} : Collect(l, review)
    \/ AfterReview(l) \/ AdvanceBlocks(l) \/ SettleLease(l) \/ SettleLost(l)
    \/ Promote(l) \/ RecordLanding(l) \/ RecordEmpty(l) \/ RecordStale(l)
    \/ RecordLostBet(l) \/ RecordFailure(l)
    \/ IntegrateThrows(l) \/ LandingThrows(l)
    \/ CompleteTask(l) \/ FailTask(l) \/ RequeueTask(l) \/ CatchError(l)
    \/ CloseRun(l)

-----------------------------------------------------------------------------
(* People *)

\* The retry command and route: a failed task, or one that is claimed.
Retry(t) ==
    /\ Serving
    /\ "operator" \in Faults
    /\ RetrySubmittedTask(t)
    /\ Overrule(t, {})
    /\ UNCHANGED <<job, hostVars>>

\* cancelTasks / pauseTasks, the reads: the row, and the active leases when it
\* is claimed.
StopRead(t, to) ==
    /\ Serving
    /\ "operator" \in Faults
    /\ stop.phase = "idle"
    /\ t \notin Questions
    /\ status[t] \in {"submitted", "claimed"} \cup
                     (IF to = "cancelled" THEN {"paused"} ELSE {})
    /\ stop' = [phase |-> "read", task |-> t, to |-> to,
                holders |-> IF status[t] # "claimed" THEN {}
                            ELSE {l \in ActiveLeases : leaseTask[l] = t}]
    /\ UNCHANGED <<storeVars, job, boot, reap, beats, crashes, history>>

\* ... the write: a row that has ended since is skipped.
StopWrite ==
    LET moves == \/ stop.to = "cancelled" /\ CancelSubmittedTask(stop.task)
                 \/ stop.to = "paused" /\ PauseSubmittedTask(stop.task)
        stoppable == {"submitted", "claimed"} \cup
                     (IF stop.to = "cancelled" THEN {"paused"} ELSE {})
    IN  /\ Serving
        /\ stop.phase = "read"
        /\ IF status[stop.task] \in stoppable
           THEN moves /\ Overrule(stop.task, {})
                /\ stop' = [stop EXCEPT !.phase = "written"]
           ELSE stop' = NoStop /\ UNCHANGED <<storeVars, history>>
        /\ UNCHANGED <<job, boot, reap, beats, crashes>>

\* ... and the release of the lease that was read before the write.
StopRelease ==
    /\ Serving
    /\ stop.phase = "written"
    /\ stop' = NoStop
    /\ LET l == CHOOSE h \in stop.holders : TRUE IN
       IF stop.holders # {} /\ MayFinish(l, "released")
       THEN FinishWorkLease(l, "released") ELSE UNCHANGED storeVars
    /\ UNCHANGED <<job, boot, reap, beats, crashes, history>>

\* resumeTasks: paused work goes back to the queue.
Resume(t) ==
    /\ Serving
    /\ "operator" \in Faults
    /\ t \notin Questions
    /\ ResumePausedTask(t)
    /\ Overrule(t, {})
    /\ UNCHANGED <<job, hostVars>>

-----------------------------------------------------------------------------
(* reapStrandedWork, repeated by the serving process *)

\* Claims older than the grace period; the listing leaves questions out.
StaleClaims ==
    {t \in Tasks \ Questions : status[t] = "claimed" /\ claimedFor[t] = Grace}

ReapList ==
    /\ Serving
    /\ "reap" \in Faults
    /\ reap.phase = "idle"
    /\ StaleClaims # {}
    /\ reap' = [phase |-> "listed", todo |-> StaleClaims]
    /\ UNCHANGED <<storeVars, job, boot, stop, beats, crashes, history>>

\* A later read drops the tasks that have an active lease.
ReapLeased ==
    /\ Serving
    /\ reap.phase = "listed"
    /\ reap' = [phase |-> "reaping",
                todo |-> reap.todo \ {leaseTask[l] : l \in ActiveLeases}]
    /\ UNCHANGED <<storeVars, job, boot, stop, beats, crashes, history>>

\* Each of the others is retried; the store refuses a row that has ended.
ReapRetry(t) ==
    /\ Serving
    /\ reap.phase = "reaping"
    /\ t \in reap.todo
    /\ reap' = [reap EXCEPT !.todo = @ \ {t}]
    /\ IF status[t] \in {"claimed", "failed"}
       THEN RetrySubmittedTask(t) /\ Overrule(t, {})
       ELSE UNCHANGED <<storeVars, history>>
    /\ UNCHANGED <<job, boot, stop, beats, crashes>>

ReapDone ==
    /\ Serving
    /\ reap.phase = "reaping"
    /\ reap.todo = {}
    /\ reap' = Idle
    /\ UNCHANGED <<storeVars, job, boot, stop, beats, crashes, history>>

-----------------------------------------------------------------------------
(* A crash, and recoverCoordinationState before the process serves again *)

\* What a process holds in memory is gone; rows and canonical stay.
Crash ==
    /\ "crash" \in Faults
    /\ crashes < MaxCrashes
    /\ crashes' = crashes + 1
    /\ boot' = "expiring"
    /\ cut' = cut \cup
         {l \in Leases : /\ InCanonical(l)
                         /\ job[l].phase \in {"landed", "recorded", "resumed",
                                              "reclaiming", "handingBack"}}
    /\ job' = [l \in Leases |-> [job[l] EXCEPT !.phase = "idle"]]
    /\ reap' = Idle
    /\ stop' = NoStop
    /\ UNCHANGED <<storeVars, beats, overruled>>

\* expireWorkLeases is through.
BootExpired ==
    /\ boot = "expiring"
    /\ LapsedLeases = {}
    /\ boot' = "resuming"
    /\ UNCHANGED <<storeVars, job, reap, stop, beats, crashes, history>>

\* resumableChangeSet: a running run's changeset without an integration.
Resumable(l) ==
    /\ boot = "resuming"
    /\ \A k \in Leases : job[k].phase = "idle"
    /\ job[l].run = "running"
    /\ ~job[l].decided

\* resumeStrandedResults integrates it, on any base and without a review.  A
\* changeset that already is in canonical applies to nothing (see below).
ResumePromote(l) ==
    /\ Resumable(l)
    /\ ~InCanonical(l)
    /\ job' = [job EXCEPT ![l] = [@ EXCEPT !.phase = "landed", !.landed = "recovery"]]
    /\ UNCHANGED <<storeVars, hostVars, history>>

\* Fault: an outcome other than integrated is not told apart.
ResumeFailsForward(l) ==
    /\ Resumable(l)
    /\ job' = [job EXCEPT ![l] = [@ EXCEPT !.phase = "resumed", !.decided = TRUE]]
    /\ UNCHANGED <<storeVars, hostVars, history>>

\* Any other outcome is recorded and the task is left to what follows.
ResumeFails(l) ==
    /\ Resumable(l)
    /\ job' = [job EXCEPT ![l].decided = TRUE]
    /\ UNCHANGED <<storeVars, hostVars, history>>

ResumeRecord(l) ==
    /\ boot = "resuming"
    /\ job[l].phase = "landed"
    /\ job' = [job EXCEPT ![l] = [@ EXCEPT !.phase = "resumed", !.decided = TRUE]]
    /\ UNCHANGED <<storeVars, hostVars, history>>

\* Reading canonical back, or a write before the row's, threw: a warning, and
\* the pass goes on with the next run.
ResumeThrows(l) ==
    /\ boot = "resuming"
    /\ job[l].phase \in {"landed", "resumed"}
    /\ job' = [job EXCEPT ![l].phase = "idle"]
    /\ CutShort(l)
    /\ UNCHANGED <<storeVars, hostVars>>

\* Fault: recovery promotes and leaves the row as it is.
ResumeFinishSkips(l) ==
    /\ boot = "resuming"
    /\ job[l].phase = "resumed"
    /\ job' = [job EXCEPT ![l].phase = "idle"]
    /\ UNCHANGED <<storeVars, hostVars, history>>

\* The row of work that was promoted here: a claimed one completes, a queued
\* one is claimed first, with the rest of its repository's queue (which the
\* pass keeps, in reap.todo, to hand it back).
ResumeFinish(l) ==
    LET t == leaseTask[l]
        q == Claimable(Repository[t])
    IN  /\ boot = "resuming"
        /\ job[l].phase = "resumed"
        /\ \/ /\ status[t] = "submitted"
              /\ job' = [job EXCEPT ![l].phase = "reclaiming"]
              /\ reap' = [reap EXCEPT !.todo = q \ {t}]
              /\ IF q = {} THEN UNCHANGED storeVars
                 ELSE ClaimSubmittedTasks(Repository[t])
              /\ UNCHANGED history
           \/ /\ status[t] # "submitted"
              /\ job' = [job EXCEPT ![l].phase = "idle"]
              /\ IF status[t] = "claimed"
                 THEN CompleteSubmittedTask(t, "integrated")
                 ELSE UNCHANGED storeVars
              /\ IF status[t] \in {"claimed", "integrated"}
                 THEN UNCHANGED history ELSE CutShort(l)
              /\ UNCHANGED reap
        /\ UNCHANGED <<boot, stop, beats, crashes>>

\* A row the whole-queue claim passed over makes completeSubmittedTask throw,
\* and the rest of the queue stays claimed until BootReap.
ResumeReclaimed(l) ==
    LET t == leaseTask[l]
        got == status[t] = "claimed"
    IN  /\ boot = "resuming"
        /\ job[l].phase = "reclaiming"
        /\ job' = [job EXCEPT ![l].phase = IF got THEN "handingBack" ELSE "idle"]
        /\ reap' = IF got THEN reap ELSE Idle
        /\ IF got THEN CompleteSubmittedTask(t, "integrated") /\ UNCHANGED history
                  ELSE UNCHANGED storeVars /\ CutShort(l)
        /\ UNCHANGED <<boot, stop, beats, crashes>>

\* The rest of the queue is handed straight back.
ResumeHandBack(l) ==
    /\ boot = "resuming"
    /\ job[l].phase = "handingBack"
    /\ \/ \E t \in reap.todo :
             /\ RetrySubmittedTask(t)
             /\ reap' = [reap EXCEPT !.todo = @ \ {t}]
             /\ UNCHANGED job
       \/ /\ reap.todo = {}
          /\ job' = [job EXCEPT ![l].phase = "idle"]
          /\ UNCHANGED <<storeVars, reap>>
    /\ UNCHANGED <<boot, stop, beats, crashes, history>>

\* The pass is over; a run it did not settle threw on the way.
BootResumed ==
    /\ boot = "resuming"
    /\ \A l \in Leases : job[l].phase = "idle"
    /\ boot' = "reaping"
    /\ UNCHANGED <<storeVars, job, reap, stop, beats, crashes, history>>

\* Fault: boot keeps the serving sweep's grace period for young claims.
StrandedPastGrace ==
    {t \in StaleClaims : \A l \in ActiveLeases : leaseTask[l] # t}

\* At boot there is no grace: a claim without an active lease is stranded.
Stranded ==
    {t \in Tasks \ Questions :
        status[t] = "claimed" /\ \A l \in ActiveLeases : leaseTask[l] # t}

BootReap(t) ==
    /\ boot = "reaping"
    /\ t \in Stranded
    /\ RetrySubmittedTask(t)
    /\ UNCHANGED <<job, hostVars, history>>

\* Runs that are still running died with their process; then it serves.
BootDone ==
    /\ boot = "reaping"
    /\ Stranded = {}
    /\ boot' = "serving"
    /\ job' = [l \in Leases |-> Closed(job[l])]
    /\ UNCHANGED <<storeVars, reap, stop, beats, crashes, history>>

Recover ==
    \/ BootExpired \/ BootResumed \/ BootDone
    \/ \E t \in Tasks : BootReap(t)
    \/ \E l \in Leases :
          \/ ResumePromote(l) \/ ResumeFails(l) \/ ResumeRecord(l)
          \/ ResumeThrows(l)
          \/ ResumeFinish(l) \/ ResumeReclaimed(l) \/ ResumeHandBack(l)

-----------------------------------------------------------------------------
RemoteInit ==
    /\ StoreInit
    /\ job = [l \in Leases |-> NoJob]
    /\ boot = "serving"
    /\ reap = Idle
    /\ stop = NoStop
    /\ beats = 0
    /\ crashes = 0
    /\ overruled = {}
    /\ cut = {}

Sweep == ReapList \/ ReapLeased \/ ReapDone \/ \E t \in Tasks : ReapRetry(t)

RemoteNext ==
    \/ \E l \in Leases :
          \/ \E F \in Filters : Poll(l, F)
          \/ Heartbeat(l) \/ WorkerRelease(l) \/ ExpireLease(l)
          \/ ReceiveResult(l)
          \/ \E v \in {"approved", "refused"} : DecideReview(l, v)
          \/ Handle(l)
    \/ \E F \in Filters : PollEmpty(F)
    \/ \E t \in Tasks :
          \/ Submit(t) \/ Retry(t) \/ Resume(t)
          \/ \E to \in {"cancelled", "paused"} : StopRead(t, to)
    \/ StopWrite \/ StopRelease
    \/ Sweep
    \/ Crash \/ Recover
    \/ Time

RemoteSpec == RemoteInit /\ [][RemoteNext]_remoteVars

\* The clock runs, handlers, sweeps and recovery run on, and a review ends by
\* its timeout at the latest.  Nothing is assumed of workers and people.
Fairness ==
    /\ WF_remoteVars(Time)
    /\ WF_remoteVars(Sweep)
    /\ WF_remoteVars(Recover)
    /\ WF_remoteVars(StopWrite \/ StopRelease)
    /\ \A l \in Leases :
          /\ WF_remoteVars(ExpireLease(l))
          /\ WF_remoteVars(Handle(l))
          /\ WF_remoteVars(\E v \in {"approved", "refused"} : DecideReview(l, v))

FairRemoteSpec == RemoteSpec /\ Fairness

-----------------------------------------------------------------------------
(* Properties *)

\* The shape of the state; a handler past its entry has a minted lease.
RemoteTypeOK ==
    /\ StoreTypeOK
    /\ job \in [Leases -> Job]
    /\ boot \in BootStage
    /\ reap \in [phase : {"idle", "listed", "reaping"}, todo : SUBSET Tasks]
    /\ stop \in [phase : {"idle", "read", "written"},
                 task : Tasks \cup {NoTask}, to : {"none", "cancelled", "paused"},
                 holders : SUBSET Leases]
    /\ stop.phase # "idle" => stop.task \in Tasks
    /\ beats \in 0..MaxBeats
    /\ crashes \in 0..MaxCrashes
    /\ overruled \subseteq Tasks
    /\ cut \subseteq Leases
    /\ \A l \in Leases : leaseStatus[l] = "none" => job[l] = NoJob

\* "A result on a lapsed lease is refused ... accepting both would let two
\* workers write results for one task" (docs/protocol/remote-workers.md): a
\* task has one worker or one integrating handler at a time, unless its row
\* was moved under a run by a person, a sweep or a late requeue.
OneRunPerTask ==
    \A t \in Tasks \ overruled : Cardinality(Holders(t)) <= 1

\* The same with no exception: what the stranded-work sweep promises when it
\* says that it never races a run that is still going.
NobodyRaced == \A t \in Tasks : Cardinality(Holders(t)) <= 1

\* No handler lands work for a task that is in canonical already, unless the
\* task was overruled, or the run that landed it was cut short: by a crash or a
\* throw between the promotion and the row, or by a row that recovery cannot
\* move.
LandsAgain(l) ==
    /\ job[l].landed # "handler"
    /\ job'[l].landed = "handler"
    /\ \E k \in Leases \ (cut \cup {l}) :
          InCanonical(k) /\ leaseTask[k] = leaseTask[l]

LandsOnce ==
    [][\A l \in Leases : LandsAgain(l) => leaseTask[l] \in overruled]_remoteVars

\* "Accepting both would let two workers write results for one task": of the
\* results of one task, recovery promotes one at most.
RecoversOneResult ==
    \A l, k \in Leases :
       job[l].landed = "recovery" /\ job[k].landed = "recovery"
          /\ leaseTask[l] = leaseTask[k] => l = k

\* A task is reported integrated only when some run of it landed or reported.
IntegratedMeansLanded ==
    \A t \in Tasks : status[t] = "integrated" =>
       \E l \in Leases : leaseTask[l] = t /\ job[l].landed # "no"

\* Work a handler put into canonical is not reported failed, except where it was
\* overruled or its run was cut short: a throw after the branch moved does
\* report it failed.
LandedIsNotFailed ==
    \A l \in Leases :
       job[l].landed = "handler" /\ status[leaseTask[l]] = "failed"
          => leaseTask[l] \in overruled \/ l \in cut

\* What a handler lands passed the review its changeset needed.
HandlersAwaitReview ==
    \A l \in Leases : job[l].landed = "handler" =>
       job[l].review \in {"none", "approved"}

\* What makes those two inductive: where a handler stands says what its lease
\* and its review are, and no task of this module is an open conversation.
PhasesKnow ==
    /\ \A t \in Tasks : status[t] # "open"
    /\ \A l \in Leases :
          /\ job[l].phase \in {"landed", "recorded", "resumed", "reclaiming",
                              "handingBack"} => job[l].landed # "no"
          /\ job[l].phase = "checked" => job[l].landed # "handler"
          /\ job[l].phase \in {"approved", "settled"}
                => job[l].review \in {"none", "approved"}
          /\ job[l].phase = "settled" \/ job[l].landed = "handler"
                => leaseStatus[l] = "completed"

\* The inductive invariant of the proofs.
RemoteInv ==
    /\ RemoteTypeOK
    /\ PhasesKnow
    /\ IntegratedMeansLanded
    /\ HandlersAwaitReview

-----------------------------------------------------------------------------
(* What makes one run per task, and one landing, inductive *)

\* Whoever may still end l's task as its own: Working, or a handler that is
\* to fail it or give it back for a lease it held or settled.
Bound(l) ==
    \/ Working(l)
    \/ /\ Serving
       /\ \/ job[l].phase = "failing"
          \/ /\ job[l].phase \in {"requeueing", "erring"}
             /\ leaseStatus[l] \in {"active", "completed"}

\* A received result that is on its way into canonical and may still get there.
Judged(l) ==
    \/ Integrating(l)
    \/ /\ Serving
       /\ leaseStatus[l] = "active"
       /\ job[l].phase \in {"checked", "reviewing", "approved"}

\* What where l's handler, or recovery, stands says of its lease.
LeaseKnown(l) ==
    /\ Serving => job[l].phase \notin {"resumed", "reclaiming", "handingBack"}
    /\ ~Serving /\ job[l].phase # "idle" =>
          /\ boot = "resuming"
          /\ job[l].phase \in {"landed", "resumed", "reclaiming", "handingBack"}
          /\ job[l].landed = "recovery"
    /\ Integrating(l) => leaseStatus[l] = "completed"
    /\ job[l].phase = "failing" => leaseStatus[l] \in {"failed", "completed"}
    /\ job[l].phase \in {"checked", "reviewing", "approved"}
          => leaseStatus[l] # "completed"

\* The row of a bound run's task is claimed, or was integrated by recovery;
\* from the receipt of the result on, nobody has moved it.
RowHeld(l) ==
    leaseTask[l] \notin overruled =>
       /\ Bound(l) => status[leaseTask[l]] \in {"claimed", "integrated"}
       /\ Judged(l) => status[leaseTask[l]] = "claimed"

\* What landed is on its way to its row, or the row says so.
RowFollows(l) ==
    InCanonical(l) /\ l \notin cut /\ leaseTask[l] \notin overruled =>
       \/ status[leaseTask[l]] = "integrated"
       \/ job[l].phase \in {"landed", "recorded", "resumed", "reclaiming"}

\* One run is bound to a task.
RunsApart ==
    \A l, k \in Leases :
       Bound(l) /\ Bound(k) /\ leaseTask[l] = leaseTask[k]
          => l = k \/ leaseTask[l] \in overruled

\* The queue that recovery claimed along with its own task, and will hand
\* back, has no worker.
QueueFree ==
    ~Serving => \A l \in ActiveLeases :
       leaseTask[l] \in reap.todo => leaseTask[l] \in overruled

\* What every reachable state satisfies, so that the next promotion is the
\* only one of its task.
RunsInv ==
    /\ RemoteInv
    /\ RunsApart
    /\ QueueFree
    /\ \A l \in Leases : LeaseKnown(l) /\ RowHeld(l) /\ RowFollows(l)

-----------------------------------------------------------------------------
\* Recovery promotes "exactly as the normal path would": nothing reaches
\* canonical whose review is pending or was refused.
EverythingReviewed ==
    \A l \in Leases : InCanonical(l) => job[l].review \in {"none", "approved"}

\* A claim on work ends: whatever crashes, lapses or is lost between two
\* steps, no task stays claimed by nobody forever.
ClaimsEnd ==
    \A t \in Tasks \ Questions : status[t] = "claimed" ~> status[t] # "claimed"
=============================================================================
