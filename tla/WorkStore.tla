----------------------------- MODULE WorkStore -----------------------------
(***************************************************************************)
(* The queue of submitted tasks and the work leases on them, as the        *)
(* coordination store keeps them (services/persistence).  Every action is  *)
(* one store method, which runs in one transaction; the specification lets *)
(* callers invoke the methods in any order, so what holds here holds for   *)
(* every caller of the store.                                              *)
(*                                                                         *)
(* Time.  A lease row carries expires_at and a task row claimed_at.  Both  *)
(* are only ever compared with the clock, so the model keeps the time left *)
(* (leaseLeft, 0 once expires_at <= now) and the time since the claim      *)
(* (claimedFor, Grace once the claim is older than CLAIMED_GRACE_MS), and  *)
(* Tick lets one unit of time pass.                                        *)
(***************************************************************************)
EXTENDS Integers, FiniteSets

CONSTANTS
    Tasks,          \* ids of submitted tasks
    Leases,         \* ids of work leases: bounds how many are ever minted
    Questions,      \* the tasks of kind question
    NoTask,         \* the task of a lease that was not minted yet
    Repository,     \* [Tasks -> repositories]: repository_id
    Conversation,   \* [Tasks -> conversations]: conversation_id
    After,          \* [Tasks -> Tasks \cup {NoTask}]: after_task_id
    Priority,       \* [Tasks -> Nat]: place in the poll's ORDER BY (questions
                    \* first, then submitted_at, then rowid)
    Filters,        \* the sets of tasks the filters of one poll may select
    Parallelism,    \* repositoryParallelism: active leases per repository
    TTL,            \* ttlMs of a lease, in units of Tick
    Grace           \* CLAIMED_GRACE_MS, in units of Tick

ASSUME StoreAssumption ==
    /\ IsFiniteSet(Tasks)
    /\ IsFiniteSet(Leases)
    /\ Questions \subseteq Tasks
    /\ NoTask \notin Tasks
    /\ DOMAIN Repository = Tasks
    /\ DOMAIN Conversation = Tasks
    /\ After \in [Tasks -> Tasks \cup {NoTask}]
    /\ Priority \in [Tasks -> Nat]
    /\ \A t, u \in Tasks : Priority[t] = Priority[u] => t = u
    /\ Filters \subseteq SUBSET Tasks
    /\ Parallelism \in Nat \ {0}
    /\ TTL \in Nat \ {0}
    /\ Grace \in Nat

TaskStatus == {"absent", "planned", "submitted", "claimed", "open", "paused",
               "integrated", "failed", "cancelled"}

LeaseStatus == {"none", "active", "completed", "failed", "released", "expired"}

\* The outcomes completeSubmittedTask may record.
CompletionStatus == {"integrated", "failed"}

VARIABLES
    status,         \* submitted_tasks.status
    claimedFor,     \* time since submitted_tasks.claimed_at, up to Grace
    leaseStatus,    \* work_leases.status
    leaseTask,      \* work_leases.task_id
    leaseLeft       \* time to work_leases.expires_at, 0 when lapsed

storeVars == <<status, claimedFor, leaseStatus, leaseTask, leaseLeft>>

-----------------------------------------------------------------------------
(* Reading the tables *)

ActiveLeases == {l \in Leases : leaseStatus[l] = "active"}

Lapsed(l) == leaseLeft[l] = 0

LapsedLeases == {l \in ActiveLeases : Lapsed(l)}

\* Fault: whatever row a lapsed lease names goes back to the queue.
RequeueAny(ts) == [t \in Tasks |-> IF t \in ts THEN "submitted" ELSE status[t]]

\* Tasks of ts whose row is still claimed go back to the queue; any other row
\* keeps its status (UPDATE ... WHERE status = 'claimed').
Requeue(ts) ==
    [t \in Tasks |-> IF t \in ts /\ status[t] = "claimed"
                     THEN "submitted" ELSE status[t]]

\* The two tables after the expiry sweep that opens every poll.
SweptTasks == Requeue({leaseTask[l] : l \in LapsedLeases})

SweptLeases ==
    [l \in Leases |-> IF l \in LapsedLeases THEN "expired" ELSE leaseStatus[l]]

\* The active leases of one repository, in the lease table ls.
LeasesIn(ls, r) ==
    {l \in Leases : ls[l] = "active" /\ Repository[leaseTask[l]] = r}

\* A task waits while the task it was queued after has not ended.
PredecessorPending(st, t) ==
    /\ After[t] # NoTask
    /\ st[After[t]] \in {"submitted", "claimed", "planned", "paused"}

\* Fault: the cap counts the leases already there, not the one to be minted.
LeasableOverCap(F) ==
    {t \in F : /\ SweptTasks[t] = "submitted"
               /\ ~PredecessorPending(SweptTasks, t)
               /\ Cardinality(LeasesIn(SweptLeases, Repository[t])) <= Parallelism}

\* What a poll with filter F may lease once it has swept.
Leasable(F) ==
    {t \in F : /\ SweptTasks[t] = "submitted"
               /\ ~PredecessorPending(SweptTasks, t)
               /\ Cardinality(LeasesIn(SweptLeases, Repository[t])) < Parallelism}

\* The row the poll's ORDER BY ... LIMIT 1 returns.
First(q) == CHOOSE t \in q : \A u \in q : Priority[t] <= Priority[u]

\* Fault: no unique index on the task of an active lease.
NeverRefused(t) == t \notin Tasks

\* The unique partial index work_leases_one_active would refuse the insert.
AlreadyLeased(t) ==
    \E l \in Leases : SweptLeases[l] = "active" /\ leaseTask[l] = t

-----------------------------------------------------------------------------
(* Work leases *)

\* leaseNextTask, a row was found: sweep, claim it, insert an active lease.
\* When the index refuses the insert the transaction rolls back, the poll
\* throws and nothing changes, so that case is no action.
LeaseNextTask(l, F) ==
    /\ leaseStatus[l] = "none"
    /\ Leasable(F) # {}
    /\ LET t == First(Leasable(F))
       IN  /\ ~AlreadyLeased(t)
           /\ status' = [SweptTasks EXCEPT ![t] = "claimed"]
           /\ claimedFor' = [claimedFor EXCEPT ![t] = 0]
           /\ leaseStatus' = [SweptLeases EXCEPT ![l] = "active"]
           /\ leaseTask' = [leaseTask EXCEPT ![l] = t]
           /\ leaseLeft' = [leaseLeft EXCEPT ![l] = TTL]

\* leaseNextTask, no row was found: only the sweep is committed.
LeaseNothing(F) ==
    /\ Leasable(F) = {}
    /\ LapsedLeases # {}
    /\ status' = SweptTasks
    /\ leaseStatus' = SweptLeases
    /\ UNCHANGED <<claimedFor, leaseTask, leaseLeft>>

\* Fault: a heartbeat adds its time to what is left of the lease.
HeartbeatExtends(l) ==
    /\ leaseStatus[l] = "active"
    /\ ~Lapsed(l)
    /\ leaseLeft' = [leaseLeft EXCEPT ![l] = @ + TTL]
    /\ UNCHANGED <<status, claimedFor, leaseStatus, leaseTask>>

\* heartbeatWorkLease: extends an active lease that has not lapsed.
HeartbeatWorkLease(l) ==
    /\ leaseStatus[l] = "active"
    /\ ~Lapsed(l)
    /\ leaseLeft' = [leaseLeft EXCEPT ![l] = TTL]
    /\ UNCHANGED <<status, claimedFor, leaseStatus, leaseTask>>

\* Fault: the UPDATE does not compare expires_at with the clock.
MayFinishLate(l, s) == leaseStatus[l] = "active"

\* Whether finishWorkLease(l, s) takes effect: expiry is for lapsed leases
\* only, every other ending for leases that have not lapsed.
MayFinish(l, s) ==
    /\ leaseStatus[l] = "active"
    /\ (s = "expired") = Lapsed(l)

\* finishWorkLease: a released or expired lease gives its task back to the
\* queue; a settled one leaves the task to the caller.
FinishWorkLease(l, s) ==
    /\ MayFinish(l, s)
    /\ leaseStatus' = [leaseStatus EXCEPT ![l] = s]
    /\ status' = IF s \in {"released", "expired"}
                 THEN Requeue({leaseTask[l]}) ELSE status
    /\ UNCHANGED <<claimedFor, leaseTask, leaseLeft>>

-----------------------------------------------------------------------------
(* Submitted tasks *)

\* The row of t moves to s, from one of the statuses in from.
MoveTask(t, from, s) ==
    /\ status[t] \in from
    /\ status' = [status EXCEPT ![t] = s]
    /\ UNCHANGED <<claimedFor, leaseStatus, leaseTask, leaseLeft>>

\* submitTask: a new turn of a conversation settles the turn that was open.
SubmitTask(t, s) ==
    /\ status[t] = "absent"
    /\ status' = [u \in Tasks |->
                    IF u = t THEN s
                    ELSE IF status[u] = "open"
                            /\ Conversation[u] = Conversation[t]
                         THEN "integrated" ELSE status[u]]
    /\ UNCHANGED <<claimedFor, leaseStatus, leaseTask, leaseLeft>>

\* What claimSubmittedTasks selects: a repository's queue but its questions.
Claimable(r) ==
    {t \in Tasks \ Questions : /\ Repository[t] = r
                               /\ status[t] = "submitted"
                               /\ ~PredecessorPending(status, t)}

\* claimSubmittedTasks: claims the whole queue, minting no lease.
ClaimSubmittedTasks(r) ==
    LET q == Claimable(r)
    IN  /\ q # {}
        /\ status' = [t \in Tasks |-> IF t \in q THEN "claimed" ELSE status[t]]
        /\ claimedFor' = [t \in Tasks |-> IF t \in q THEN 0 ELSE claimedFor[t]]
        /\ UNCHANGED <<leaseStatus, leaseTask, leaseLeft>>

RetrySubmittedTask(t)  == MoveTask(t, {"claimed", "failed"}, "submitted")
CancelSubmittedTask(t) ==
    MoveTask(t, {"submitted", "claimed", "planned", "open", "paused"},
             "cancelled")
PauseSubmittedTask(t)  == MoveTask(t, {"submitted", "claimed"}, "paused")
ResumePausedTask(t)    == MoveTask(t, {"paused"}, "submitted")
ReleasePlannedTask(t)  == MoveTask(t, {"planned"}, "submitted")
CompleteSubmittedTask(t, s) == MoveTask(t, {"claimed"}, s)
OpenSubmittedTask(t)   == MoveTask(t, {"claimed"}, "open")
ExpireOpenTasks(t)     == MoveTask(t, {"open"}, "integrated")

\* The clock: leases run down, claims grow old.
Tick ==
    /\ leaseLeft' = [l \in Leases |->
                       IF leaseStatus[l] = "active" /\ leaseLeft[l] > 0
                       THEN leaseLeft[l] - 1 ELSE leaseLeft[l]]
    /\ claimedFor' = [t \in Tasks |->
                        IF status[t] = "claimed" /\ claimedFor[t] < Grace
                        THEN claimedFor[t] + 1 ELSE claimedFor[t]]
    /\ UNCHANGED <<status, leaseStatus, leaseTask>>

-----------------------------------------------------------------------------
StoreInit ==
    /\ status = [t \in Tasks |-> "absent"]
    /\ claimedFor = [t \in Tasks |-> 0]
    /\ leaseStatus = [l \in Leases |-> "none"]
    /\ leaseTask = [l \in Leases |-> NoTask]
    /\ leaseLeft = [l \in Leases |-> 0]

LeaseStep ==
    \/ \E l \in Leases, F \in Filters : LeaseNextTask(l, F)
    \/ \E F \in Filters : LeaseNothing(F)
    \/ \E l \in Leases : HeartbeatWorkLease(l)
    \/ \E l \in Leases, s \in LeaseStatus \ {"none", "active"} :
          FinishWorkLease(l, s)

TaskStep ==
    \/ \E t \in Tasks, s \in {"submitted", "planned"} : SubmitTask(t, s)
    \/ \E t \in Tasks : ClaimSubmittedTasks(Repository[t])
    \/ \E t \in Tasks : RetrySubmittedTask(t)
    \/ \E t \in Tasks : CancelSubmittedTask(t)
    \/ \E t \in Tasks : PauseSubmittedTask(t)
    \/ \E t \in Tasks : ResumePausedTask(t)
    \/ \E t \in Tasks : ReleasePlannedTask(t)
    \/ \E t \in Tasks, s \in CompletionStatus : CompleteSubmittedTask(t, s)
    \/ \E t \in Tasks : OpenSubmittedTask(t)
    \/ \E t \in Tasks : ExpireOpenTasks(t)

StoreNext == LeaseStep \/ TaskStep \/ Tick

StoreSpec == StoreInit /\ [][StoreNext]_storeVars

-----------------------------------------------------------------------------
(* Properties *)

\* The shape of the two tables; a minted lease always names a task.
StoreTypeOK ==
    /\ status \in [Tasks -> TaskStatus]
    /\ claimedFor \in [Tasks -> 0..Grace]
    /\ leaseStatus \in [Leases -> LeaseStatus]
    /\ leaseTask \in [Leases -> Tasks \cup {NoTask}]
    /\ leaseLeft \in [Leases -> 0..TTL]
    /\ \A l \in Leases : leaseStatus[l] # "none" => leaseTask[l] \in Tasks

\* "Two workers can never hold the same task": whatever the callers of the
\* store do (retry or resume a task that is still leased included), no task
\* has two active leases.
OneActiveLeasePerTask ==
    \A l, k \in ActiveLeases : leaseTask[l] = leaseTask[k] => l = k

\* leaseNextTask never takes a repository over its parallelism, however
\* expiry sweeps, releases and polls interleave.
WithinParallelism ==
    \A t \in Tasks :
       Cardinality(LeasesIn(leaseStatus, Repository[t])) <= Parallelism

\* A lease's ending is final, and a lapsed lease can only expire: a late
\* heartbeat, result or release never revives it or settles it as something
\* else.
LeaseEndsOnce ==
    \A l \in Leases :
       /\ leaseStatus[l] \notin {"none", "active"}
             => leaseStatus'[l] = leaseStatus[l]
       /\ l \in LapsedLeases
             => leaseStatus'[l] \in {"active", "expired"} /\ leaseLeft'[l] = 0

LeasesEndOnce == [][LeaseEndsOnce]_storeVars

\* A task that was cancelled or integrated stays so: no sweep, release, retry
\* or late completion brings it back to the queue.
TaskEndIsFinal ==
    \A t \in Tasks :
       status[t] \in {"cancelled", "integrated"} => status'[t] = status[t]

TaskEndsAreFinal == [][TaskEndIsFinal]_storeVars
=============================================================================
