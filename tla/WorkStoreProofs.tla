-------------------------- MODULE WorkStoreProofs --------------------------
(***************************************************************************)
(* Proofs about WorkStore, for every set of tasks and leases, every        *)
(* placement of tasks in repositories and every parallelism.               *)
(***************************************************************************)
EXTENDS WorkStore, FiniteSetTheorems, WellFoundedInduction, TLAPS

-----------------------------------------------------------------------------
(* What the helpers of the polls return *)

\* Requeueing and sweeping keep the shape of the tables.
LEMMA SweepTyped ==
    ASSUME StoreTypeOK
    PROVE  /\ \A ts : Requeue(ts) \in [Tasks -> TaskStatus]
           /\ SweptTasks \in [Tasks -> TaskStatus]
           /\ SweptLeases \in [Leases -> LeaseStatus]
  BY DEF StoreTypeOK, Requeue, SweptTasks, SweptLeases, TaskStatus, LeaseStatus

\* A sweep only ends leases: what is active after it was active before it.
LEMMA SweepOnlyEnds ==
    ASSUME StoreTypeOK, NEW l \in Leases
    PROVE  /\ SweptLeases[l] = "active" => leaseStatus[l] = "active"
           /\ leaseStatus[l] # "active" => SweptLeases[l] = leaseStatus[l]
           /\ l \in LapsedLeases => SweptLeases[l] = "expired"
           /\ l \notin LapsedLeases => SweptLeases[l] = leaseStatus[l]
  BY DEF StoreTypeOK, SweptLeases, LapsedLeases, ActiveLeases

\* Every non-empty set of naturals has a least element.
LEMMA LeastOf ==
    ASSUME NEW S, S \subseteq Nat, S # {}
    PROVE  \E n \in S : \A m \in S : n <= m
<1> DEFINE R == {ss \in Nat \X Nat : ss[1] < ss[2]}
<1>1. IsWellFoundedOn(R, Nat)
  BY NatLessThanWellFounded DEF OpToRel
<1> HIDE DEF R
<1>2. PICK n \in S : \A m \in S : ~(<<m, n>> \in R)
  BY <1>1, WFMin
<1>3. \A m \in S : n <= m
  <2> SUFFICES ASSUME NEW m \in S, m < n PROVE FALSE
    BY DEF R
  <2>1. <<m, n>> \in R
    BY DEF R
  <2>2. QED
    BY <1>2, <2>1
<1>4. QED
  BY <1>3

\* The row a poll picks is one of the rows it may lease.
LEMMA FirstIsMember ==
    ASSUME NEW q, q \subseteq Tasks, q # {}
    PROVE  First(q) \in q
<1>1. PICK t \in q : \A u \in q : Priority[t] <= Priority[u]
  <2> DEFINE S == {Priority[t] : t \in q}
  <2>1. S # {} /\ S \subseteq Nat
    BY StoreAssumption
  <2> HIDE DEF S
  <2>2. PICK n \in S : \A m \in S : n <= m
    BY <2>1, LeastOf
  <2>3. QED
    BY <2>2 DEF S
<1>2. QED
  BY <1>1 DEF First

\* What a successful poll leases: a queued task of a repository with room.
LEMMA LeasedRow ==
    ASSUME NEW F \in Filters, Leasable(F) # {}
    PROVE  LET t == First(Leasable(F))
           IN  /\ t \in Tasks
               /\ SweptTasks[t] = "submitted"
               /\ Cardinality(LeasesIn(SweptLeases, Repository[t]))
                     < Parallelism
<1>1. Leasable(F) \subseteq Tasks
  BY StoreAssumption DEF Leasable
<1>2. First(Leasable(F)) \in Leasable(F)
  BY <1>1, FirstIsMember
<1>3. QED
  BY <1>1, <1>2 DEF Leasable

-----------------------------------------------------------------------------
(* Type correctness *)

\* Every method on leases keeps the shape of the tables.
LEMMA LeaseStepTyped ==
    ASSUME StoreTypeOK, LeaseStep
    PROVE  StoreTypeOK'
<1>1. CASE \E l \in Leases, F \in Filters : LeaseNextTask(l, F)
  <2>1. PICK l \in Leases, F \in Filters : LeaseNextTask(l, F)
    BY <1>1
  <2> DEFINE t == First(Leasable(F))
  <2>2. t \in Tasks
    BY <2>1, LeasedRow DEF LeaseNextTask
  <2> HIDE DEF t
  <2>3. /\ status' = [SweptTasks EXCEPT ![t] = "claimed"]
        /\ claimedFor' = [claimedFor EXCEPT ![t] = 0]
        /\ leaseStatus' = [SweptLeases EXCEPT ![l] = "active"]
        /\ leaseTask' = [leaseTask EXCEPT ![l] = t]
        /\ leaseLeft' = [leaseLeft EXCEPT ![l] = TTL]
    BY <2>1 DEF LeaseNextTask, t
  <2>4. \A k \in Leases : SweptLeases[k] # "none" => leaseTask[k] \in Tasks
    BY SweepOnlyEnds DEF StoreTypeOK
  <2>5. QED
    BY <2>2, <2>3, <2>4, SweepTyped, StoreAssumption
    DEF StoreTypeOK, TaskStatus, LeaseStatus
<1>2. CASE \E F \in Filters : LeaseNothing(F)
  <2>1. \A k \in Leases : SweptLeases[k] # "none" => leaseTask[k] \in Tasks
    BY SweepOnlyEnds DEF StoreTypeOK
  <2>2. QED
    BY <1>2, <2>1, SweepTyped DEF StoreTypeOK, LeaseNothing
<1>3. CASE \E l \in Leases : HeartbeatWorkLease(l)
  BY <1>3, StoreAssumption DEF StoreTypeOK, HeartbeatWorkLease
<1>4. CASE \E l \in Leases, s \in LeaseStatus \ {"none", "active"} :
              FinishWorkLease(l, s)
  BY <1>4, SweepTyped DEF StoreTypeOK, FinishWorkLease, MayFinish
<1>5. QED
  BY <1>1, <1>2, <1>3, <1>4 DEF LeaseStep

\* Every method on tasks keeps the shape of the tables, and the leases.
LEMMA TaskStepTyped ==
    ASSUME StoreTypeOK, TaskStep
    PROVE  StoreTypeOK' /\ UNCHANGED <<leaseStatus, leaseTask, leaseLeft>>
<1>1. ASSUME NEW t \in Tasks, NEW from, NEW s \in TaskStatus,
             MoveTask(t, from, s)
      PROVE  StoreTypeOK' /\ UNCHANGED <<leaseStatus, leaseTask, leaseLeft>>
  BY <1>1 DEF StoreTypeOK, MoveTask
<1>2. CASE \E t \in Tasks, s \in {"submitted", "planned"} : SubmitTask(t, s)
  BY <1>2 DEF StoreTypeOK, SubmitTask, TaskStatus
<1>3. CASE \E t \in Tasks : ClaimSubmittedTasks(Repository[t])
  BY <1>3, StoreAssumption DEF StoreTypeOK, ClaimSubmittedTasks, TaskStatus
<1>4. QED
  BY <1>1, <1>2, <1>3
  DEF TaskStep, RetrySubmittedTask, CancelSubmittedTask, PauseSubmittedTask,
      ResumePausedTask, ReleasePlannedTask, CompleteSubmittedTask,
      OpenSubmittedTask, ExpireOpenTasks, TaskStatus, CompletionStatus

\* The clock keeps the shape of the tables.
LEMMA TickTyped ==
    ASSUME StoreTypeOK, Tick
    PROVE  StoreTypeOK'
  BY StoreAssumption DEF StoreTypeOK, Tick

\* The tables keep their shape under every store method, in any order.
THEOREM StoreTypeCorrect == StoreSpec => []StoreTypeOK
<1>1. StoreInit => StoreTypeOK
  BY StoreAssumption DEF StoreInit, StoreTypeOK, TaskStatus, LeaseStatus
<1>2. StoreTypeOK /\ [StoreNext]_storeVars => StoreTypeOK'
  <2> SUFFICES ASSUME StoreTypeOK, [StoreNext]_storeVars
               PROVE  StoreTypeOK'
    OBVIOUS
  <2>1. CASE UNCHANGED storeVars
    BY <2>1 DEF StoreTypeOK, storeVars
  <2>2. QED
    BY <2>1, LeaseStepTyped, TaskStepTyped, TickTyped DEF StoreNext
<1>3. QED
  BY <1>1, <1>2, PTL DEF StoreSpec

-----------------------------------------------------------------------------
(* What every step does to the active leases: a step that is not a          *)
(* successful poll activates none, and no step moves a minted lease.        *)

OnlyEnds ==
    /\ \A l \in Leases : leaseStatus'[l] = "active" => leaseStatus[l] = "active"
    /\ leaseTask' = leaseTask

\* Every step of the store only ends leases, or is a successful poll.
LEMMA StepShape ==
    ASSUME StoreTypeOK, [StoreNext]_storeVars
    PROVE  \/ OnlyEnds
           \/ \E l \in Leases, F \in Filters : LeaseNextTask(l, F)
<1>1. CASE \E F \in Filters : LeaseNothing(F)
  BY <1>1, SweepOnlyEnds DEF OnlyEnds, LeaseNothing
<1>2. CASE \E l \in Leases : HeartbeatWorkLease(l)
  BY <1>2 DEF OnlyEnds, HeartbeatWorkLease
<1>3. CASE \E l \in Leases, s \in LeaseStatus \ {"none", "active"} :
              FinishWorkLease(l, s)
  BY <1>3 DEF OnlyEnds, FinishWorkLease, MayFinish, StoreTypeOK
<1>4. CASE TaskStep
  BY <1>4, TaskStepTyped DEF OnlyEnds
<1>5. CASE Tick
  BY <1>5 DEF OnlyEnds, Tick
<1>6. CASE UNCHANGED storeVars
  BY <1>6 DEF OnlyEnds, storeVars
<1>7. QED
  BY <1>1, <1>2, <1>3, <1>4, <1>5, <1>6 DEF StoreNext, LeaseStep

\* Whatever the callers of the store do, no two active leases hold one task.
THEOREM OneActiveLeaseHolds == StoreSpec => []OneActiveLeasePerTask
<1>1. StoreInit => OneActiveLeasePerTask
  BY DEF StoreInit, OneActiveLeasePerTask, ActiveLeases
<1>2. /\ StoreTypeOK
      /\ OneActiveLeasePerTask
      /\ [StoreNext]_storeVars
      => OneActiveLeasePerTask'
  <2> SUFFICES ASSUME StoreTypeOK, OneActiveLeasePerTask,
                      [StoreNext]_storeVars
               PROVE  OneActiveLeasePerTask'
    OBVIOUS
  <2>1. CASE OnlyEnds
    BY <2>1 DEF OnlyEnds, OneActiveLeasePerTask, ActiveLeases
  <2>2. ASSUME NEW l \in Leases, NEW F \in Filters, LeaseNextTask(l, F)
        PROVE  OneActiveLeasePerTask'
    <3> DEFINE t == First(Leasable(F))
    <3>1. /\ ~AlreadyLeased(t)
          /\ leaseStatus' = [SweptLeases EXCEPT ![l] = "active"]
          /\ leaseTask' = [leaseTask EXCEPT ![l] = t]
      BY <2>2 DEF LeaseNextTask
    <3> HIDE DEF t
    <3>2. \A k \in Leases \ {l} :
             leaseStatus'[k] = "active" => /\ leaseStatus[k] = "active"
                                           /\ leaseTask'[k] = leaseTask[k]
                                           /\ leaseTask[k] # t
      BY <3>1, SweepOnlyEnds, SweepTyped DEF AlreadyLeased, StoreTypeOK
    <3>3. leaseTask'[l] = t
      BY <3>1 DEF StoreTypeOK
    <3>4. QED
      BY <3>2, <3>3 DEF OneActiveLeasePerTask, ActiveLeases
  <2>3. QED
    BY <2>1, <2>2, StepShape
<1>3. QED
  BY <1>1, <1>2, StoreTypeCorrect, PTL DEF StoreSpec

\* One more element makes a finite set larger by at most one.
LEMMA OneMore ==
    ASSUME NEW S, IsFiniteSet(S), NEW x
    PROVE  /\ IsFiniteSet(S \cup {x})
           /\ Cardinality(S \cup {x}) <= Cardinality(S) + 1
<1>1. Cardinality(S) \in Nat
  BY FS_CardinalityType
<1>2. /\ IsFiniteSet(S \cup {x})
      /\ Cardinality(S \cup {x})
            = IF x \in S THEN Cardinality(S) ELSE Cardinality(S) + 1
  BY FS_AddElement
<1>3. QED
  BY <1>1, <1>2

\* No poll, sweep or release takes a repository over its parallelism.
THEOREM ParallelismHolds == StoreSpec => []WithinParallelism
<1>1. StoreInit => WithinParallelism
  <2> SUFFICES ASSUME StoreInit, NEW t \in Tasks
               PROVE  Cardinality(LeasesIn(leaseStatus, Repository[t]))
                         <= Parallelism
    BY DEF WithinParallelism
  <2>1. LeasesIn(leaseStatus, Repository[t]) = {}
    BY DEF StoreInit, LeasesIn
  <2>2. QED
    BY <2>1, FS_EmptySet, StoreAssumption
<1>2. /\ StoreTypeOK
      /\ WithinParallelism
      /\ [StoreNext]_storeVars
      => WithinParallelism'
  <2> SUFFICES ASSUME StoreTypeOK, WithinParallelism, [StoreNext]_storeVars,
                      NEW u \in Tasks
               PROVE  Cardinality(LeasesIn(leaseStatus, Repository[u])')
                         <= Parallelism
    BY DEF WithinParallelism
  <2> DEFINE A == LeasesIn(leaseStatus, Repository[u])
             B == LeasesIn(leaseStatus, Repository[u])'
  <2>0. /\ A \subseteq Leases
        /\ IsFiniteSet(A)
        /\ Cardinality(A) \in Nat
        /\ Cardinality(A) <= Parallelism
    BY FS_Subset, FS_CardinalityType, StoreAssumption
    DEF LeasesIn, WithinParallelism
  <2>1. CASE OnlyEnds
    <3>1. B \subseteq A
      BY <2>1 DEF OnlyEnds, LeasesIn
    <3>2. Cardinality(B) <= Cardinality(A) /\ Cardinality(B) \in Nat
      BY <3>1, <2>0, FS_Subset, FS_CardinalityType
    <3>3. QED
      BY <3>2, <2>0, StoreAssumption
  <2>2. ASSUME NEW l \in Leases, NEW F \in Filters, LeaseNextTask(l, F)
        PROVE  Cardinality(B) <= Parallelism
    <3> DEFINE t == First(Leasable(F))
               S == LeasesIn(SweptLeases, Repository[u])
    <3>1. /\ t \in Tasks
          /\ Cardinality(LeasesIn(SweptLeases, Repository[t])) < Parallelism
          /\ leaseStatus[l] = "none"
          /\ leaseStatus' = [SweptLeases EXCEPT ![l] = "active"]
          /\ leaseTask' = [leaseTask EXCEPT ![l] = t]
      BY <2>2, LeasedRow DEF LeaseNextTask
    <3> HIDE DEF t
    <3>2. S \subseteq A
      BY SweepOnlyEnds DEF LeasesIn
    <3>3. /\ IsFiniteSet(S)
          /\ Cardinality(S) \in Nat
          /\ Cardinality(S) <= Cardinality(A)
      BY <3>2, <2>0, FS_Subset, FS_CardinalityType
    <3>4. CASE Repository[u] = Repository[t]
      <4>1. B \subseteq S \cup {l}
        BY <3>1, SweepTyped DEF LeasesIn, StoreTypeOK
      <4>2. /\ IsFiniteSet(S \cup {l})
            /\ Cardinality(S \cup {l}) <= Cardinality(S) + 1
        BY <3>3, OneMore
      <4>3. Cardinality(B) <= Cardinality(S \cup {l}) /\ Cardinality(B) \in Nat
        BY <4>1, <4>2, FS_Subset, FS_CardinalityType
      <4>4. Cardinality(S) < Parallelism
        BY <3>1, <3>4
      <4>5. Cardinality(S \cup {l}) \in Nat
        BY <4>2, FS_CardinalityType
      <4>6. QED
        BY <4>2, <4>3, <4>4, <4>5, <3>3, StoreAssumption
    <3>5. CASE Repository[u] # Repository[t]
      <4>1. B \subseteq S
        BY <3>1, <3>5, SweepTyped DEF LeasesIn, StoreTypeOK
      <4>2. Cardinality(B) <= Cardinality(S) /\ Cardinality(B) \in Nat
        BY <4>1, <3>3, FS_Subset, FS_CardinalityType
      <4>3. QED
        BY <4>2, <3>3, <2>0, StoreAssumption
    <3>6. QED
      BY <3>4, <3>5
  <2>3. QED
    BY <2>1, <2>2, StepShape
<1>3. QED
  BY <1>1, <1>2, StoreTypeCorrect, PTL DEF StoreSpec

-----------------------------------------------------------------------------
(* Action properties *)

\* A lease ends once, and a lapsed lease can only expire.
THEOREM LeasesEndOnceHolds == StoreSpec => LeasesEndOnce
<1>1. StoreTypeOK /\ [StoreNext]_storeVars => [LeaseEndsOnce]_storeVars
  <2> SUFFICES ASSUME StoreTypeOK, StoreNext
               PROVE  LeaseEndsOnce
    OBVIOUS
  <2>1. ASSUME NEW l \in Leases, NEW F \in Filters, LeaseNextTask(l, F)
        PROVE  LeaseEndsOnce
    <3>1. /\ leaseStatus[l] = "none"
          /\ \A k \in Leases \ {l} : /\ leaseStatus'[k] = SweptLeases[k]
                                     /\ leaseLeft'[k] = leaseLeft[k]
      BY <2>1, SweepTyped DEF LeaseNextTask, StoreTypeOK
    <3>2. QED
      BY <3>1, SweepOnlyEnds
      DEF LeaseEndsOnce, LapsedLeases, ActiveLeases, Lapsed
  <2>2. ASSUME NEW F \in Filters, LeaseNothing(F)
        PROVE  LeaseEndsOnce
    BY <2>2, SweepOnlyEnds
    DEF LeaseEndsOnce, LeaseNothing, LapsedLeases, ActiveLeases, Lapsed
  <2>3. ASSUME NEW l \in Leases, HeartbeatWorkLease(l)
        PROVE  LeaseEndsOnce
    BY <2>3 DEF LeaseEndsOnce, HeartbeatWorkLease, LapsedLeases, ActiveLeases,
                Lapsed, StoreTypeOK
  <2>4. ASSUME NEW l \in Leases, NEW s \in LeaseStatus \ {"none", "active"},
               FinishWorkLease(l, s)
        PROVE  LeaseEndsOnce
    BY <2>4 DEF LeaseEndsOnce, FinishWorkLease, MayFinish, LapsedLeases,
                ActiveLeases, Lapsed, StoreTypeOK
  <2>5. CASE TaskStep
    BY <2>5, TaskStepTyped
    DEF LeaseEndsOnce, LapsedLeases, ActiveLeases, Lapsed
  <2>6. CASE Tick
    BY <2>6 DEF LeaseEndsOnce, Tick, LapsedLeases, ActiveLeases, Lapsed,
                StoreTypeOK
  <2>7. QED
    BY <2>1, <2>2, <2>3, <2>4, <2>5, <2>6 DEF StoreNext, LeaseStep
<1>2. QED
  BY <1>1, StoreTypeCorrect, PTL DEF StoreSpec, LeasesEndOnce

\* A step of the store leaves a row that was cancelled or integrated alone.
LEMMA EndedRowKept ==
    ASSUME StoreTypeOK, StoreNext, NEW t \in Tasks,
           status[t] \in {"cancelled", "integrated"}
    PROVE  status'[t] = status[t]
<1>0. /\ \A ts : Requeue(ts)[t] = status[t]
      /\ SweptTasks[t] = status[t]
  BY DEF Requeue, SweptTasks
<1>1. ASSUME NEW l \in Leases, NEW F \in Filters, LeaseNextTask(l, F)
      PROVE  status'[t] = status[t]
  <2>1. First(Leasable(F)) # t
    BY <1>0, <1>1, LeasedRow DEF LeaseNextTask
  <2>2. QED
    BY <2>1, <1>0, <1>1, SweepTyped DEF LeaseNextTask
<1>2. ASSUME NEW F \in Filters, LeaseNothing(F)
      PROVE  status'[t] = status[t]
  BY <1>0, <1>2 DEF LeaseNothing
<1>3. ASSUME NEW l \in Leases,
             HeartbeatWorkLease(l) \/ \E s : FinishWorkLease(l, s)
      PROVE  status'[t] = status[t]
  BY <1>0, <1>3 DEF HeartbeatWorkLease, FinishWorkLease
<1>4. ASSUME NEW u \in Tasks, NEW from, NEW s, MoveTask(u, from, s),
             from \cap {"cancelled", "integrated"} = {}
      PROVE  status'[t] = status[t]
  BY <1>4 DEF MoveTask, StoreTypeOK
<1>5. ASSUME NEW u \in Tasks, NEW s, SubmitTask(u, s)
      PROVE  status'[t] = status[t]
  BY <1>5 DEF SubmitTask
<1>6. ASSUME NEW r, ClaimSubmittedTasks(r)
      PROVE  status'[t] = status[t]
  BY <1>6 DEF ClaimSubmittedTasks, Claimable
<1>7. CASE TaskStep
  BY <1>4, <1>5, <1>6, <1>7
  DEF TaskStep, RetrySubmittedTask, CancelSubmittedTask, PauseSubmittedTask,
      ResumePausedTask, ReleasePlannedTask, CompleteSubmittedTask,
      OpenSubmittedTask, ExpireOpenTasks
<1>8. CASE Tick
  BY <1>8 DEF Tick
<1>9. QED
  BY <1>1, <1>2, <1>3, <1>7, <1>8 DEF StoreNext, LeaseStep

\* A cancelled or integrated task is never queued, claimed or failed again.
THEOREM TaskEndsAreFinalHolds == StoreSpec => TaskEndsAreFinal
<1>1. StoreTypeOK /\ [StoreNext]_storeVars => [TaskEndIsFinal]_storeVars
  BY EndedRowKept DEF TaskEndIsFinal
<1>2. QED
  BY <1>1, StoreTypeCorrect, PTL DEF StoreSpec, TaskEndsAreFinal
=============================================================================
