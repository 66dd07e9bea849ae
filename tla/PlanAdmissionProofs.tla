------------------------ MODULE PlanAdmissionProofs ------------------------
(***************************************************************************)
(* Proofs about PlanAdmission, for every set of leases and resources,      *)
(* every deployment and every attempt budget.                              *)
(***************************************************************************)
EXTENDS PlanAdmission, TLAPS

\* The invariant holds before anything is leased.
LEMMA AdmissionInvInit == AdmissionInit => AdmissionInv
  BY AdmissionAssumption
  DEF AdmissionInit, AdmissionInv, AdmissionTypeOK, ViewsCurrent,
      SerialisedContracts, ExclusiveContracts, Admitted, LeaseState, Verdict,
      Phase, HandlersKnow, OneTurn

-----------------------------------------------------------------------------
(* Type correctness *)

\* What a handler reads is well formed, and includes every admitted lease.
LEMMA ReadTyped ==
    ASSUME AdmissionTypeOK, NEW l \in Leases
    PROVE  /\ ApprovedLeaseIds(l) \subseteq Leases
           /\ Held(l) \subseteq Files
           /\ \A k \in Leases : k # l /\ Admitted(k)
                 => k \in ApprovedLeaseIds(l) /\ plan[k] \subseteq Held(l)
  BY DEF AdmissionTypeOK, ApprovedLeaseIds, Held

\* A handler that starts keeps the shape of the state.
LEMMA BeginTyped ==
    ASSUME AdmissionTypeOK, NEW l \in Leases, NEW r \in BOOLEAN,
           NEW p \in SUBSET Files, Begin(l, r, p)
    PROVE  AdmissionTypeOK'
  BY ReadTyped, AdmissionAssumption
  DEF AdmissionTypeOK, Begin, ReadExecuting, Phase

\* A handler that returns keeps the shape of its locals.
LEMMA AnsweredTyped ==
    ASSUME AdmissionTypeOK, NEW l \in Leases, Answered(l)
    PROVE  /\ deployment' \in Deployments
           /\ lease' \in [Leases -> LeaseState]
           /\ phase' \in [Leases -> Phase]
           /\ revising' \in [Leases -> BOOLEAN]
           /\ ask' \in [Leases -> SUBSET Files]
           /\ seenIds' \in [Leases -> SUBSET Leases]
           /\ seenHeld' \in [Leases -> SUBSET Files]
           /\ attempts' \in [Leases -> 0..MaxAttempts]
<1>1. 0 \in 0..MaxAttempts
  BY AdmissionAssumption
<1>2. revising' \in [Leases -> BOOLEAN]
  BY Zenon DEF AdmissionTypeOK, Answered
<1>3. QED
  BY <1>1, <1>2 DEF AdmissionTypeOK, Answered, Phase

\* So does every way a handler's round ends.
LEMMA DecideTyped ==
    ASSUME AdmissionTypeOK, NEW l \in Leases, Decide(l)
    PROVE  AdmissionTypeOK'
<1>1. CASE LeaseLost(l) \/ Contended(l) \/ RefuseRevision(l)
  <2>1. Answered(l) /\ verdict' = verdict /\ plan' = plan /\ lease' = lease
    BY <1>1 DEF LeaseLost, Contended, RefuseRevision, Answered
  <2>2. QED
    BY <2>1, AnsweredTyped DEF AdmissionTypeOK
<1>2. CASE DecideAgain(l)
  <2>1. attempts[l] + 1 \in 0..MaxAttempts \/ ~Remote(l)
    BY <1>2, AdmissionAssumption DEF AdmissionTypeOK, DecideAgain, GivesUp
  <2>2. QED
    BY <1>2, <2>1, ReadTyped DEF AdmissionTypeOK, DecideAgain, ReadExecuting
<1>3. ASSUME NEW v \in Verdict, NEW p \in SUBSET Files, Write(l, v, p)
      PROVE  AdmissionTypeOK'
  <2>1. /\ Answered(l)
        /\ verdict' = [verdict EXCEPT ![l] = v]
        /\ plan' = [plan EXCEPT ![l] = p]
        /\ lease[l] = "active" /\ lease' = lease
    BY <1>3 DEF Write, Answered
  <2>2. QED
    BY <2>1, AnsweredTyped DEF AdmissionTypeOK
<1>4. CASE Approve(l) \/ ApprovePart(l) \/ RefuseFirst(l)
  BY <1>3, <1>4
  DEF AdmissionTypeOK, Approve, ApprovePart, RefuseFirst, Verdict
<1>5. QED
  BY <1>1, <1>2, <1>4 DEF Decide

\* Every step keeps the shape of the state.
LEMMA AdmissionTypedStep ==
    ASSUME AdmissionTypeOK, [AdmissionNext]_vars
    PROVE  AdmissionTypeOK'
<1>1. CASE UNCHANGED vars
  BY <1>1 DEF AdmissionTypeOK, vars
<1>2. ASSUME NEW l \in Leases, Lease(l) \/ Settle(l)
      PROVE  AdmissionTypeOK'
  BY <1>2 DEF AdmissionTypeOK, Lease, Settle, LeaseState, Verdict
<1>3. ASSUME NEW l \in Leases, NEW p \in SUBSET Files, SubmitPlan(l, p)
      PROVE  AdmissionTypeOK'
  BY <1>3, BeginTyped DEF SubmitPlan
<1>4. ASSUME NEW l \in Leases, NEW p \in SUBSET Files, AskWider(l, p)
      PROVE  AdmissionTypeOK'
  <2>1. (IF Remote(l) THEN plan[l] \cup p ELSE p) \in SUBSET Files
    BY DEF AdmissionTypeOK
  <2>2. QED
    BY <1>4, <2>1, BeginTyped DEF AskWider
<1>5. QED
  BY <1>1, <1>2, <1>3, <1>4, DecideTyped DEF AdmissionNext

-----------------------------------------------------------------------------
(* The inductive step, by what a step does to the contracts and the views *)

\* A step that writes no plan and admits nothing, and whose deciding handlers
\* keep what they read.
Quiet ==
    /\ UNCHANGED <<deployment, plan, verdict>>
    /\ \A k \in Leases : lease[k] = "over" => lease'[k] = "over"
    /\ \A k \in Leases : Admitted(k)' => Admitted(k)
    /\ \A k \in Leases : Admitted(k) => Admitted(k)' \/ lease'[k] = "over"
    /\ \A k \in Leases : phase'[k] = "deciding"
          => /\ phase[k] = "deciding"
             /\ revising'[k] = revising[k]
             /\ seenIds'[k] = seenIds[k]
             /\ seenHeld'[k] = seenHeld[k]

LEMMA QuietStep ==
    ASSUME AdmissionInv, AdmissionTypeOK', Quiet
    PROVE  AdmissionInv'
<1>1. HandlersKnow'
  BY DEF AdmissionInv, AdmissionTypeOK, Quiet, HandlersKnow
<1>2. OneTurn'
  BY AdmissionAssumption DEF AdmissionInv, AdmissionTypeOK, Quiet, OneTurn
<1>3. ViewsCurrent'
  BY DEF AdmissionInv, AdmissionTypeOK, Quiet, ViewsCurrent, Serialised
<1>4. SerialisedContracts'
  BY DEF AdmissionInv, Quiet, SerialisedContracts, ExclusiveContracts, Serialised
<1>5. QED
  BY <1>1, <1>2, <1>3, <1>4 DEF AdmissionInv

\* A handler that reads (again) sees every admitted plan as it is.
LEMMA ReadStep ==
    ASSUME AdmissionInv, AdmissionTypeOK', NEW l \in Leases,
           ReadExecuting(l),
           UNCHANGED <<deployment, lease, verdict, plan>>,
           \A k \in Leases \ {l} : phase'[k] = phase[k]
                                   /\ revising'[k] = revising[k],
           phase[l] = "deciding" \/ HasTurn(l),
           revising'[l] => l \in deployment.revisers
                           /\ (Admitted(l) \/ lease[l] = "over"),
           ~revising'[l] => ~Admitted(l)
    PROVE  AdmissionInv'
<1>1. \A k \in Leases : Admitted(k)' <=> Admitted(k)
  BY DEF Admitted
<1>2. \A m \in Leases \ {l} : /\ phase'[m] = phase[m]
                              /\ revising'[m] = revising[m]
                              /\ seenIds'[m] = seenIds[m]
                              /\ seenHeld'[m] = seenHeld[m]
  BY DEF ReadExecuting, AdmissionInv, AdmissionTypeOK
<1>3. seenIds'[l] = ApprovedLeaseIds(l) /\ seenHeld'[l] = Held(l)
  BY DEF ReadExecuting, AdmissionInv, AdmissionTypeOK
<1>4. ViewsCurrent'
  <2> SUFFICES ASSUME Serialised', NEW m \in Leases, phase'[m] = "deciding",
                      NEW k \in seenIds'[m], Admitted(k)'
               PROVE  plan'[k] \subseteq seenHeld'[m]
    BY DEF ViewsCurrent
  <2>1. k \in Leases
    BY DEF AdmissionTypeOK
  <2>2. CASE m = l
    BY <2>1, <2>2, <1>1, <1>3, ReadTyped DEF AdmissionInv, ApprovedLeaseIds
  <2>3. CASE m # l
    BY <2>1, <2>3, <1>1, <1>2 DEF AdmissionInv, ViewsCurrent, Serialised
  <2>4. QED
    BY <2>2, <2>3
<1>5. SerialisedContracts'
  BY <1>1 DEF AdmissionInv, SerialisedContracts, ExclusiveContracts, Serialised
<1>6. HandlersKnow'
  <2> SUFFICES ASSUME NEW m \in Leases, phase'[m] = "deciding"
               PROVE  /\ \A k \in seenIds'[m] : Admitted(k)' \/ lease'[k] = "over"
                      /\ revising'[m] => /\ m \in deployment'.revisers
                                         /\ Admitted(m)' \/ lease'[m] = "over"
                      /\ ~revising'[m] => ~Admitted(m)'
    BY DEF HandlersKnow
  <2>0. seenIds'[m] \subseteq Leases
    BY DEF AdmissionTypeOK
  <2>1. CASE m = l
    BY <2>0, <2>1, <1>1, <1>3 DEF ApprovedLeaseIds
  <2>2. CASE m # l
    BY <2>0, <2>2, <1>1, <1>2 DEF AdmissionInv, HandlersKnow
  <2>3. QED
    BY <2>1, <2>2
<1>7. OneTurn'
  BY <1>2, AdmissionAssumption
  DEF AdmissionInv, AdmissionTypeOK, OneTurn, HasTurn, Remote
<1>8. QED
  BY <1>4, <1>5, <1>6, <1>7 DEF AdmissionInv

\* A write that was not refused as stale: every lease admitted now is one the
\* handler saw, so what it saw held is all that is held.
LEMMA WriteStep ==
    ASSUME AdmissionInv, AdmissionTypeOK', NEW l \in Leases, NEW v \in Verdict,
           NEW p \in SUBSET Files, Write(l, v, p),
           v = "approved" => p \cap seenHeld[l] = {},
           v # "approved" => ~revising[l]
    PROVE  AdmissionInv'
<1>1. /\ UNCHANGED <<deployment, lease>>
      /\ phase[l] = "deciding"
      /\ lease[l] = "active"
      /\ phase'[l] = "idle"
      /\ verdict'[l] = v /\ plan'[l] = p
      /\ ApprovedLeaseIds(l) = seenIds[l]
      /\ \A k \in Leases \ {l} : /\ verdict'[k] = verdict[k]
                                 /\ plan'[k] = plan[k]
                                 /\ phase'[k] = phase[k]
                                 /\ revising'[k] = revising[k]
                                 /\ seenIds'[k] = seenIds[k]
                                 /\ seenHeld'[k] = seenHeld[k]
  BY DEF Write, Answered, Stale, AdmissionInv, AdmissionTypeOK
<1>2. /\ \A k \in Leases \ {l} : Admitted(k)' <=> Admitted(k)
      /\ Admitted(l)' => v = "approved"
      /\ Admitted(l) => Admitted(l)'
  <2>1. Admitted(l) => v = "approved"
    BY <1>1 DEF AdmissionInv, HandlersKnow
  <2>2. QED
    BY <1>1, <2>1 DEF Admitted
<1>3. ASSUME Serialised, NEW k \in Leases \ {l}, Admitted(k)
      PROVE  plan[k] \subseteq seenHeld[l]
  <2>1. k \in seenIds[l]
    BY <1>1, <1>3 DEF ApprovedLeaseIds
  <2>2. QED
    BY <2>1, <1>1, <1>3 DEF AdmissionInv, ViewsCurrent
<1>4. SerialisedContracts'
  <2> SUFFICES ASSUME Serialised', NEW k \in Leases, NEW m \in Leases, k # m,
                      Admitted(k)', Admitted(m)'
               PROVE  plan'[k] \cap plan'[m] = {}
    BY DEF SerialisedContracts, ExclusiveContracts
  <2>1. Serialised
    BY <1>1 DEF Serialised
  <2>2. CASE k # l /\ m # l
    BY <2>1, <2>2, <1>1, <1>2
    DEF AdmissionInv, SerialisedContracts, ExclusiveContracts
  <2>3. CASE k = l
    BY <2>1, <2>3, <1>1, <1>2, <1>3
  <2>4. CASE m = l
    BY <2>1, <2>4, <1>1, <1>2, <1>3
  <2>5. QED
    BY <2>2, <2>3, <2>4
<1>5. ASSUME NEW m \in Leases \ {l}, phase[m] = "deciding",
             l \in seenIds[m], Serialised
      PROVE  FALSE
  <2>1. Admitted(l)
    BY <1>1, <1>5 DEF AdmissionInv, HandlersKnow
  <2>2. revising[l] /\ l \in deployment.revisers
    BY <2>1, <1>1 DEF AdmissionInv, HandlersKnow
  <2>3. deployment.remote = Leases
    BY <2>2, <1>5 DEF Serialised
  <2>4. QED
    BY <2>3, <1>1, <1>5 DEF AdmissionInv, OneTurn
<1>6. ViewsCurrent'
  <2> SUFFICES ASSUME Serialised', NEW m \in Leases, phase'[m] = "deciding",
                      NEW k \in seenIds'[m], Admitted(k)'
               PROVE  plan'[k] \subseteq seenHeld'[m]
    BY DEF ViewsCurrent
  <2>1. /\ Serialised
        /\ m # l
        /\ k \in Leases
        /\ phase[m] = "deciding"
        /\ k \in seenIds[m]
    BY <1>1 DEF Serialised, AdmissionTypeOK
  <2>2. k # l
    BY <2>1, <1>5
  <2>3. QED
    BY <2>1, <2>2, <1>1, <1>2 DEF AdmissionInv, ViewsCurrent
<1>7. HandlersKnow'
  <2> SUFFICES ASSUME NEW m \in Leases, phase'[m] = "deciding"
               PROVE  /\ \A k \in seenIds'[m] : Admitted(k)' \/ lease'[k] = "over"
                      /\ revising'[m] => /\ m \in deployment'.revisers
                                         /\ Admitted(m)' \/ lease'[m] = "over"
                      /\ ~revising'[m] => ~Admitted(m)'
    BY DEF HandlersKnow
  <2>1. m # l /\ phase[m] = "deciding" /\ seenIds'[m] \subseteq Leases
    BY <1>1 DEF AdmissionTypeOK
  <2>2. QED
    BY <2>1, <1>1, <1>2 DEF AdmissionInv, HandlersKnow
<1>8. OneTurn'
  BY <1>1, AdmissionAssumption DEF AdmissionInv, AdmissionTypeOK, OneTurn
<1>9. QED
  BY <1>4, <1>6, <1>7, <1>8 DEF AdmissionInv

\* A new lease has the name of one that no handler has read, or has none: what
\* handlers know and see is of other leases.
LEMMA LeaseStep ==
    ASSUME AdmissionInv, AdmissionTypeOK', NEW l \in Leases, Lease(l)
    PROVE  AdmissionInv'
<1>1. /\ lease'[l] = "active" /\ verdict'[l] = "none"
      /\ \A k \in Leases \ {l} : /\ lease'[k] = lease[k]
                                 /\ verdict'[k] = verdict[k]
                                 /\ plan'[k] = plan[k]
      /\ UNCHANGED <<deployment, phase, revising, seenIds, seenHeld>>
  BY DEF Lease, AdmissionInv, AdmissionTypeOK
<1>2. /\ ~Admitted(l) /\ ~Admitted(l)'
      /\ \A k \in Leases \ {l} : Admitted(k)' <=> Admitted(k)
  BY <1>1 DEF Lease, Forgotten, Admitted
<1>3. \A m \in Leases : phase[m] = "deciding" =>
         /\ l \notin seenIds[m]
         /\ m = l => ~revising[m]
  BY <1>2 DEF Lease, Forgotten, AdmissionInv, HandlersKnow
<1>4. HandlersKnow'
  BY <1>1, <1>2, <1>3 DEF AdmissionInv, AdmissionTypeOK, HandlersKnow
<1>5. OneTurn'
  BY <1>1 DEF AdmissionInv, OneTurn
<1>6. ViewsCurrent'
  BY <1>1, <1>2, <1>3 DEF AdmissionInv, AdmissionTypeOK, ViewsCurrent, Serialised
<1>7. SerialisedContracts'
  BY <1>1, <1>2
  DEF AdmissionInv, SerialisedContracts, ExclusiveContracts, Serialised
<1>8. QED
  BY <1>4, <1>5, <1>6, <1>7 DEF AdmissionInv

\* Every step of the specification is one of the four kinds.
LEMMA AdmissionInvStep ==
    ASSUME AdmissionInv, [AdmissionNext]_vars
    PROVE  AdmissionInv'
<1>0. AdmissionTypeOK /\ AdmissionTypeOK'
  BY AdmissionTypedStep DEF AdmissionInv
<1>1. CASE UNCHANGED vars
  <2>1. Quiet
    BY <1>1 DEF vars, Quiet, Admitted
  <2>2. QED
    BY <2>1, <1>0, QuietStep
<1>2. ASSUME NEW l \in Leases, Lease(l) \/ Settle(l)
      PROVE  AdmissionInv'
  <2>1. CASE Lease(l)
    BY <1>0, <2>1, LeaseStep
  <2>2. CASE Settle(l)
    <3>1. Quiet
      BY <1>0, <2>2 DEF Settle, Quiet, Admitted, AdmissionTypeOK
    <3>2. QED
      BY <3>1, <1>0, QuietStep
  <2>3. QED
    BY <1>2, <2>1, <2>2
<1>3. ASSUME NEW l \in Leases, NEW p \in SUBSET Files,
             SubmitPlan(l, p) \/ AskWider(l, p)
      PROVE  AdmissionInv'
  <2>1. PICK r \in BOOLEAN, q \in SUBSET Files :
           /\ Begin(l, r, q)
           /\ r => l \in deployment.revisers /\ Admitted(l)
           /\ ~r => ~Admitted(l)
    BY <1>0, <1>3 DEF SubmitPlan, AskWider, AdmissionTypeOK
  <2>2. /\ revising'[l] = r
        /\ HasTurn(l)
        /\ ReadExecuting(l)
        /\ UNCHANGED <<deployment, lease, verdict, plan>>
        /\ \A k \in Leases \ {l} : phase'[k] = phase[k]
                                   /\ revising'[k] = revising[k]
    BY <1>0, <2>1 DEF Begin, AdmissionTypeOK
  <2>3. QED
    BY <2>1, <2>2, <1>0, ReadStep
<1>4. ASSUME NEW l \in Leases, DecideAgain(l)
      PROVE  AdmissionInv'
  <2>1. /\ phase[l] = "deciding"
        /\ ReadExecuting(l)
        /\ UNCHANGED <<deployment, lease, verdict, plan, phase, revising>>
    BY <1>4 DEF DecideAgain
  <2>2. /\ revising'[l] => l \in deployment.revisers
                           /\ (Admitted(l) \/ lease[l] = "over")
        /\ ~revising'[l] => ~Admitted(l)
    BY <2>1 DEF AdmissionInv, HandlersKnow
  <2>3. QED
    BY <2>1, <2>2, <1>0, ReadStep
<1>5. ASSUME NEW l \in Leases, LeaseLost(l) \/ Contended(l) \/ RefuseRevision(l)
      PROVE  AdmissionInv'
  <2>1. Answered(l) /\ UNCHANGED <<verdict, plan>>
    BY <1>5 DEF LeaseLost, Contended, RefuseRevision
  <2>2. Quiet
    BY <1>0, <2>1 DEF Answered, Quiet, Admitted, AdmissionTypeOK
  <2>3. QED
    BY <2>2, <1>0, QuietStep
<1>6. ASSUME NEW l \in Leases, Approve(l) \/ ApprovePart(l) \/ RefuseFirst(l)
      PROVE  AdmissionInv'
  <2>1. CASE Approve(l)
    BY <2>1, <1>0, WriteStep DEF Approve, Verdict, AdmissionTypeOK
  <2>2. CASE ApprovePart(l)
    <3>1. ask[l] \ seenHeld[l] \in SUBSET Files
      BY <1>0 DEF AdmissionTypeOK
    <3>2. QED
      BY <2>2, <3>1, <1>0, WriteStep DEF ApprovePart, Verdict
  <2>3. CASE RefuseFirst(l)
    BY <2>3, <1>0, WriteStep DEF RefuseFirst, Verdict, AdmissionTypeOK
  <2>4. QED
    BY <1>6, <2>1, <2>2, <2>3
<1>7. QED
  BY <1>1, <1>2, <1>3, <1>4, <1>5, <1>6 DEF AdmissionNext, Decide

-----------------------------------------------------------------------------
(* Theorems *)

\* The inductive invariant holds throughout.
THEOREM AdmissionInvariant == AdmissionSpec => []AdmissionInv
  BY AdmissionInvInit, AdmissionInvStep, PTL DEF AdmissionSpec

\* The arbitration handlers keep the shape of their state, and a remote
\* admission never spends more rounds than its budget.
THEOREM AdmissionTypeCorrect == AdmissionSpec => []AdmissionTypeOK
<1>1. AdmissionInv => AdmissionTypeOK
  BY DEF AdmissionInv
<1>2. QED
  BY <1>1, AdmissionInvariant, PTL

\* Where nobody revises an admitted plan, or one control plane arbitrates
\* everything, no two executing plans ever hold one resource.
THEOREM SerialisedContractsHold == AdmissionSpec => []SerialisedContracts
<1>1. AdmissionInv => SerialisedContracts
  BY DEF AdmissionInv
<1>2. QED
  BY <1>1, AdmissionInvariant, PTL

\* An executing task keeps an admitted contract until its lease ends.
THEOREM ContractsStandHolds == AdmissionSpec => ContractsStand
<1>1. AdmissionInv /\ [AdmissionNext]_vars
      => [\A l \in Leases : Admitted(l) /\ lease'[l] = "active"
             => verdict'[l] = "approved"]_vars
  <2> SUFFICES ASSUME AdmissionInv, AdmissionNext, NEW k \in Leases, Admitted(k),
                      lease'[k] = "active"
               PROVE  verdict'[k] = "approved"
    BY DEF Admitted
  <2>1. verdict[k] = "approved"
    BY DEF Admitted
  <2>2. ASSUME NEW l \in Leases, NEW v, NEW p, Write(l, v, p),
               v # "approved" => ~revising[l]
        PROVE  verdict'[k] = "approved"
    <3>1. phase[l] = "deciding" /\ verdict' = [verdict EXCEPT ![l] = v]
      BY <2>2 DEF Write
    <3>2. CASE k = l
      <4>1. revising[l]
        BY <3>1, <3>2 DEF AdmissionInv, HandlersKnow
      <4>2. QED
        BY <3>1, <3>2, <4>1, <2>2 DEF AdmissionInv, AdmissionTypeOK
    <3>3. CASE k # l
      BY <3>1, <3>3, <2>1 DEF AdmissionInv, AdmissionTypeOK
    <3>4. QED
      BY <3>2, <3>3
  <2>3. ASSUME NEW l \in Leases, Decide(l)
        PROVE  verdict'[k] = "approved"
    <3>1. CASE Approve(l) \/ ApprovePart(l) \/ RefuseFirst(l)
      BY <3>1, <2>2 DEF Approve, ApprovePart, RefuseFirst
    <3>2. CASE ~(Approve(l) \/ ApprovePart(l) \/ RefuseFirst(l))
      BY <3>2, <2>1, <2>3
      DEF Decide, LeaseLost, DecideAgain, Contended, RefuseRevision
    <3>3. QED
      BY <3>1, <3>2
  <2>4. ASSUME NEW l \in Leases, Lease(l)
        PROVE  verdict'[k] = "approved"
    <3>1. k # l
      BY <2>4 DEF Lease, Forgotten, Admitted
    <3>2. QED
      BY <2>1, <2>4, <3>1 DEF Lease, AdmissionInv, AdmissionTypeOK
  <2>5. QED
    BY <2>1, <2>3, <2>4 DEF AdmissionNext, Settle, SubmitPlan, AskWider, Begin
<1>2. QED
  BY <1>1, AdmissionInvariant, PTL DEF AdmissionSpec, ContractsStand
=============================================================================
