--------------------------- MODULE PlanAdmission ---------------------------
(***************************************************************************)
(* Arbitration of the plans of the work leases of one repository and       *)
(* branch.  A handler reads the plans admitted so far (executingPlans),    *)
(* decides its own plan against them (PlanAdmissionController.admit) and   *)
(* writes the decision with saveWorkLeasePlan, a compare-and-swap on the   *)
(* SET OF ADMITTED LEASE IDS the decision was read from.                   *)
(*                                                                         *)
(* Remote workers are arbitrated by the control plane, which runs at most  *)
(* one admission or widening per repository at a time (the `admitting`     *)
(* chain of workerOperations).  Tasks a local run executes are arbitrated  *)
(* by LeasePlanAuthority, which is in no such chain.  A deployment says    *)
(* which leases are remote and whose agents ask to revise a plan that is   *)
(* already admitted.                                                       *)
(*                                                                         *)
(* A plan is the set of resources it would hold exclusively: two plans     *)
(* collide when they share one.  The conflict scores are abstracted: the   *)
(* controller never approves a plan that collides with a plan it was       *)
(* shown, and may refuse any other plan too.                               *)
(***************************************************************************)
EXTENDS Integers, FiniteSets

CONSTANTS
    Leases,         \* work leases of the repository
    Files,          \* resources a plan may claim
    Deployments,    \* records [remote, revisers], sets of leases
    MaxAttempts     \* maxAdmissionAttempts: rounds of one remote admission

ASSUME AdmissionAssumption ==
    /\ IsFiniteSet(Leases)
    /\ \A d \in Deployments : d.remote \subseteq Leases /\ d.revisers \subseteq Leases
    /\ MaxAttempts \in Nat \ {0}

VARIABLES
    deployment,     \* fixed: how the leases are arbitrated
    lease,          \* work_leases.status, abstracted
    verdict,        \* work_leases.plan.admission.status
    plan,           \* work_leases.plan.plan
    phase,          \* the admission handler of each lease
    revising,       \* the handler revises an admitted plan
    ask,            \* the plan the handler was given
    seenIds,        \* approvedLeaseIds the handler read
    seenHeld,       \* what the plans of those leases held
    attempts        \* rounds the handler has spent

vars == <<deployment, lease, verdict, plan, phase, revising, ask, seenIds,
          seenHeld, attempts>>

LeaseState == {"none", "active", "over"}
Verdict    == {"none", "approved", "refused"}
Phase      == {"idle", "deciding"}

Remote(l) == l \in deployment.remote

\* planAdmissionApproved, for an active lease.
Admitted(l) == lease[l] = "active" /\ verdict[l] = "approved"

\* executingPlans / approvedPlanLeaseIds: the other admitted leases ...
ApprovedLeaseIds(l) == {k \in Leases : k # l /\ Admitted(k)}

\* ... and the resources their plans hold.
Held(l) == UNION {plan[k] : k \in ApprovedLeaseIds(l)}

\* Fault: admissions of one repository are not serialised.
HasTurnUnchained(l) == l \in Leases

\* The control plane's per-repository chain is free for l; local runs need
\* no turn.
HasTurn(l) ==
    Remote(l) => \A k \in deployment.remote : phase[k] = "idle"

-----------------------------------------------------------------------------
(* A lease is minted; it is settled, released or expires. *)

\* Nobody holds or has read anything of l: a lease that is minted next may
\* have its name, so leases never run out.
Forgotten(l) ==
    /\ lease[l] = "over"
    /\ phase[l] = "idle"
    /\ \A k \in Leases : l \notin seenIds[k]

Lease(l) ==
    /\ lease[l] = "none" \/ Forgotten(l)
    /\ lease' = [lease EXCEPT ![l] = "active"]
    /\ verdict' = [verdict EXCEPT ![l] = "none"]
    /\ plan' = [plan EXCEPT ![l] = {}]
    /\ UNCHANGED <<deployment, phase, revising, ask, seenIds, seenHeld, attempts>>

Settle(l) ==
    /\ lease[l] = "active"
    /\ lease' = [lease EXCEPT ![l] = "over"]
    /\ UNCHANGED <<deployment, verdict, plan, phase, revising, ask, seenIds,
                   seenHeld, attempts>>

\* One read of the executing plans, with the ids the write will carry.
ReadExecuting(l) ==
    /\ seenIds' = [seenIds EXCEPT ![l] = ApprovedLeaseIds(l)]
    /\ seenHeld' = [seenHeld EXCEPT ![l] = Held(l)]

\* The solo fast path of a remote admission is a round outside its budget.
Solo(l, r) == Remote(l) /\ ~r /\ ApprovedLeaseIds(l) = {}

\* A handler starts: it checks its lease, takes its turn and reads.
Begin(l, r, p) ==
    /\ phase[l] = "idle"
    /\ lease[l] = "active"
    /\ HasTurn(l)
    /\ phase' = [phase EXCEPT ![l] = "deciding"]
    /\ revising' = [revising EXCEPT ![l] = r]
    /\ ask' = [ask EXCEPT ![l] = p]
    /\ attempts' = [attempts EXCEPT ![l] = IF Solo(l, r) THEN 0 ELSE 1]
    /\ ReadExecuting(l)
    /\ UNCHANGED <<deployment, lease, verdict, plan>>

\* admitWorkPlan / LeasePlanAuthority.admit: the first plan, or the same plan
\* submitted again after a refusal.
SubmitPlan(l, p) == ~Admitted(l) /\ Begin(l, FALSE, p)

\* arbitrateScopeChange merges the request into the admitted plan; a local
\* run submits the whole revised plan (revising = true).
AskWider(l, p) ==
    /\ l \in deployment.revisers
    /\ Admitted(l)
    /\ Begin(l, TRUE, IF Remote(l) THEN plan[l] \cup p ELSE p)

-----------------------------------------------------------------------------
(* saveWorkLeasePlan, and what the handler does with its answer *)

\* Fault: the write compares how many leases are admitted, not which.
StaleByCount(l) == Cardinality(ApprovedLeaseIds(l)) # Cardinality(seenIds[l])

\* The admitted set is no longer the one the decision was read from.
Stale(l) == ApprovedLeaseIds(l) # seenIds[l]

\* Fault: the budget is never spent.
GivesUpNever(l) == Remote(l) /\ revising[l]

\* A remote admission gives up after its budget, a widening at once; a local
\* admission decides again for as long as it takes.
GivesUp(l) == Remote(l) /\ (revising[l] \/ attempts[l] = MaxAttempts)

\* The handler returns, and its locals with it.
Answered(l) ==
    /\ phase' = [phase EXCEPT ![l] = "idle"]
    /\ revising' = [revising EXCEPT ![l] = FALSE]
    /\ ask' = [ask EXCEPT ![l] = {}]
    /\ seenIds' = [seenIds EXCEPT ![l] = {}]
    /\ seenHeld' = [seenHeld EXCEPT ![l] = {}]
    /\ attempts' = [attempts EXCEPT ![l] = 0]
    /\ UNCHANGED <<deployment, lease>>

\* outcome lease_lost: nothing is written.
LeaseLost(l) ==
    /\ phase[l] = "deciding"
    /\ lease[l] # "active"
    /\ Answered(l)
    /\ UNCHANGED <<verdict, plan>>

\* Fault: a round that was lost is not counted.
DecideAgainUncounted(l) ==
    /\ phase[l] = "deciding"
    /\ lease[l] = "active"
    /\ Stale(l)
    /\ ~GivesUp(l)
    /\ ReadExecuting(l)
    /\ UNCHANGED <<deployment, lease, verdict, plan, phase, revising, ask, attempts>>

\* Fault: a stale decision is written again from the same view.
DecideAgainBlind(l) ==
    /\ phase[l] = "deciding"
    /\ lease[l] = "active"
    /\ Stale(l)
    /\ ~GivesUp(l)
    /\ attempts' = [attempts EXCEPT ![l] =
                      IF Remote(l) THEN attempts[l] + 1 ELSE attempts[l]]
    /\ UNCHANGED <<deployment, lease, verdict, plan, phase, revising, ask,
                   seenIds, seenHeld>>

\* outcome stale, decided again against the new executing set.
DecideAgain(l) ==
    /\ phase[l] = "deciding"
    /\ lease[l] = "active"
    /\ Stale(l)
    /\ ~GivesUp(l)
    /\ attempts' = [attempts EXCEPT ![l] =
                      IF Remote(l) THEN attempts[l] + 1 ELSE attempts[l]]
    /\ ReadExecuting(l)
    /\ UNCHANGED <<deployment, lease, verdict, plan, phase, revising, ask>>

\* outcome stale, answered "ask again": nothing is written.
Contended(l) ==
    /\ phase[l] = "deciding"
    /\ lease[l] = "active"
    /\ Stale(l)
    /\ GivesUp(l)
    /\ Answered(l)
    /\ UNCHANGED <<verdict, plan>>

\* outcome saved: the decision v with plan p replaces what the lease held.
Write(l, v, p) ==
    /\ phase[l] = "deciding"
    /\ lease[l] = "active"
    /\ ~Stale(l)
    /\ verdict' = [verdict EXCEPT ![l] = v]
    /\ plan' = [plan EXCEPT ![l] = p]
    /\ Answered(l)

\* admit approves the whole plan: it collides with nothing it was shown.
Approve(l) ==
    /\ ask[l] \cap seenHeld[l] = {}
    /\ Write(l, "approved", ask[l])

\* admit approves what is free of a first plan (partial admission).
ApprovePart(l) ==
    /\ ~revising[l]
    /\ ask[l] \cap seenHeld[l] # {}
    /\ ask[l] \ seenHeld[l] # {}
    /\ Write(l, "approved", ask[l] \ seenHeld[l])

\* admit sequences or blocks a first plan behind executing work, or a person
\* has yet to approve it: the lease records the plan and the refusal.
RefuseFirst(l) ==
    /\ ~revising[l]
    /\ Write(l, "refused", ask[l])

\* Fault: a refused revision is recorded like any other refusal.
RefuseRevisionWritten(l) ==
    /\ revising[l]
    /\ Write(l, "refused", ask[l])

\* A refused revision is not written: the old contract stands.
RefuseRevision(l) ==
    /\ phase[l] = "deciding"
    /\ revising[l]
    /\ Answered(l)
    /\ UNCHANGED <<verdict, plan>>

-----------------------------------------------------------------------------
AdmissionInit ==
    /\ deployment \in Deployments
    /\ lease = [l \in Leases |-> "none"]
    /\ verdict = [l \in Leases |-> "none"]
    /\ plan = [l \in Leases |-> {}]
    /\ phase = [l \in Leases |-> "idle"]
    /\ revising = [l \in Leases |-> FALSE]
    /\ ask = [l \in Leases |-> {}]
    /\ seenIds = [l \in Leases |-> {}]
    /\ seenHeld = [l \in Leases |-> {}]
    /\ attempts = [l \in Leases |-> 0]

\* The handler of l finishes its round.
Decide(l) ==
    \/ LeaseLost(l)
    \/ DecideAgain(l)
    \/ Contended(l)
    \/ Approve(l)
    \/ ApprovePart(l)
    \/ RefuseFirst(l)
    \/ RefuseRevision(l)

AdmissionNext ==
    \E l \in Leases :
       \/ Lease(l)
       \/ Settle(l)
       \/ \E p \in SUBSET Files \ {{}} : SubmitPlan(l, p)
       \/ \E p \in SUBSET Files \ {{}} : AskWider(l, p)
       \/ Decide(l)

\* A handler that was started runs on: it never waits for another handler.
AdmissionSpec ==
    /\ AdmissionInit
    /\ [][AdmissionNext]_vars
    /\ \A l \in Leases : WF_vars(Decide(l))

-----------------------------------------------------------------------------
(* Properties *)

\* The shape of the state; a lease that was not minted has no verdict.
AdmissionTypeOK ==
    /\ deployment \in Deployments
    /\ lease \in [Leases -> LeaseState]
    /\ verdict \in [Leases -> Verdict]
    /\ plan \in [Leases -> SUBSET Files]
    /\ phase \in [Leases -> Phase]
    /\ revising \in [Leases -> BOOLEAN]
    /\ ask \in [Leases -> SUBSET Files]
    /\ seenIds \in [Leases -> SUBSET Leases]
    /\ seenHeld \in [Leases -> SUBSET Files]
    /\ attempts \in [Leases -> 0..MaxAttempts]
    /\ \A l \in Leases : lease[l] = "none" => verdict[l] = "none"

\* No two executing plans hold one resource: "two workers arbitrating
\* overlapping plans at the same instant cannot both be approved"
\* (docs/protocol/remote-workers.md).
ExclusiveContracts ==
    \A l, k \in Leases :
       l # k /\ Admitted(l) /\ Admitted(k) => plan[l] \cap plan[k] = {}

\* The deployments in which the compare-and-swap is enough: nobody revises an
\* admitted plan, or every handler takes its turn in one control plane.
Serialised ==
    deployment.revisers = {} \/ deployment.remote = Leases

\* saveWorkLeasePlan's check of the admitted ids keeps executing plans
\* disjoint, whatever is admitted, revised, settled or expires between a
\* handler's read and its write.
SerialisedContracts == Serialised => ExclusiveContracts

\* What a handler that may still write has read is still true: a lease it saw
\* admitted, and that is still admitted, holds nothing it did not see held.
ViewsCurrent ==
    Serialised =>
      \A l \in Leases : phase[l] = "deciding" =>
         \A k \in seenIds[l] : Admitted(k) => plan[k] \subseteq seenHeld[l]

\* What a handler knows of leases: a lease it saw admitted is still admitted
\* unless it ended, and its own lease is admitted exactly when it revises.
HandlersKnow ==
    \A l \in Leases : phase[l] = "deciding" =>
       /\ \A k \in seenIds[l] : Admitted(k) \/ lease[k] = "over"
       /\ revising[l] => /\ l \in deployment.revisers
                         /\ Admitted(l) \/ lease[l] = "over"
       /\ ~revising[l] => ~Admitted(l)

\* The control plane runs one handler of a repository at a time.
OneTurn ==
    \A l, k \in deployment.remote :
       phase[l] = "deciding" /\ phase[k] = "deciding" => l = k

\* The inductive invariant behind SerialisedContracts.
AdmissionInv ==
    /\ AdmissionTypeOK
    /\ HandlersKnow
    /\ OneTurn
    /\ ViewsCurrent
    /\ SerialisedContracts

\* A contract, once admitted, is only replaced by an admitted contract: no
\* late or refused answer takes an executing task's plan away.
ContractsStand ==
    [][\A l \in Leases : Admitted(l) /\ lease'[l] = "active"
          => verdict'[l] = "approved"]_vars

\* A remote admission is answered, however many plans are admitted and leases
\* end around it: its budget of rounds ends it.
EveryPlanAnswered ==
    \A l \in Leases :
       phase[l] = "deciding" /\ Remote(l) ~> phase[l] = "idle"

\* A local admission has no budget, and need not end; but it decides again
\* forever only while the plans of others are admitted over and over.  Nobody
\* waits for a handler that waits for him.
LocalWaitsOnProgress ==
    \A l \in Leases :
       <>[](phase[l] = "deciding" /\ ~Remote(l)) =>
          []<><<\E k \in Leases \ {l} : ~Admitted(k) /\ Admitted(k)'>>_vars
=============================================================================
