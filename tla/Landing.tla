------------------------------ MODULE Landing ------------------------------
(***************************************************************************)
(* How finished work reaches the canonical branch: IntegrationService's    *)
(* integrate, and the four callers that retry, replay, salvage, repair or  *)
(* give up around it.  Remote results are graded against every advance of  *)
(* canonical before they may land on it; local turns land on whatever is   *)
(* there and ask their agent to reconcile a conflict; workspace edits and  *)
(* rollbacks land on their exact base or not at all.                       *)
(*                                                                         *)
(* A step ends where the code awaits something that lets another caller    *)
(* run, or that may throw or be cut off by a restart: reading canonical,   *)
(* building and validating the candidate, moving the branch, reading it    *)
(* back, completing the task's row, queueing what is left of its work.     *)
(*                                                                         *)
(* Abstractions.  A file is the set of the edits it holds, one per task,   *)
(* so a three-way merge is set algebra; whether two edits of one file      *)
(* collide, and how a validation ends, is a choice.  Hunks of a file that  *)
(* are salvaged one by one are the file.  A follow-up is another round of  *)
(* its task.                                                               *)
(***************************************************************************)
EXTENDS Naturals, Sequences, FiniteSets

CONSTANTS
    Files,
    Remote,         \* tasks whose results a remote worker posts
    Local,          \* turns of the in-process coordinator
    Overlays,       \* submissions of a person's workspace
    Rollbacks,
    Plan,           \* per task: expectedFiles, the files it may write
    Outputs,        \* per task: the sets of files its agent may come to write
    Reads,          \* per task: the files its plan depends on
    MaxStarts,      \* bound: how often tasks are started, all told
    MaxCrashes      \* bound: restarts of the control plane

Tasks == Remote \cup Local \cup Overlays \cup Rollbacks

ASSUME LandingAssumption ==
    /\ Plan \in [Tasks -> SUBSET Files]
    /\ Outputs \in [Tasks -> SUBSET SUBSET Files]
    /\ \A t \in Tasks : \A F \in Outputs[t] : F \subseteq Plan[t]
    /\ Reads \in [Tasks -> SUBSET Files]
    /\ MaxStarts \in Nat /\ MaxCrashes \in Nat
    /\ Rollbacks \cap (Remote \cup Local \cup Overlays) = {}
    /\ Local \cap (Remote \cup Overlays) = {}
    /\ Remote \cap Overlays = {}

VARIABLES
    canonical,      \* the revisions of the branch
    turn,           \* per task: where its work stands
    used            \* starts and restarts so far

landingVars == <<canonical, turn, used>>

StaleReassessmentBudget == 1

Tree == [Files -> SUBSET Tasks]

Seed == [tree |-> [f \in Files |-> {}], by |-> "nobody", base |-> 1,
         recovered |-> FALSE]

Result == {"none", "integrated", "empty", "conflict", "validation_failed",
           "policy_failed", "stale"}

\* The steps of a turn: its agent runs; a remote result is checked, and
\* graded; integrate builds a candidate, validates and promotes it; it answers;
\* a remote task's row is integrated before its remainder is queued.
Stage == {"queued", "running", "checked", "ready", "candidate", "answered",
          "reported", "settled", "failed"}

\* Nobody is working on the turn.
Rest == {"queued", "settled", "failed"}

Exact == Overlays \cup Rollbacks

\* What a turn that has not started holds.  A follow-up was asked for some
\* files.  A changeset whose repair is under way is kept as the earlier one.
\* Once settled, files are owed by a follow-up, or told to be outstanding, or
\* the remainder was cut off before anybody was asked for it.
Fresh ==
    [stage |-> "queued", asked |-> {},
     base |-> 1, wrote |-> {}, work |-> Seed.tree, prev |-> 1, seen |-> 1, replay |-> 0,
     textual |-> FALSE, lost |-> FALSE, reassessed |-> 0,
     kept |-> {}, held |-> {}, result |-> "none",
     repaired |-> FALSE, first |-> "none", earlier |-> {}, resumed |-> FALSE,
     owed |-> {}, told |-> {}, cut |-> FALSE]

-----------------------------------------------------------------------------
(* Revisions and merges *)

Latest == Len(canonical)
At(r) == canonical[r].tree

\* listChangedFiles between two revisions.
Advance(b, r) == {f \in Files : At(b)[f] # At(r)[f]}

\* assessReplay: what the advance touched that the plan knows, or writes.
Semantic(t, b, r) == Advance(b, r) \cap Reads[t] # {}
Textual(t, b, r)  == (Advance(b, r) \cap Plan[t]) \ Reads[t] # {}

\* The files of t's changeset: its worktree against its base.
Patches(t) == {f \in Files : turn[t].work[f] # At(turn[t].base)[f]}

\* The three-way merge of t's change of file f into revision p.
Merge(t, f, p) ==
    (At(p)[f] \ (At(turn[t].base)[f] \ turn[t].work[f]))
        \cup (turn[t].work[f] \ At(turn[t].base)[f])

\* Fault: the worktree's files are committed as they are.
CandidateUnmerged(t, F, p) ==
    [f \in Files |-> IF f \in F THEN turn[t].work[f] ELSE At(p)[f]]

\* The candidate: revision p with the files F of t's changeset merged in.
Candidate(t, F, p) ==
    [f \in Files |-> IF f \in F THEN Merge(t, f, p) ELSE At(p)[f]]

\* Files on which t's change may collide with what canonical did since.
Contestable(t, p) ==
    {f \in Patches(t) : At(p)[f] \notin {At(turn[t].base)[f], turn[t].work[f]}}

\* Recovery is over: it resumes one changeset after another, then serves.
Serving == \A t \in Tasks : ~turn[t].resumed

Set(t, rec) == turn' = [turn EXCEPT ![t] = rec]

Moves(t, from, to) ==
    /\ turn[t].stage = from
    /\ Set(t, [turn[t] EXCEPT !.stage = to])
    /\ UNCHANGED <<canonical, used>>

-----------------------------------------------------------------------------
(* Starting work *)

\* The base is read, and the files F of a worktree of it are written.
Start(t, F, work) ==
    /\ turn[t].stage = "queued"
    /\ Serving
    /\ used.starts < MaxStarts
    /\ Set(t, [turn[t] EXCEPT !.stage = IF t \in Remote THEN "running" ELSE "ready",
                              !.base = Latest, !.wrote = F, !.work = work])
    /\ used' = [used EXCEPT !.starts = @ + 1]
    /\ UNCHANGED canonical

Edited(t, F) ==
    [f \in Files |-> IF f \in F THEN At(Latest)[f] \cup {t} ELSE At(Latest)[f]]

StartWork(t) ==
    /\ t \notin Rollbacks
    /\ \E F \in IF turn[t].asked # {} THEN {turn[t].asked} ELSE Outputs[t] :
           Start(t, F, Edited(t, F))

StartRollback(t) ==
    /\ t \in Rollbacks
    /\ \E r \in 1..Latest :
           /\ Advance(r, Latest) \cap Plan[t] # {}
           /\ Start(t, Plan[t], [f \in Files |-> IF f \in Plan[t] THEN At(r)[f]
                                                ELSE At(Latest)[f]])

\* A follow-up task was submitted for what was held back.
StartFollowUp(t) ==
    /\ turn[t].stage = "settled"
    /\ turn[t].owed # {}
    /\ Set(t, [Fresh EXCEPT !.asked = turn[t].owed])
    /\ UNCHANGED <<canonical, used>>

\* The task is returned to the queue to plan again, ...
Queued(t) == [Fresh EXCEPT !.asked = turn[t].asked]

\* ... or has failed, ...
Failed(t) == [Fresh EXCEPT !.stage = "failed"]

\* ... or is integrated, with what a follow-up is owed.
Done(t, owed) ==
    [Fresh EXCEPT !.stage = "settled", !.wrote = turn[t].wrote,
                                 !.owed = owed]

\* An in-process task that lost its process: its row is claimed and reaped,
\* if it has one.
Dropped(t) ==
    IF t \in Remote THEN {Queued(t)}
    ELSE IF t \in Local THEN {Queued(t), Failed(t)}
    ELSE {Failed(t)}

Ends(t, after) == Set(t, after) /\ UNCHANGED <<canonical, used>>

Requeue(t) == Ends(t, Queued(t))

-----------------------------------------------------------------------------
(* The remote result's replay grading *)

\* Canonical has moved into what the result knows: it replans.  The check
\* before a run is created grades what is current then, ...
BeforeRun(t) ==
    /\ t \in Remote
    /\ turn[t].stage = "running"
    /\ Serving
    /\ IF Semantic(t, turn[t].base, Latest)
       THEN Requeue(t)
       ELSE Moves(t, "running", "checked")

\* ... and pinReplayOnto grades revision r, and permits landing on exactly r.
Pinned(t, r) == [turn[t] EXCEPT !.stage = "ready", !.replay = r,
                                !.textual = Textual(t, turn[t].base, r)]

\* Once any review is over, and before the lease is settled.
BeforeIntegration(t) ==
    /\ turn[t].stage = "checked"
    /\ IF turn[t].base = Latest
       THEN Moves(t, "checked", "ready")
       ELSE IF Semantic(t, turn[t].base, Latest)
       THEN Requeue(t)
       ELSE Set(t, Pinned(t, Latest)) /\ UNCHANGED <<canonical, used>>

\* A review of the changeset, where there is one, is refused or runs out.
ReviewRefused(t) ==
    /\ \/ t \in Remote /\ turn[t].stage = "checked"
       \/ t \in Exact /\ turn[t].stage = "ready" /\ ~turn[t].resumed
       \/ t \in Local /\ turn[t].stage = "ready" /\ turn[t].repaired /\ ~turn[t].resumed
    /\ Ends(t, Failed(t))

\* Fault: the revision that won the race is pinned without being graded.
ReassessUngraded(t) ==
    /\ t \in Remote
    /\ ~turn[t].resumed
    /\ turn[t].stage = "answered"
    /\ turn[t].result = "stale"
    /\ IF turn[t].reassessed + 1 > StaleReassessmentBudget
       THEN Requeue(t)
       ELSE /\ Set(t, [Pinned(t, turn[t].seen) EXCEPT
                         !.lost = TRUE, !.reassessed = @ + 1,
                         !.result = "none", !.seen = 1])
            /\ UNCHANGED <<canonical, used>>

\* The integration lost a race: graded once more against what beat it.
Reassess(t) ==
    /\ t \in Remote
    /\ ~turn[t].resumed
    /\ turn[t].stage = "answered"
    /\ turn[t].result = "stale"
    /\ IF \/ turn[t].reassessed + 1 > StaleReassessmentBudget
          \/ Semantic(t, turn[t].base, turn[t].seen)
       THEN Requeue(t)
       ELSE /\ Set(t, [Pinned(t, turn[t].seen) EXCEPT
                         !.lost = TRUE, !.reassessed = @ + 1,
                         !.result = "none", !.seen = 1])
            /\ UNCHANGED <<canonical, used>>

-----------------------------------------------------------------------------
(* integrate *)

\* The answer: what landed had something held back, what did not has not.
Answered(t, result) ==
    [turn[t] EXCEPT !.stage = "answered", !.result = result,
                    !.seen = IF result = "stale" THEN Latest ELSE 1, !.prev = 1,
                    !.kept = {}, !.held = IF result = "integrated" THEN @ ELSE {}]

Answers(t, result) == Set(t, Answered(t, result)) /\ UNCHANGED <<canonical, used>>

\* Fault: recovery salvages too, with nobody to be asked for the remainder.
SalvageResumed(t) ==
    \/ t \in Remote /\ turn[t].asked = {}
    \/ t \in Local /\ ~turn[t].repaired

\* Who may divide a conflict: a remote task that is not itself a follow-up,
\* and every local turn's first attempt, a follow-up's too; never recovery.
MaySalvage(t) ==
    /\ ~turn[t].resumed
    /\ \/ t \in Remote /\ turn[t].asked = {}
       \/ t \in Local /\ ~turn[t].repaired

\* The candidate's workspace is at canonical, with files F applied and H held.
Apply(t, F, H) ==
    IF {f \in F : Merge(t, f, Latest) # At(Latest)[f]} # F
    THEN Answers(t, "policy_failed")
    ELSE /\ Set(t, [turn[t] EXCEPT !.stage = "candidate", !.prev = Latest,
                                   !.kept = F, !.held = H])
         /\ UNCHANGED <<canonical, used>>

\* Fault: only remote results are held to their base.
AdmissibleUnlessRemote(t) ==
    \/ t \notin Remote
    \/ turn[t].resumed
    \/ Latest \in {turn[t].base, turn[t].replay}

\* The gate: canonical was read, and is the base or the revision pinned.
Admissible(t) ==
    \/ t \in Local
    \/ turn[t].resumed
    \/ Latest \in {turn[t].base, turn[t].replay}

\* Callers integrate as they come; recovery resumes one at a time.
MayIntegrate(t) ==
    /\ turn[t].stage = "ready"
    /\ turn[t].resumed =>
           \A u \in Tasks \ {t} : turn[u].resumed => turn[u].stage = "ready"

IntegrateStale(t) ==
    /\ MayIntegrate(t)
    /\ ~Admissible(t)
    /\ Answers(t, "stale")

IntegrateEmpty(t) ==
    /\ MayIntegrate(t)
    /\ Admissible(t)
    /\ Patches(t) = {}
    /\ Answers(t, "empty")

\* The files in C collide; the rest is salvaged, or everything is refused.
Integrate(t) ==
    /\ MayIntegrate(t)
    /\ Admissible(t)
    /\ Patches(t) # {}
    /\ \E C \in SUBSET Contestable(t, Latest) :
           \/ C = {} /\ Apply(t, Patches(t), {})
           \/ /\ C # {} /\ MaySalvage(t) /\ Patches(t) \ C # {}
              /\ Apply(t, Patches(t) \ C, C)
           \/ C # {} /\ Answers(t, "conflict")

ValidationFails(t) ==
    /\ turn[t].stage = "candidate"
    /\ \E result \in {"validation_failed", "policy_failed"} : Answers(t, result)

\* What is committed, ...
Commit(t) ==
    [tree |-> Candidate(t, turn[t].kept, turn[t].prev), by |-> t,
     base |-> turn[t].base, recovered |-> turn[t].resumed]

\* ... and the branch moves to it from the revision it was built on.
Lands(t) ==
    /\ turn[t].stage = "candidate"
    /\ turn[t].prev = Latest
    /\ canonical' = Append(canonical, Commit(t))
    /\ UNCHANGED used

\* Where a throw in integrate, or in what follows it, leaves the task: the
\* catch fails it; recovery's leaves it to the reaper.
Thrown(t) == IF turn[t].resumed THEN Dropped(t) ELSE {Failed(t)}

\* It moves and is read back, ...
Promote(t) == Lands(t) /\ Set(t, Answered(t, "integrated"))

\* ... or reading it back throws, and nobody is told that the work landed, ...
PromoteUnread(t) ==
    /\ Lands(t)
    /\ \E after \in Thrown(t) : Set(t, after)

\* ... or somebody else moved it first, and what is there now is read.
PromoteBeaten(t) ==
    /\ turn[t].stage = "candidate"
    /\ turn[t].prev # Latest
    /\ Answers(t, "stale")

\* Another promotion holds the ref's lock and has not moved it yet.
PromoteThrows(t) ==
    /\ turn[t].stage = "candidate"
    /\ turn[t].prev = Latest
    /\ \E u \in Tasks \ {t} : turn[u].stage = "candidate" /\ turn[u].prev = Latest
    /\ \E after \in Thrown(t) : Ends(t, after)

-----------------------------------------------------------------------------
(* What the caller does with the answer *)

\* A remote task's row is completed, ...
SettleRemote(t) ==
    /\ t \in Remote
    /\ ~turn[t].resumed
    /\ turn[t].stage = "answered"
    /\ \/ turn[t].result = "integrated" /\ Moves(t, "answered", "reported")
       \/ turn[t].result = "empty" /\ Ends(t, Done(t, {}))
       \/ /\ turn[t].result \in {"conflict", "validation_failed"}
          /\ IF turn[t].textual \/ turn[t].lost
             THEN Requeue(t) ELSE Ends(t, Failed(t))
       \/ turn[t].result = "policy_failed" /\ Ends(t, Failed(t))

\* ... and a task is queued for what salvage held back.
QueueRemainder(t) ==
    /\ turn[t].stage = "reported"
    /\ Ends(t, Done(t, turn[t].held))

\* The row is integrated and nobody was asked for the remainder.
CutOff(t) == [Done(t, {}) EXCEPT !.cut = TRUE]

\* Recording the outcome throws: before the row is integrated the task fails
\* whatever landed; after it the row stays as it is.
SettleThrows(t) ==
    \/ /\ turn[t].stage = "answered"
       /\ \E after \in Thrown(t) : Ends(t, after)
    \/ turn[t].stage = "reported" /\ Ends(t, CutOff(t))

SettleExact(t) ==
    /\ t \in Exact
    /\ ~turn[t].resumed
    /\ turn[t].stage = "answered"
    /\ Ends(t, IF turn[t].result = "integrated" THEN Done(t, {}) ELSE Failed(t))

\* contestedPaths: a refused changeset whole, or what salvage held back.
Contested(t) ==
    IF turn[t].result = "conflict" THEN Patches(t)
    ELSE IF turn[t].result = "integrated" THEN turn[t].held ELSE {}

\* repairChangeSet: the contested files of the worktree become canonical's,
\* the agent edits them again, and what is collected is the worktree against
\* canonical, of which every file must be in the plan.
Reconciled(t) ==
    [f \in Files |-> IF f \in Contested(t) THEN At(Latest)[f] \cup {t}
                     ELSE turn[t].work[f]]

Collected(t) == {f \in Files : Reconciled(t)[f] # At(Latest)[f]}

Reconcile(t) ==
    /\ t \in Local
    /\ turn[t].stage = "answered"
    /\ ~turn[t].repaired /\ ~turn[t].resumed
    /\ Contested(t) # {}
    /\ Collected(t) # {}
    /\ Collected(t) \subseteq Plan[t]
    /\ Set(t, [turn[t] EXCEPT
                 !.stage = "ready", !.repaired = TRUE, !.first = turn[t].result,
                 !.earlier = {[base |-> turn[t].base, work |-> turn[t].work]},
                 !.owed = turn[t].held, !.base = Latest, !.work = Reconciled(t),
                 !.kept = {}, !.held = {}, !.result = "none"])
    /\ UNCHANGED <<canonical, used>>

\* What the turn ends with: the repair if it landed, else the first answer.
Outcome(t) ==
    IF turn[t].repaired /\ turn[t].result # "integrated"
    THEN turn[t].first ELSE turn[t].result

\* Fault: only a first answer's remainder is queued, never a failed repair's.
RemainderOfFirst(t) == IF turn[t].repaired THEN {} ELSE turn[t].held

Remainder(t) ==
    IF ~turn[t].repaired THEN turn[t].held
    ELSE IF turn[t].result = "integrated" THEN {} ELSE turn[t].owed

\* Fault: a conflict waits for its repair, also when none can be made.
SettleOnceRepaired(t) ==
    /\ t \in Local
    /\ ~turn[t].resumed
    /\ turn[t].stage = "answered"
    /\ turn[t].repaired \/ Contested(t) = {}
    /\ \/ /\ Outcome(t) = "integrated"
          /\ \/ Ends(t, Done(t, Remainder(t)))
             \/ Ends(t, [Done(t, {}) EXCEPT !.told = Remainder(t)])
       \/ Outcome(t) = "empty" /\ Ends(t, Done(t, {}))
       \/ Outcome(t) \notin {"integrated", "empty"} /\ Ends(t, Failed(t))

\* No repair was to be made, or it could not be, or it is over.  What is left
\* is queued before the row is integrated; without a plan authority to queue
\* it the explanation says what is still outstanding.
SettleLocal(t) ==
    /\ t \in Local
    /\ ~turn[t].resumed
    /\ turn[t].stage = "answered"
    /\ \/ /\ Outcome(t) = "integrated"
          /\ \/ Ends(t, Done(t, Remainder(t)))
             \/ Ends(t, [Done(t, {}) EXCEPT !.told = Remainder(t)])
       \/ Outcome(t) = "empty" /\ Ends(t, Done(t, {}))
       \/ Outcome(t) \notin {"integrated", "empty"} /\ Ends(t, Failed(t))

-----------------------------------------------------------------------------
(* A restart of the control plane *)

\* A changeset that was collected is integrated again, without a base to be
\* held to.
Again(t, base, work, repaired, earlier) ==
    [Queued(t) EXCEPT !.stage = "ready", !.resumed = TRUE,
                      !.base = base, !.work = work, !.wrote = turn[t].wrote,
                      !.repaired = repaired, !.earlier = earlier]

\* The last one, when it has no integration on record, ...
Resumed(t) == Again(t, turn[t].base, turn[t].work, turn[t].repaired, turn[t].earlier)

\* ... or the one it repairs, when the repair's outcome is on record: that
\* one's was to be recorded last.
ResumedEarlier(t) == {Again(t, c.base, c.work, FALSE, {}) : c \in turn[t].earlier}

\* An in-process turn whose agent may still be at work.
MaybeUncollected(t) ==
    /\ t \in Local
    /\ turn[t].stage = "ready"
    /\ ~turn[t].repaired /\ ~turn[t].resumed

\* An outcome may be on record of every changeset the turn has.
MaybeDecided(t) ==
    \/ turn[t].lost
    \/ /\ turn[t].stage = "answered"
       /\ \/ turn[t].earlier = {}
          \/ ~turn[t].resumed /\ turn[t].result # "integrated"

\* What a restart may make of a turn.  In-process turns die with the process,
\* like every handler; a remote agent that is still at work works on.
Survivors(t) ==
    IF turn[t].stage \in Rest THEN {turn[t]}
    ELSE IF turn[t].stage = "running" THEN {turn[t], Queued(t)}
    ELSE IF turn[t].stage = "reported" THEN {CutOff(t)}
    ELSE (IF turn[t].lost THEN {} ELSE {Resumed(t)})
         \cup (IF turn[t].stage = "answered" THEN ResumedEarlier(t) ELSE {})
         \cup (IF MaybeUncollected(t) \/ MaybeDecided(t) THEN Dropped(t) ELSE {})

Crash ==
    /\ used.crashes < MaxCrashes
    /\ turn' \in {after \in [Tasks -> UNION {Survivors(t) : t \in Tasks}] :
                    \A t \in Tasks : after[t] \in Survivors(t)}
    /\ used' = [used EXCEPT !.crashes = @ + 1]
    /\ UNCHANGED canonical

\* Recovery completes what it landed; the reaper has the rest.
SettleResumed(t) ==
    /\ turn[t].resumed
    /\ turn[t].stage = "answered"
    /\ \/ turn[t].result = "integrated" /\ Ends(t, Done(t, {}))
       \/ /\ turn[t].result # "integrated"
          /\ \E after \in Dropped(t) : Ends(t, after)

-----------------------------------------------------------------------------

LandingInit ==
    /\ canonical = <<Seed>>
    /\ used = [starts |-> 0, crashes |-> 0]
    /\ turn = [t \in Tasks |-> Fresh]

\* Steps that are taken for a turn without anybody being asked.
Progress(t) ==
    \/ BeforeRun(t) \/ BeforeIntegration(t) \/ Reassess(t)
    \/ IntegrateStale(t) \/ IntegrateEmpty(t) \/ Integrate(t)
    \/ ValidationFails(t) \/ Promote(t) \/ PromoteBeaten(t)
    \/ SettleRemote(t) \/ QueueRemainder(t)
    \/ SettleExact(t) \/ SettleLocal(t) \/ SettleResumed(t)

LandingNext ==
    \/ Crash
    \/ \E t \in Tasks :
           \/ StartWork(t) \/ StartRollback(t) \/ StartFollowUp(t)
           \/ ReviewRefused(t) \/ Reconcile(t)
           \/ PromoteThrows(t) \/ PromoteUnread(t) \/ SettleThrows(t)
           \/ Progress(t)

LandingSafety == LandingInit /\ [][LandingNext]_landingVars

\* A turn that has started runs on: every await is bounded by a timeout.
LandingSpec ==
    LandingSafety /\ \A t \in Tasks : WF_landingVars(Progress(t))

-----------------------------------------------------------------------------
(* Properties *)

Turn == [stage : Stage, asked : SUBSET Files,
         base : Nat \ {0}, wrote : SUBSET Files, work : Tree,
         prev : Nat \ {0}, seen : Nat \ {0}, replay : Nat,
         textual : BOOLEAN, lost : BOOLEAN, reassessed : Nat,
         kept : SUBSET Files, held : SUBSET Files, result : Result,
         repaired : BOOLEAN, first : Result,
         earlier : SUBSET [base : Nat \ {0}, work : Tree], resumed : BOOLEAN,
         owed : SUBSET Files, told : SUBSET Files, cut : BOOLEAN]

Revision == [tree : Tree, by : Tasks \cup {"nobody"}, base : Nat \ {0},
             recovered : BOOLEAN]

Used == [starts : 0..MaxStarts, crashes : 0..MaxCrashes]

\* The branch and every turn keep the shape the code gives them.
LandingTypeOK ==
    /\ canonical \in Seq(Revision) /\ Latest >= 1
    /\ turn \in [Tasks -> Turn]
    /\ used \in Used

\* pinReplayOnto: between its base and the revision it landed on, canonical
\* changed nothing a remote result's plan depends on, however many revisions
\* raced it and however often it was graded.
RemoteLandsGraded ==
    \A i \in 2..Latest :
        canonical[i].by \in Remote /\ ~canonical[i].recovered =>
            ~Semantic(canonical[i].by, canonical[i].base, i - 1)

\* Workspace edits and rollbacks land on the very revision they were made on.
ExactLandsOnBase ==
    \A i \in 2..Latest :
        canonical[i].by \in Exact /\ ~canonical[i].recovered =>
            canonical[i].base = i - 1

Landed(t, f) ==
    \E i \in 2..Latest :
        /\ canonical[i].by = t
        /\ t \in canonical[i].tree[f]

\* A task that reports success has put every file it wrote into canonical, or
\* into a follow-up task, or told that it is outstanding: salvage, repair,
\* their failures and recovery drop nothing.  The one gap is the remote
\* handler's: its row is integrated before the remainder is queued.
NothingDropped ==
    \A t \in Remote \cup Local :
        turn[t].stage = "settled" /\ ~turn[t].cut =>
            \A f \in turn[t].wrote :
                Landed(t, f) \/ f \in turn[t].owed \/ f \in turn[t].told

Lost(f) == At(Latest)[f] \ canonical'[Len(canonical')].tree[f]

\* The branch as its readers see it.
Branch == [i \in 1..Len(canonical) |->
              [tree |-> canonical[i].tree, by |-> canonical[i].by]]

\* Each revision is its predecessor and one task's work: what Canonical says.
Promise == INSTANCE Canonical WITH history <- Branch, Reconcilers <- Local

CanonicalSpec == Promise!Spec

\* conflict-repair.test.ts: "Both intents survive: the repair reconciled
\* rather than overwrote."  Nobody but a rollback takes landed edits away.
BothIntentsSurvive ==
    [][\A f \in Files : Lost(f) # {} =>
           canonical'[Len(canonical')].by \in Rollbacks]_landingVars

\* A turn that has started comes to an end or back to the queue, whatever
\* races it, throws or is interrupted: no reassessment, repair or resumption
\* goes on for ever within it, and none is left halfway.
EveryTurnEnds ==
    \A t \in Tasks : (turn[t].stage \notin Rest) ~> (turn[t].stage \in Rest)

-----------------------------------------------------------------------------
(* What makes the safety properties inductive: what a turn says of the     *)
(* branch.                                                                 *)

\* It names revisions that exist, and is in a stage its kind of task has.
WellPlaced(t) ==
    LET w == turn[t] IN
    /\ w.base \in 1..Latest /\ w.prev \in 1..Latest /\ w.seen \in 1..Latest
    /\ w.replay \in 0..Latest
    /\ w.stage \in {"running", "checked", "reported"} => t \in Remote
    /\ w.stage = "queued" => w.replay = 0 /\ w.earlier = {} /\ ~w.resumed /\ ~w.repaired
    /\ w.repaired => t \in Local /\ Patches(t) \subseteq Plan[t]
    /\ w.repaired \/ w.resumed \/ t \in Exact => w.held = {}

\* The revision it may be replayed onto was graded, and a candidate is built
\* on its base or on that one, from the files of its changeset.
WellGraded(t) ==
    LET w == turn[t] IN
    /\ w.replay # 0 => t \in Remote /\ ~Semantic(t, w.base, w.replay)
    /\ w.stage = "candidate" =>
           /\ t \in Local \/ w.resumed \/ w.prev \in {w.base, w.replay}
           /\ w.kept \cup w.held = Patches(t)

\* Its worktree is its base and its own edits, or what a rollback restores;
\* only a reconciled one may lack some of its base.
Made(t, b, work) ==
    \A f \in Files : At(b)[f] \subseteq work[f] /\ work[f] \subseteq At(b)[f] \cup {t}

WellWorked(t) ==
    LET w == turn[t] IN
    /\ t \in Rollbacks => \E r \in 1..w.base :
           w.work = [f \in Files |-> IF f \in Plan[t] THEN At(r)[f]
                                     ELSE At(w.base)[f]]
    /\ t \notin Rollbacks /\ ~w.repaired => Made(t, w.base, w.work)
    /\ \A f \in Files : \A u \in w.work[f] : u = t \/ Landed(u, f)

\* So is the worktree a repair began with, which recovery may come back to.
WellRemembered(t) ==
    \A c \in turn[t].earlier :
        /\ c.base \in 1..Latest
        /\ t \in Local /\ Made(t, c.base, c.work)
        /\ \A f \in turn[t].wrote : t \in c.work[f]

\* What it wrote is in its worktree, and once it has answered, each of those
\* files landed or is accounted for.
WellReported(t) ==
    LET w == turn[t]
        In(owing) == \A f \in w.wrote : Landed(t, f) \/ f \in owing
    IN  t \notin Rollbacks =>
        /\ w.stage \notin {"settled", "failed"} =>
               \A f \in w.wrote : t \in w.work[f]
        /\ w.stage \in {"answered", "reported"} /\ w.result = "integrated" => In(w.held)
        /\ w.stage = "reported" => w.result = "integrated"
        /\ w.stage = "answered" /\ w.result = "empty" => In({})
        /\ w.repaired /\ ~w.resumed => w.first \in {"conflict", "integrated"}
        /\ w.repaired /\ ~w.resumed /\ w.first = "integrated" => In(w.owed)
        /\ w.stage = "settled" /\ t \notin Overlays /\ ~w.cut => In(w.owed \cup w.told)

Sound(t) ==
    /\ WellPlaced(t) /\ WellGraded(t) /\ WellWorked(t)
    /\ WellRemembered(t) /\ WellReported(t)

\* The branch starts at the seed, and every edit in it was landed by its author.
BranchKnows ==
    /\ canonical[1] = Seed
    /\ \A i \in 1..Latest : canonical[i].base \in 1..Latest
    /\ \A i \in 1..Latest : \A f \in Files : \A u \in At(i)[f] : Landed(u, f)

\* What every reachable branch and turn satisfy, so that the next landing is
\* graded, exact, merged and complete whoever raced it.
LandingInv ==
    /\ LandingTypeOK
    /\ BranchKnows
    /\ \A t \in Tasks : Sound(t)
    /\ RemoteLandsGraded
    /\ ExactLandsOnBase
=============================================================================
