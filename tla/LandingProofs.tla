--------------------------- MODULE LandingProofs ---------------------------
(***************************************************************************)
(* Proofs about Landing, for every set of files and tasks, every plan and  *)
(* every bound: whoever races, reassesses, repairs or is interrupted, what *)
(* lands was graded or is on its exact base, a task that reports success   *)
(* dropped nothing it wrote, and the branch is what Canonical promises.    *)
(***************************************************************************)
EXTENDS Landing, SequenceTheorems, TLAPS

-----------------------------------------------------------------------------
(* Steps that leave the branch alone *)

\* Who keeps its record keeps what the record says.
LEMMA Undisturbed ==
    ASSUME NEW k \in Tasks, Sound(k), canonical' = canonical, turn'[k] = turn[k]
    PROVE  Sound(k)'
<1>1. WellPlaced(k)'
  BY DEF Sound, WellPlaced, Patches, At, Latest, Exact
<1>2. WellGraded(k)'
  BY DEF Sound, WellGraded, Patches, Semantic, Advance, At
<1>3. WellWorked(k)' /\ WellRemembered(k)'
  BY DEF Sound, WellWorked, WellRemembered, Made, At, Landed, Latest
<1>4. WellReported(k)'
  BY DEF Sound, WellReported, Landed, Latest
<1>5. QED
  BY <1>1, <1>2, <1>3, <1>4 DEF Sound

\* A step that rewrites records, and leaves every one sound.
LEMMA Kept ==
    ASSUME LandingInv, canonical' = canonical, turn' \in [Tasks -> Turn],
           used' = used \/ used' \in Used, \A k \in Tasks : Sound(k)'
    PROVE  LandingInv'
<1>1. LandingTypeOK'
  BY DEF LandingInv, LandingTypeOK, Latest
<1>2. BranchKnows'
  BY DEF LandingInv, BranchKnows, At, Landed, Latest
<1>3. RemoteLandsGraded' /\ ExactLandsOnBase'
  BY DEF LandingInv, RemoteLandsGraded, ExactLandsOnBase, Semantic, Advance, At,
         Latest
<1>4. QED
  BY <1>1, <1>2, <1>3 DEF LandingInv

\* A step that rewrites the record of one task.
LEMMA Steady ==
    ASSUME LandingInv, canonical' = canonical, NEW t \in Tasks, NEW w \in Turn,
           used' = used \/ used' \in Used,
           turn' = [turn EXCEPT ![t] = w], Sound(t)'
    PROVE  LandingInv'
<1>1. turn \in [Tasks -> Turn]
  BY DEF LandingInv, LandingTypeOK
<1>2. turn' \in [Tasks -> Turn] /\ \A k \in Tasks \ {t} : turn'[k] = turn[k]
  BY <1>1
<1>3. \A k \in Tasks \ {t} : Sound(k)'
  BY <1>2, Undisturbed DEF LandingInv
<1>4. QED
  BY <1>2, <1>3, Kept

-----------------------------------------------------------------------------
(* Turns that are over, or back in the queue *)

\* A record that starts afresh.
Blank(w) ==
    /\ w.base = 1 /\ w.work = Seed.tree /\ w.prev = 1 /\ w.seen = 1
    /\ w.replay = 0 /\ w.held = {} /\ w.earlier = {}
    /\ ~w.repaired /\ ~w.resumed

\* It is sound when it reports nothing that has not landed.
LEMMA FreshSound ==
    ASSUME NEW t \in Tasks, NEW w \in Turn, turn'[t] = w,
           canonical'[1] = Seed, Latest' \in Nat \ {0},
           w.stage \in Rest, Blank(w),
           w.stage = "queued" => w.wrote = {},
           w.stage = "settled" /\ t \in Remote \cup Local /\ ~w.cut =>
               \A f \in w.wrote : Landed(t, f)' \/ f \in w.owed \cup w.told
    PROVE  Sound(t)'
<1>1. WellPlaced(t)'
  BY DEF WellPlaced, Rest, Blank
<1>2. WellGraded(t)'
  BY DEF WellGraded, Rest, Blank
<1>3. WellWorked(t)'
  <2>1. /\ w.work = [f \in Files |-> {}] /\ w.base = 1
        /\ canonical'[1].tree = [f \in Files |-> {}]
    BY DEF Seed, Blank
  <2>2. 1 \in 1..w.base
    BY <2>1
  <2>3. w.work = [f \in Files |-> IF f \in Plan[t] THEN canonical'[1].tree[f]
                                  ELSE canonical'[w.base].tree[f]]
    BY <2>1
  <2>4. QED
    BY <2>1, <2>2, <2>3 DEF WellWorked, Made, At
<1>4. WellRemembered(t)'
  BY DEF WellRemembered, Blank
<1>5. WellReported(t)'
  BY DEF WellReported, Tasks, Rest, Blank
<1>6. QED
  BY <1>1, <1>2, <1>3, <1>4, <1>5 DEF Sound

LEMMA Restarted ==
    ASSUME LandingInv, NEW t \in Tasks, NEW w \in Turn, Ends(t, w),
           w.stage \in Rest, Blank(w),
           w.stage = "queued" => w.wrote = {},
           w.stage = "settled" /\ t \in Remote \cup Local /\ ~w.cut =>
               \A f \in w.wrote : Landed(t, f) \/ f \in w.owed \cup w.told
    PROVE  LandingInv'
<1>1. /\ canonical' = canonical /\ used' = used
      /\ turn' = [turn EXCEPT ![t] = w]
  BY DEF Ends, Set
<1>2. turn'[t] = w
  BY <1>1 DEF LandingInv, LandingTypeOK
<1>3. canonical'[1] = Seed /\ Latest' \in Nat \ {0}
  BY <1>1 DEF LandingInv, LandingTypeOK, BranchKnows, Latest
<1>4. \A f : Landed(t, f)' <=> Landed(t, f)
  BY <1>1 DEF Landed, Latest
<1>5. Sound(t)'
  BY <1>2, <1>3, <1>4, FreshSound
<1>6. QED
  BY <1>1, <1>5, Steady

\* A turn that has not started holds a record of the right shape.
LEMMA FreshTyped ==
    Fresh \in Turn /\ Blank(Fresh) /\ Fresh.stage = "queued" /\ Fresh.wrote = {}
<1>1. Seed.tree \in Tree
  BY DEF Seed, Tree
<1>2. QED
  BY <1>1 DEF Fresh, Turn, Stage, Result, Blank

\* The fields of a record that is typed.
LEMMA TurnTyped ==
    ASSUME LandingInv, NEW t \in Tasks
    PROVE  /\ turn \in [Tasks -> Turn] /\ turn[t] \in Turn
           /\ turn[t].stage \in Stage
           /\ turn[t].asked \in SUBSET Files /\ turn[t].base \in Nat \ {0}
           /\ turn[t].wrote \in SUBSET Files /\ turn[t].work \in Tree
           /\ turn[t].kept \in SUBSET Files /\ turn[t].held \in SUBSET Files
           /\ turn[t].owed \in SUBSET Files /\ turn[t].result \in Result
           /\ turn[t].earlier \in SUBSET [base : Nat \ {0}, work : Tree]
           /\ turn[t].repaired \in BOOLEAN
<1>1. turn \in [Tasks -> Turn]
  BY DEF LandingInv, LandingTypeOK
<1>2. turn[t] \in Turn
  BY <1>1
<1>3. QED
  BY <1>1, <1>2 DEF Turn

\* What a task that plans again starts from.
LEMMA QueuedTyped ==
    ASSUME LandingInv, NEW t \in Tasks
    PROVE  /\ Queued(t) \in Turn /\ Blank(Queued(t))
           /\ Queued(t).stage = "queued" /\ Queued(t).wrote = {}
<1> DEFINE w == [Fresh EXCEPT !.asked = turn[t].asked]
<1>1. turn[t].asked \in SUBSET Files
  BY TurnTyped
<1>2. w \in Turn
  BY <1>1, FreshTyped DEF Turn
<1>3. Blank(w) /\ w.stage = "queued" /\ w.wrote = {}
  BY FreshTyped DEF Turn, Blank
<1>4. QED
  BY <1>2, <1>3 DEF Queued

\* What a failed task holds.
LEMMA FailedTyped ==
    ASSUME NEW t \in Tasks
    PROVE  Failed(t) \in Turn /\ Blank(Failed(t)) /\ Failed(t).stage = "failed"
<1> DEFINE w == [Fresh EXCEPT !.stage = "failed"]
<1>1. "failed" \in Stage
  BY DEF Stage
<1>2. w \in Turn
  BY <1>1, FreshTyped DEF Turn
<1>3. Blank(w) /\ w.stage = "failed"
  BY FreshTyped DEF Turn, Blank
<1>4. QED
  BY <1>2, <1>3 DEF Failed

\* What an integrated task holds, ...
LEMMA DoneTyped ==
    ASSUME LandingInv, NEW t \in Tasks, NEW owed \in SUBSET Files
    PROVE  /\ Done(t, owed) \in Turn /\ Blank(Done(t, owed))
           /\ Done(t, owed).stage = "settled" /\ Done(t, owed).wrote = turn[t].wrote
           /\ Done(t, owed).owed = owed
<1> DEFINE w == [Fresh EXCEPT !.stage = "settled", !.wrote = turn[t].wrote,
                              !.owed = owed]
<1>1. turn[t].wrote \in SUBSET Files /\ "settled" \in Stage
  BY TurnTyped DEF Stage
<1>2. w \in Turn
  BY <1>1, FreshTyped DEF Turn
<1>3. /\ Blank(w) /\ w.stage = "settled" /\ w.wrote = turn[t].wrote
      /\ w.owed = owed
  BY FreshTyped DEF Turn, Blank
<1>4. QED
  BY <1>2, <1>3 DEF Done

\* ... when it was told what is outstanding, ...
LEMMA ToldTyped ==
    ASSUME LandingInv, NEW t \in Tasks, NEW told \in SUBSET Files
    PROVE  LET w == [Done(t, {}) EXCEPT !.told = told] IN
           /\ w \in Turn /\ Blank(w) /\ w.stage = "settled"
           /\ w.wrote = turn[t].wrote /\ w.told = told
<1> DEFINE d == Done(t, {})
<1>1. d \in Turn /\ Blank(d) /\ d.stage = "settled" /\ d.wrote = turn[t].wrote
  BY DoneTyped
<1> HIDE DEF d
<1>2. QED
  BY <1>1 DEF Turn, Blank, d

\* ... and when nobody was asked for the remainder.
LEMMA CutTyped ==
    ASSUME LandingInv, NEW t \in Tasks
    PROVE  /\ CutOff(t) \in Turn /\ Blank(CutOff(t))
           /\ CutOff(t).stage = "settled" /\ CutOff(t).cut
<1> DEFINE d == Done(t, {})
<1>1. d \in Turn /\ Blank(d) /\ d.stage = "settled"
  BY DoneTyped
<1> HIDE DEF d
<1>2. QED
  BY <1>1 DEF Turn, Blank, CutOff, d

LEMMA RequeueSafe ==
    ASSUME LandingInv, NEW t \in Tasks, Requeue(t)
    PROVE  LandingInv'
BY QueuedTyped, Restarted DEF Requeue, Rest

LEMMA FailedSafe ==
    ASSUME LandingInv, NEW t \in Tasks, Ends(t, Failed(t))
    PROVE  LandingInv'
BY FailedTyped, Restarted DEF Rest

LEMMA DroppedSafe ==
    ASSUME LandingInv, NEW t \in Tasks, NEW w \in Dropped(t) \cup Thrown(t),
           Ends(t, w)
    PROVE  LandingInv'
<1>1. w = Queued(t) \/ w = Failed(t)
  BY DEF Dropped, Thrown
<1>2. QED
  BY <1>1, RequeueSafe, FailedSafe DEF Requeue

LEMMA DoneSafe ==
    ASSUME LandingInv, NEW t \in Tasks, NEW owed \in SUBSET Files,
           Ends(t, Done(t, owed)),
           t \in Remote \cup Local =>
               \A f \in turn[t].wrote : Landed(t, f) \/ f \in owed
    PROVE  LandingInv'
BY DoneTyped, Restarted DEF Rest

LEMMA ToldSafe ==
    ASSUME LandingInv, NEW t \in Tasks, NEW told \in SUBSET Files,
           Ends(t, [Done(t, {}) EXCEPT !.told = told]),
           t \in Remote \cup Local =>
               \A f \in turn[t].wrote : Landed(t, f) \/ f \in told
    PROVE  LandingInv'
BY ToldTyped, Restarted DEF Rest

LEMMA StartFollowUpSafe ==
    ASSUME LandingInv, NEW t \in Tasks, StartFollowUp(t)
    PROVE  LandingInv'
<1> DEFINE w == [Fresh EXCEPT !.asked = turn[t].owed]
<1>1. turn[t].owed \in SUBSET Files
  BY TurnTyped
<1>2. w \in Turn
  BY <1>1, FreshTyped DEF Turn
<1>3. Blank(w) /\ w.stage = "queued" /\ w.wrote = {}
  BY FreshTyped DEF Turn, Blank
<1>4. Ends(t, w)
  BY DEF StartFollowUp, Ends
<1> HIDE DEF w
<1>5. QED
  BY <1>2, <1>3, <1>4, Restarted DEF Rest

-----------------------------------------------------------------------------
(* Turns under way *)

\* A record that keeps its base and its worktree, and says nothing more of
\* the branch than what holds.
LEMMA Carried ==
    ASSUME LandingInv, canonical' = canonical, NEW t \in Tasks, NEW w \in Turn,
           turn' = [turn EXCEPT ![t] = w], used' = used,
           turn[t].stage \notin {"settled", "failed"},
           w.stage \in {"checked", "ready", "candidate", "answered", "reported"},
           w.stage \in {"checked", "reported"} => t \in Remote,
           w.stage = "reported" => w.result = "integrated",
           w.base = turn[t].base, w.work = turn[t].work, w.wrote = turn[t].wrote,
           w.repaired = turn[t].repaired, w.resumed = turn[t].resumed,
           w.first = turn[t].first, w.owed = turn[t].owed,
           w.earlier = turn[t].earlier, w.prev \in 1..Latest, w.seen \in 1..Latest, w.replay \in 0..Latest,
           w.repaired \/ w.resumed \/ t \in Exact => w.held = {},
           w.replay # 0 => t \in Remote /\ ~Semantic(t, w.base, w.replay),
           w.stage = "candidate" =>
               /\ t \in Local \/ w.resumed \/ w.prev \in {w.base, w.replay}
               /\ w.kept \cup w.held = Patches(t),
           w.stage \in {"answered", "reported"} /\ t \notin Rollbacks =>
               /\ w.result = "integrated" =>
                      \A f \in w.wrote : Landed(t, f) \/ f \in w.held
               /\ w.result = "empty" => \A f \in w.wrote : Landed(t, f)
    PROVE  LandingInv'
<1>1. turn'[t] = w /\ Sound(t)
  BY TurnTyped DEF LandingInv
<1>2. Patches(t)' = Patches(t) /\ Latest' = Latest
  BY <1>1 DEF Patches, At, Latest
<1>3. WellPlaced(t)'
  BY <1>1, <1>2 DEF WellPlaced, Sound
<1>4. WellGraded(t)'
  BY <1>1, <1>2 DEF WellGraded, Semantic, Advance, At
<1>5. WellWorked(t)' /\ WellRemembered(t)'
  <2>1. /\ turn'[t].work = turn[t].work /\ turn'[t].base = turn[t].base
        /\ turn'[t].repaired = turn[t].repaired /\ WellWorked(t)
        /\ turn'[t].earlier = turn[t].earlier /\ WellRemembered(t)
        /\ turn'[t].wrote = turn[t].wrote
    BY <1>1 DEF Sound
  <2>2. QED
    BY <2>1 DEF WellWorked, WellRemembered, Made, At, Landed, Latest
<1>6. WellReported(t)'
  BY <1>1 DEF WellReported, Sound, Landed, Latest
<1>7. QED
  BY <1>3, <1>4, <1>5, <1>6, Steady DEF Sound

\* A turn that has answered: other fields than these are as they were.
LEMMA AnswersSafe ==
    ASSUME LandingInv, NEW t \in Tasks, NEW result \in Result,
           turn[t].stage \notin Rest,
           Answers(t, result), result # "integrated",
           result = "empty" /\ t \notin Rollbacks =>
               \A f \in turn[t].wrote : Landed(t, f)
    PROVE  LandingInv'
<1> DEFINE s == IF result = "stale" THEN Latest ELSE 1
           w == [turn[t] EXCEPT !.stage = "answered", !.result = result,
                                !.seen = s, !.prev = 1, !.kept = {}, !.held = {}]
<1>1. turn' = [turn EXCEPT ![t] = w] /\ canonical' = canonical /\ used' = used
  BY DEF Answers, Answered, Set
<1>2. /\ s \in 1..Latest /\ s \in Nat \ {0} /\ 1 \in 1..Latest /\ 1 \in Nat \ {0}
      /\ "answered" \in Stage /\ {} \in SUBSET Files
  BY DEF LandingInv, LandingTypeOK, Latest, Stage
<1>3. turn[t] \in Turn /\ Sound(t)
  BY TurnTyped DEF LandingInv
<1> HIDE DEF s
<1>4. w \in Turn
  BY <1>2, <1>3 DEF Turn
<1>5. /\ w.stage = "answered" /\ w.result = result /\ w.prev = 1 /\ w.seen = s
      /\ w.base = turn[t].base /\ w.work = turn[t].work /\ w.wrote = turn[t].wrote
      /\ w.repaired = turn[t].repaired /\ w.resumed = turn[t].resumed
      /\ w.first = turn[t].first /\ w.owed = turn[t].owed
      /\ w.earlier = turn[t].earlier
      /\ w.replay = turn[t].replay /\ w.held = {}
  BY <1>3 DEF Turn
<1> HIDE DEF w
<1>6. /\ w.replay \in 0..Latest
      /\ w.repaired \/ w.resumed \/ t \in Exact => w.held = {}
      /\ w.replay # 0 => t \in Remote /\ ~Semantic(t, w.base, w.replay)
  BY <1>3, <1>5 DEF Sound, WellPlaced, WellGraded
<1>7. turn[t].stage \notin {"settled", "failed"}
  BY DEF Rest
<1>8. QED
  BY <1>1, <1>2, <1>4, <1>5, <1>6, <1>7, Carried

\* A graded result that goes on to its next check.
LEMMA MovesSafe ==
    ASSUME LandingInv, NEW t \in Remote, NEW from \in {"running", "checked"},
           NEW to \in {"checked", "ready"}, Moves(t, from, to)
    PROVE  LandingInv'
<1> DEFINE w == [turn[t] EXCEPT !.stage = to]
<1>1. /\ turn' = [turn EXCEPT ![t] = w] /\ canonical' = canonical /\ used' = used
      /\ t \in Tasks
  BY DEF Moves, Set, Tasks
<1>2. turn[t] \in Turn /\ Sound(t) /\ to \in Stage
  BY <1>1, TurnTyped DEF LandingInv, Stage
<1>3. w \in Turn
  BY <1>2 DEF Turn
<1>4. /\ w.stage = to /\ w.prev = turn[t].prev /\ w.seen = turn[t].seen
      /\ w.base = turn[t].base /\ w.work = turn[t].work /\ w.wrote = turn[t].wrote
      /\ w.repaired = turn[t].repaired /\ w.resumed = turn[t].resumed
      /\ w.first = turn[t].first /\ w.owed = turn[t].owed
      /\ w.earlier = turn[t].earlier
      /\ w.replay = turn[t].replay /\ w.held = turn[t].held
  BY <1>2 DEF Turn
<1> HIDE DEF w
<1>5. /\ w.replay \in 0..Latest /\ w.prev \in 1..Latest /\ w.seen \in 1..Latest
      /\ w.repaired \/ w.resumed \/ t \in Exact => w.held = {}
      /\ w.replay # 0 => t \in Remote /\ ~Semantic(t, w.base, w.replay)
  BY <1>2, <1>4 DEF Sound, WellPlaced, WellGraded
<1>6. turn[t].stage \notin {"settled", "failed"}
  BY DEF Moves
<1>7. QED
  BY <1>1, <1>3, <1>4, <1>5, <1>6, Carried

\* A revision may be pinned once it was graded.
LEMMA PinSafe ==
    ASSUME LandingInv, NEW t \in Remote, NEW r \in 1..Latest,
           ~Semantic(t, turn[t].base, r),
           turn[t].stage \in {"checked", "answered"}, NEW w \in Turn,
           turn' = [turn EXCEPT ![t] = w], canonical' = canonical, used' = used,
           w.stage = "ready", w.replay = r, w.prev \in 1..Latest,
           w.seen \in 1..Latest, w.base = turn[t].base, w.work = turn[t].work,
           w.wrote = turn[t].wrote, w.repaired = turn[t].repaired,
           w.resumed = turn[t].resumed, w.first = turn[t].first,
           w.owed = turn[t].owed, w.held = turn[t].held,
           w.earlier = turn[t].earlier
    PROVE  LandingInv'
<1>1. t \in Tasks
  BY DEF Tasks
<1>2. Sound(t) /\ Latest \in Nat
  BY <1>1 DEF LandingInv, LandingTypeOK, Latest
<1>3. /\ w.repaired \/ w.resumed \/ t \in Exact => w.held = {}
      /\ w.replay \in 0..Latest
  BY <1>2 DEF Sound, WellPlaced
<1>4. QED
  BY <1>1, <1>3, Carried

\* A remote row is integrated before its remainder is queued.
LEMMA ReportSafe ==
    ASSUME LandingInv, NEW t \in Remote, Moves(t, "answered", "reported"),
           turn[t].result = "integrated"
    PROVE  LandingInv'
<1> DEFINE w == [turn[t] EXCEPT !.stage = "reported"]
<1>1. /\ turn' = [turn EXCEPT ![t] = w] /\ canonical' = canonical /\ used' = used
      /\ t \in Tasks /\ turn[t].stage = "answered"
  BY DEF Moves, Set, Tasks
<1>2. turn[t] \in Turn /\ Sound(t) /\ "reported" \in Stage
  BY <1>1, TurnTyped DEF LandingInv, Stage
<1>3. w \in Turn
  BY <1>2 DEF Turn
<1>4. /\ w.stage = "reported" /\ w.prev = turn[t].prev /\ w.seen = turn[t].seen
      /\ w.base = turn[t].base /\ w.work = turn[t].work /\ w.wrote = turn[t].wrote
      /\ w.repaired = turn[t].repaired /\ w.resumed = turn[t].resumed
      /\ w.first = turn[t].first /\ w.owed = turn[t].owed
      /\ w.earlier = turn[t].earlier /\ w.result = turn[t].result
      /\ w.replay = turn[t].replay /\ w.held = turn[t].held
  BY <1>2 DEF Turn
<1> HIDE DEF w
<1>5. /\ w.replay \in 0..Latest /\ w.prev \in 1..Latest /\ w.seen \in 1..Latest
      /\ w.repaired \/ w.resumed \/ t \in Exact => w.held = {}
      /\ w.replay # 0 => t \in Remote /\ ~Semantic(t, w.base, w.replay)
  BY <1>2, <1>4 DEF Sound, WellPlaced, WellGraded
<1>6. t \notin Rollbacks => \A f \in w.wrote : Landed(t, f) \/ f \in w.held
  BY <1>1, <1>2, <1>4 DEF Sound, WellReported
<1>7. QED
  BY <1>1, <1>3, <1>4, <1>5, <1>6, Carried

LEMMA BeforeRunSafe ==
    ASSUME LandingInv, NEW t \in Tasks, BeforeRun(t)
    PROVE  LandingInv'
BY RequeueSafe, MovesSafe DEF BeforeRun

LEMMA BeforeIntegrationSafe ==
    ASSUME LandingInv, NEW t \in Tasks, BeforeIntegration(t)
    PROVE  LandingInv'
<1>1. turn[t] \in Turn /\ Sound(t) /\ turn[t].stage = "checked"
  BY TurnTyped DEF LandingInv, BeforeIntegration
<1>2. t \in Remote
  BY <1>1 DEF Sound, WellPlaced
<1>3. Latest \in 1..Latest /\ Latest \in Nat
  BY DEF LandingInv, LandingTypeOK, Latest
<1>4. CASE /\ ~Semantic(t, turn[t].base, Latest)
           /\ Set(t, Pinned(t, Latest)) /\ UNCHANGED <<canonical, used>>
  <2> DEFINE x == Textual(t, turn[t].base, Latest)
             w == [turn[t] EXCEPT !.stage = "ready", !.replay = Latest, !.textual = x]
  <2>1. turn' = [turn EXCEPT ![t] = w] /\ canonical' = canonical /\ used' = used
    BY <1>4 DEF Set, Pinned
  <2>2. x \in BOOLEAN /\ "ready" \in Stage
    BY DEF Textual, Stage
  <2> HIDE DEF x
  <2>3. w \in Turn
    BY <1>1, <1>3, <2>2 DEF Turn
  <2>4. /\ w.stage = "ready" /\ w.prev = turn[t].prev /\ w.seen = turn[t].seen
        /\ w.base = turn[t].base /\ w.work = turn[t].work /\ w.wrote = turn[t].wrote
        /\ w.repaired = turn[t].repaired /\ w.resumed = turn[t].resumed
        /\ w.first = turn[t].first /\ w.owed = turn[t].owed
        /\ w.earlier = turn[t].earlier
        /\ w.replay = Latest /\ w.held = turn[t].held
    BY <1>1 DEF Turn
  <2> HIDE DEF w
  <2>5. w.prev \in 1..Latest /\ w.seen \in 1..Latest
    BY <1>1, <2>4 DEF Sound, WellPlaced
  <2>6. QED
    BY <1>1, <1>2, <1>3, <1>4, <2>1, <2>3, <2>4, <2>5, PinSafe
<1>5. QED
  BY <1>2, <1>4, RequeueSafe, MovesSafe DEF BeforeIntegration

LEMMA ReassessSafe ==
    ASSUME LandingInv, NEW t \in Tasks, Reassess(t)
    PROVE  LandingInv'
<1>1. turn[t] \in Turn /\ Sound(t) /\ turn[t].stage = "answered" /\ t \in Remote
  BY TurnTyped DEF LandingInv, Reassess
<1>2. turn[t].seen \in 1..Latest /\ 1 \in 1..Latest /\ Latest \in Nat
  BY <1>1 DEF LandingInv, LandingTypeOK, Latest, Sound, WellPlaced
<1>3. CASE /\ ~Semantic(t, turn[t].base, turn[t].seen)
           /\ Set(t, [Pinned(t, turn[t].seen) EXCEPT
                         !.lost = TRUE, !.reassessed = @ + 1,
                         !.result = "none", !.seen = 1])
           /\ UNCHANGED <<canonical, used>>
  <2> DEFINE x == Textual(t, turn[t].base, turn[t].seen)
             v == [turn[t] EXCEPT !.stage = "ready", !.replay = turn[t].seen,
                                  !.textual = x]
             w == [v EXCEPT !.lost = TRUE, !.reassessed = @ + 1,
                            !.result = "none", !.seen = 1]
  <2>1. turn' = [turn EXCEPT ![t] = w] /\ canonical' = canonical /\ used' = used
    BY <1>3 DEF Set, Pinned
  <2>2. x \in BOOLEAN /\ "ready" \in Stage /\ "none" \in Result
    BY DEF Textual, Stage, Result
  <2> HIDE DEF x
  <2>3. v \in Turn
    BY <1>1, <1>2, <2>2 DEF Turn
  <2>4. /\ v.stage = "ready" /\ v.prev = turn[t].prev
        /\ v.base = turn[t].base /\ v.work = turn[t].work /\ v.wrote = turn[t].wrote
        /\ v.repaired = turn[t].repaired /\ v.resumed = turn[t].resumed
        /\ v.first = turn[t].first /\ v.owed = turn[t].owed
        /\ v.earlier = turn[t].earlier
        /\ v.replay = turn[t].seen /\ v.held = turn[t].held
    BY <1>1 DEF Turn
  <2> HIDE DEF v
  <2>5. v.reassessed \in Nat
    BY <2>3 DEF Turn
  <2>6. v.reassessed + 1 \in Nat /\ 1 \in Nat \ {0}
    BY <2>5
  <2>7. w \in Turn
    BY <2>2, <2>3, <2>6 DEF Turn
  <2>8. /\ w.stage = v.stage /\ w.prev = v.prev /\ w.seen = 1
        /\ w.base = v.base /\ w.work = v.work /\ w.wrote = v.wrote
        /\ w.repaired = v.repaired /\ w.resumed = v.resumed
        /\ w.first = v.first /\ w.owed = v.owed
        /\ w.earlier = v.earlier
        /\ w.replay = v.replay /\ w.held = v.held
    BY <2>3 DEF Turn
  <2> HIDE DEF w
  <2>9. w.prev \in 1..Latest
    BY <1>1, <2>4, <2>8 DEF Sound, WellPlaced
  <2>10. QED
    BY <1>1, <1>2, <1>3, <2>1, <2>4, <2>7, <2>8, <2>9, PinSafe
<1>4. QED
  BY <1>3, RequeueSafe DEF Reassess

-----------------------------------------------------------------------------
(* integrate, up to the promotion *)

\* The candidate holds the files F of the changeset, and H are held back.
LEMMA ApplySafe ==
    ASSUME LandingInv, NEW t \in Tasks, NEW F \in SUBSET Files,
           NEW H \in SUBSET Files, turn[t].stage = "ready", Admissible(t),
           F \cup H = Patches(t), H # {} => MaySalvage(t), Apply(t, F, H)
    PROVE  LandingInv'
<1>1. turn[t] \in Turn /\ Sound(t) /\ t \in Tasks
  BY TurnTyped DEF LandingInv
<1>2. Latest \in Nat \ {0} /\ Latest \in 1..Latest /\ "candidate" \in Stage
  BY DEF LandingInv, LandingTypeOK, Latest, Stage
<1>3. CASE Answers(t, "policy_failed")
  BY <1>3, AnswersSafe DEF Result, Rest
<1>4. CASE /\ Set(t, [turn[t] EXCEPT !.stage = "candidate", !.prev = Latest,
                                     !.kept = F, !.held = H])
           /\ UNCHANGED <<canonical, used>>
  <2> DEFINE w == [turn[t] EXCEPT !.stage = "candidate", !.prev = Latest,
                                  !.kept = F, !.held = H]
  <2>1. turn' = [turn EXCEPT ![t] = w] /\ canonical' = canonical /\ used' = used
    BY <1>4 DEF Set
  <2>2. w \in Turn
    BY <1>1, <1>2 DEF Turn
  <2>3. /\ w.stage = "candidate" /\ w.prev = Latest /\ w.seen = turn[t].seen
        /\ w.base = turn[t].base /\ w.work = turn[t].work /\ w.wrote = turn[t].wrote
        /\ w.repaired = turn[t].repaired /\ w.resumed = turn[t].resumed
        /\ w.first = turn[t].first /\ w.owed = turn[t].owed
        /\ w.earlier = turn[t].earlier
        /\ w.replay = turn[t].replay /\ w.kept = F /\ w.held = H
    BY <1>1 DEF Turn
  <2> HIDE DEF w
  <2>4. w.repaired \/ w.resumed \/ t \in Exact => w.held = {}
    <3>1. w.repaired => t \in Local
      BY <1>1, <2>3 DEF Sound, WellPlaced
    <3>2. Local \cap (Remote \cup Exact) = {} /\ Remote \cap Exact = {}
      BY LandingAssumption DEF Exact
    <3>3. QED
      BY <2>3, <3>1, <3>2 DEF MaySalvage
  <2>5. /\ w.seen \in 1..Latest /\ w.replay \in 0..Latest
        /\ w.replay # 0 => t \in Remote /\ ~Semantic(t, w.base, w.replay)
    BY <1>1, <2>3 DEF Sound, WellPlaced, WellGraded
  <2>6. t \in Local \/ w.resumed \/ w.prev \in {w.base, w.replay}
    BY <2>3 DEF Admissible
  <2>7. QED
    BY <1>1, <1>2, <2>1, <2>2, <2>3, <2>4, <2>5, <2>6, Carried
<1>5. QED
  BY <1>3, <1>4 DEF Apply

\* An empty changeset: what the task wrote is in its base, so it has landed.
LEMMA IntegrateEmptySafe ==
    ASSUME LandingInv, NEW t \in Tasks, IntegrateEmpty(t)
    PROVE  LandingInv'
<1>1. /\ turn[t].stage = "ready" /\ Patches(t) = {} /\ Answers(t, "empty")
      /\ Sound(t) /\ turn[t].wrote \in SUBSET Files
  BY TurnTyped DEF LandingInv, IntegrateEmpty, MayIntegrate
<1>2. ASSUME t \notin Rollbacks, NEW f \in turn[t].wrote
      PROVE  Landed(t, f)
  <2>1. t \in turn[t].work[f] /\ f \in Files
    BY <1>1, <1>2 DEF Sound, WellReported
  <2>2. turn[t].work[f] = At(turn[t].base)[f]
    BY <1>1, <2>1 DEF Patches
  <2>3. turn[t].base \in 1..Latest
    BY <1>1 DEF Sound, WellPlaced
  <2>4. QED
    BY <2>1, <2>2, <2>3 DEF LandingInv, BranchKnows
<1>3. QED
  BY <1>1, <1>2, AnswersSafe DEF Result, Rest

LEMMA IntegrateSafe ==
    ASSUME LandingInv, NEW t \in Tasks, Integrate(t)
    PROVE  LandingInv'
<1>1. /\ turn[t].stage = "ready" /\ Admissible(t)
      /\ Patches(t) \in SUBSET Files
  BY DEF Integrate, MayIntegrate, Patches
<1>2. PICK C \in SUBSET Contestable(t, Latest) :
          \/ C = {} /\ Apply(t, Patches(t), {})
          \/ /\ C # {} /\ MaySalvage(t) /\ Patches(t) \ C # {}
             /\ Apply(t, Patches(t) \ C, C)
          \/ C # {} /\ Answers(t, "conflict")
  BY DEF Integrate
<1>3. C \subseteq Patches(t)
  BY <1>2 DEF Contestable
<1>4. CASE C = {} /\ Apply(t, Patches(t), {})
  BY <1>1, <1>4, ApplySafe
<1>5. CASE MaySalvage(t) /\ Apply(t, Patches(t) \ C, C)
  BY <1>1, <1>3, <1>5, ApplySafe
<1>6. CASE Answers(t, "conflict")
  BY <1>1, <1>6, AnswersSafe DEF Result, Rest
<1>7. QED
  BY <1>2, <1>4, <1>5, <1>6

\* The answers that land nothing.
LEMMA RefusalSafe ==
    ASSUME LandingInv, NEW t \in Tasks,
           \/ IntegrateStale(t) \/ ValidationFails(t) \/ PromoteBeaten(t)
    PROVE  LandingInv'
BY AnswersSafe DEF IntegrateStale, MayIntegrate, ValidationFails, PromoteBeaten, Result, Rest

-----------------------------------------------------------------------------
(* Starting, reconciling and settling *)

\* Kinds of task do not overlap.
LEMMA Kinds ==
    /\ Rollbacks \cap (Remote \cup Local \cup Overlays) = {}
    /\ Local \cap (Remote \cup Exact) = {} /\ Remote \cap Exact = {}
    /\ Tasks = Remote \cup Local \cup Exact
BY LandingAssumption DEF Exact, Tasks

\* The trees of the branch, and what it knows of their authors.
LEMMA BranchTyped ==
    ASSUME LandingInv
    PROVE  /\ Latest \in Nat \ {0} /\ Latest \in 1..Latest /\ 1 \in 1..Latest
           /\ canonical \in Seq(Revision) /\ Len(canonical) = Latest
           /\ \A i \in 1..Latest : canonical[i] \in Revision /\ At(i) \in Tree
           /\ \A i \in 1..Latest : \A f \in Files : \A u \in At(i)[f] : Landed(u, f)
<1>1. canonical \in Seq(Revision) /\ Latest >= 1
  BY DEF LandingInv, LandingTypeOK
<1>2. Latest \in Nat \ {0} /\ Latest \in 1..Latest /\ 1 \in 1..Latest
  BY <1>1 DEF Latest
<1>3. \A i \in 1..Latest : canonical[i] \in Revision
  BY <1>1 DEF Latest
<1>4. \A i \in 1..Latest : At(i) \in Tree
  BY <1>3 DEF At, Revision
<1>5. QED
  BY <1>1, <1>2, <1>3, <1>4 DEF LandingInv, BranchKnows, Latest

\* A worktree of the latest revision, with the task's edits or a restored past.
LEMMA StartSafe ==
    ASSUME LandingInv, NEW t \in Tasks, NEW F \in SUBSET Files, NEW work \in Tree,
           Start(t, F, work),
           t \in Rollbacks => \E r \in 1..Latest :
               work = [f \in Files |-> IF f \in Plan[t] THEN At(r)[f]
                                       ELSE At(Latest)[f]],
           t \notin Rollbacks => work = Edited(t, F)
    PROVE  LandingInv'
<1> DEFINE s == IF t \in Remote THEN "running" ELSE "ready"
           w == [turn[t] EXCEPT !.stage = s, !.base = Latest,
                                !.wrote = F, !.work = work]
<1>1. turn' = [turn EXCEPT ![t] = w] /\ canonical' = canonical
  BY DEF Start, Set
<1>2. turn[t] \in Turn /\ Sound(t) /\ turn[t].stage = "queued" /\ turn \in [Tasks -> Turn]
  BY TurnTyped DEF LandingInv, Start
<1>3. used' \in Used
  <2>1. /\ used \in Used /\ used.starts < MaxStarts
        /\ used' = [used EXCEPT !.starts = @ + 1]
    BY DEF LandingInv, LandingTypeOK, Start
  <2>2. used.starts + 1 \in 0..MaxStarts
    BY <2>1, LandingAssumption DEF Used
  <2>3. QED
    BY <2>1, <2>2 DEF Used
<1>4. s \in Stage /\ (s = "running" => t \in Remote) /\ s \in {"running", "ready"}
  BY DEF Stage
<1> HIDE DEF s
<1>5. w \in Turn
  BY <1>2, <1>4, BranchTyped DEF Turn
<1>6. /\ w.stage = s /\ w.prev = turn[t].prev /\ w.seen = turn[t].seen
      /\ w.base = Latest /\ w.work = work /\ w.wrote = F
      /\ w.repaired = turn[t].repaired /\ w.resumed = turn[t].resumed
      /\ w.replay = turn[t].replay /\ w.held = turn[t].held
      /\ w.earlier = turn[t].earlier
  BY <1>2 DEF Turn
<1> HIDE DEF w
<1>7. turn'[t] = w
  BY <1>1, <1>2
<1>8. ~w.repaired /\ ~w.resumed /\ w.replay = 0 /\ w.earlier = {}
  BY <1>2, <1>6 DEF Sound, WellPlaced
<1>9. WellPlaced(t)'
  BY <1>1, <1>2, <1>4, <1>6, <1>7, <1>8, BranchTyped DEF WellPlaced, Sound, Latest
<1>10. WellGraded(t)'
  BY <1>4, <1>6, <1>7, <1>8 DEF WellGraded
<1>11. WellWorked(t)' /\ WellRemembered(t)'
  <2>1. WellRemembered(t)'
    BY <1>7, <1>8 DEF WellRemembered
  <2>2. CASE t \in Rollbacks
    <3>1. PICK r \in 1..Latest :
              work = [f \in Files |-> IF f \in Plan[t] THEN At(r)[f]
                                      ELSE At(Latest)[f]]
      BY <2>2
    <3>2. \A f \in Files : \A u \in work[f] : Landed(u, f)
      BY <3>1, BranchTyped
    <3>3. WellWorked(t)'
      BY <1>1, <1>6, <1>7, <1>8, <2>2, <3>1, <3>2 DEF WellWorked, Made, At, Landed, Latest
    <3>4. QED
      BY <2>1, <3>3
  <2>3. CASE t \notin Rollbacks
    <3>1. \A f \in Files : /\ At(Latest)[f] \subseteq work[f]
                           /\ work[f] \subseteq At(Latest)[f] \cup {t}
      BY <2>3 DEF Edited
    <3>2. \A f \in Files : \A u \in work[f] : u = t \/ Landed(u, f)
      BY <3>1, BranchTyped
    <3>3. WellWorked(t)'
      BY <1>1, <1>6, <1>7, <1>8, <2>3, <3>1, <3>2 DEF WellWorked, Made, At, Landed, Latest
    <3>4. QED
      BY <2>1, <3>3
  <2>4. QED
    BY <2>2, <2>3
<1>12. WellReported(t)'
  <2>1. t \notin Rollbacks => \A f \in F : t \in work[f]
    BY DEF Edited
  <2>2. QED
    BY <1>4, <1>6, <1>7, <1>8, <2>1 DEF WellReported
<1>13. QED
  BY <1>1, <1>3, <1>5, <1>9, <1>10, <1>11, <1>12, Steady DEF Sound

LEMMA StartWorkSafe ==
    ASSUME LandingInv, NEW t \in Tasks, StartWork(t)
    PROVE  LandingInv'
<1>1. PICK F \in IF turn[t].asked # {} THEN {turn[t].asked} ELSE Outputs[t] :
          Start(t, F, Edited(t, F))
  BY DEF StartWork
<1>2. F \in SUBSET Files
  BY <1>1, TurnTyped, LandingAssumption
<1>3. At(Latest) \in Tree
  BY BranchTyped
<1>4. Edited(t, F) \in Tree
  BY <1>3 DEF Edited, Tree
<1>5. QED
  BY <1>1, <1>2, <1>4, StartSafe DEF StartWork

LEMMA StartRollbackSafe ==
    ASSUME LandingInv, NEW t \in Tasks, StartRollback(t)
    PROVE  LandingInv'
<1> DEFINE Restored(r) == [f \in Files |-> IF f \in Plan[t] THEN At(r)[f]
                                           ELSE At(Latest)[f]]
<1>1. PICK r \in 1..Latest : Start(t, Plan[t], Restored(r))
  BY DEF StartRollback
<1>2. At(r) \in Tree /\ At(Latest) \in Tree
  BY BranchTyped
<1>3. Restored(r) \in Tree
  BY <1>2 DEF Tree
<1>4. Plan[t] \in SUBSET Files
  BY LandingAssumption
<1>5. QED
  BY <1>1, <1>3, <1>4, StartSafe DEF StartRollback

\* A reconciled worktree is based on the latest revision, stays in the plan
\* and still holds what the task wrote.
LEMMA ReconcileSafe ==
    ASSUME LandingInv, NEW t \in Tasks, Reconcile(t)
    PROVE  LandingInv'
<1> DEFINE x == turn[t].result
           o == turn[t].held
           k == Reconciled(t)
           c == [base |-> turn[t].base, work |-> turn[t].work]
           w == [turn[t] EXCEPT
                   !.stage = "ready", !.repaired = TRUE, !.first = x,
                   !.earlier = {c}, !.owed = o, !.base = Latest, !.work = k,
                   !.kept = {}, !.held = {}, !.result = "none"]
<1>1. turn' = [turn EXCEPT ![t] = w] /\ canonical' = canonical /\ used' = used
  BY DEF Reconcile, Set
<1>2. /\ turn[t] \in Turn /\ turn \in [Tasks -> Turn] /\ Sound(t)
      /\ turn[t].stage = "answered" /\ t \in Local /\ ~turn[t].repaired
      /\ x \in Result /\ o \in SUBSET Files /\ turn[t].work \in Tree
  BY TurnTyped DEF LandingInv, Reconcile
<1>3. x \in {"conflict", "integrated"}
  BY DEF Reconcile, Contested
<1>4. At(Latest) \in Tree
  BY BranchTyped
<1>5. k = [f \in Files |-> IF f \in Contested(t) THEN At(Latest)[f] \cup {t}
                           ELSE turn[t].work[f]]
  BY DEF Reconciled
<1>6. k \in Tree
  BY <1>2, <1>4 DEF Reconciled, Tree
<1>7. "ready" \in Stage /\ "none" \in Result /\ {} \in SUBSET Files
  BY DEF Stage, Result
<1>c. {c} \in SUBSET [base : Nat \ {0}, work : Tree]
  BY TurnTyped
<1> HIDE DEF x, o, k, c
<1>8. w \in Turn
  BY <1>2, <1>6, <1>7, <1>c, BranchTyped DEF Turn
<1>9. /\ w.stage = "ready" /\ w.prev = turn[t].prev /\ w.seen = turn[t].seen
      /\ w.base = Latest /\ w.work = k /\ w.wrote = turn[t].wrote
      /\ w.repaired = TRUE /\ w.resumed = turn[t].resumed
      /\ w.first = x /\ w.owed = o /\ w.result = "none" /\ w.earlier = {c}
      /\ w.replay = turn[t].replay /\ w.held = {}
  BY <1>2 DEF Turn
<1> HIDE DEF w
<1>10. turn'[t] = w
  BY <1>1, <1>2
<1>11. t \notin Rollbacks /\ t \notin Remote
  BY <1>2, Kinds
<1>12. WellPlaced(t)'
  <2>1. Patches(t)' = Collected(t)
    <3>1. Reconciled(t) = k
      BY DEF k
    <3>2. turn'[t].work = k /\ turn'[t].base = Latest
      BY <1>9, <1>10
    <3>3. QED
      BY <1>1, <3>1, <3>2 DEF Patches, Collected, At
  <2>2. Patches(t)' \subseteq Plan[t]
    BY <2>1 DEF Reconcile
  <2>3. Latest' = Latest
    BY <1>1 DEF Latest
  <2>4. QED
    BY <1>2, <1>9, <1>10, <2>2, <2>3, BranchTyped DEF WellPlaced, Sound
<1>13. WellGraded(t)'
  BY <1>2, <1>9, <1>10, <1>11 DEF WellGraded, Sound
<1>14. WellWorked(t)'
  <2>1. \A f \in Files : \A u \in k[f] : u = t \/ Landed(u, f)
    BY <1>2, <1>5, BranchTyped DEF Sound, WellWorked
  <2>2. QED
    BY <1>1, <1>9, <1>10, <1>11, <2>1 DEF WellWorked, Landed, Latest
<1>r. WellRemembered(t)'
  <2>1. c.base = turn[t].base /\ c.work = turn[t].work
    BY DEF c
  <2>2. /\ turn[t].base \in 1..Latest /\ Made(t, turn[t].base, turn[t].work)
        /\ \A f \in turn[t].wrote : t \in turn[t].work[f]
    BY <1>2, <1>11 DEF Sound, WellPlaced, WellWorked, WellReported
  <2>3. \A b, work : Made(t, b, work)' <=> Made(t, b, work)
    BY <1>1 DEF Made, At
  <2>4. QED
    BY <1>1, <1>2, <1>9, <1>10, <2>1, <2>2, <2>3 DEF WellRemembered, Latest
<1>15. WellReported(t)'
  <2>1. \A f \in turn[t].wrote : t \in k[f]
    <3>1. turn[t].wrote \subseteq Files /\ \A f \in turn[t].wrote : t \in turn[t].work[f]
      BY <1>2, <1>11, TurnTyped DEF Sound, WellReported
    <3>2. QED
      BY <1>5, <3>1
  <2>2. x = "integrated" => \A f \in turn[t].wrote : Landed(t, f) \/ f \in o
    BY <1>2, <1>11 DEF Sound, WellReported, x, o
  <2>3. QED
    BY <1>1, <1>3, <1>9, <1>10, <2>1, <2>2 DEF WellReported, Landed, Latest
<1>16. QED
  BY <1>1, <1>8, <1>12, <1>13, <1>14, <1>15, <1>r, Steady DEF Sound

\* What an answered turn may report.
LEMMA Reported ==
    ASSUME LandingInv, NEW t \in Remote \cup Local,
           turn[t].stage \in {"answered", "reported"}
    PROVE  /\ turn[t].result = "integrated" =>
                  \A f \in turn[t].wrote : Landed(t, f) \/ f \in turn[t].held
           /\ turn[t].result = "empty" => \A f \in turn[t].wrote : Landed(t, f)
           /\ turn[t].stage = "reported" => turn[t].result = "integrated"
           /\ turn[t].repaired /\ ~turn[t].resumed => turn[t].held = {} /\
                  turn[t].first \in {"conflict", "integrated"}
           /\ turn[t].repaired /\ ~turn[t].resumed /\ turn[t].first = "integrated" =>
                  \A f \in turn[t].wrote : Landed(t, f) \/ f \in turn[t].owed
           /\ turn[t].resumed => turn[t].held = {}
<1>1. t \in Tasks /\ t \notin Rollbacks
  BY Kinds
<1>2. Sound(t)
  BY <1>1 DEF LandingInv
<1>3. QED
  BY <1>1, <1>2 DEF Sound, WellReported, WellPlaced

LEMMA SettleSafe ==
    ASSUME LandingInv, NEW t \in Tasks,
           \/ SettleRemote(t) \/ QueueRemainder(t)
           \/ SettleExact(t) \/ SettleLocal(t) \/ SettleResumed(t)
    PROVE  LandingInv'
<1>0. turn[t].held \in SUBSET Files /\ turn[t].owed \in SUBSET Files
  BY TurnTyped
<1>1. CASE SettleRemote(t)
  <2>1. CASE turn[t].result = "integrated" /\ Moves(t, "answered", "reported")
    BY <1>1, <2>1, ReportSafe DEF SettleRemote
  <2>2. CASE turn[t].result = "empty" /\ Ends(t, Done(t, {}))
    <3>1. \A f \in turn[t].wrote : Landed(t, f)
      BY <1>1, <2>2, Reported DEF SettleRemote
    <3>2. QED
      BY <2>2, <3>1, DoneSafe
  <2>3. CASE Requeue(t) \/ Ends(t, Failed(t))
    BY <2>3, RequeueSafe, FailedSafe
  <2>4. QED
    BY <1>1, <2>1, <2>2, <2>3 DEF SettleRemote
<1>2. CASE QueueRemainder(t)
  <2>1. t \in Remote
    BY <1>2 DEF QueueRemainder, LandingInv, Sound, WellPlaced
  <2>2. \A f \in turn[t].wrote : Landed(t, f) \/ f \in turn[t].held
    BY <1>2, <2>1, Reported DEF QueueRemainder
  <2>3. QED
    BY <1>0, <1>2, <2>2, DoneSafe DEF QueueRemainder
<1>3. CASE SettleExact(t)
  <2>1. t \notin Remote \cup Local
    BY <1>3, Kinds DEF SettleExact
  <2>2. CASE Ends(t, Done(t, {}))
    BY <2>1, <2>2, DoneSafe
  <2>3. CASE Ends(t, Failed(t))
    BY <2>3, FailedSafe
  <2>4. QED
    BY <1>3, <2>2, <2>3 DEF SettleExact
<1>4. CASE SettleLocal(t)
  <2>1. CASE Outcome(t) = "integrated" /\ Ends(t, Done(t, Remainder(t)))
    <3>1. \A f \in turn[t].wrote : Landed(t, f) \/ f \in Remainder(t)
      BY <1>4, <2>1, Reported DEF SettleLocal, Outcome, Remainder
    <3>2. Remainder(t) \in SUBSET Files
      BY <1>0 DEF Remainder
    <3>3. QED
      BY <2>1, <3>1, <3>2, DoneSafe
  <2>2. CASE /\ Outcome(t) = "integrated"
             /\ Ends(t, [Done(t, {}) EXCEPT !.told = Remainder(t)])
    <3>1. \A f \in turn[t].wrote : Landed(t, f) \/ f \in Remainder(t)
      BY <1>4, <2>2, Reported DEF SettleLocal, Outcome, Remainder
    <3>2. Remainder(t) \in SUBSET Files
      BY <1>0 DEF Remainder
    <3>3. QED
      BY <2>2, <3>1, <3>2, ToldSafe
  <2>3. CASE Outcome(t) = "empty" /\ Ends(t, Done(t, {}))
    <3>1. \A f \in turn[t].wrote : Landed(t, f)
      BY <1>4, <2>3, Reported DEF SettleLocal, Outcome
    <3>2. QED
      BY <2>3, <3>1, DoneSafe
  <2>4. CASE Ends(t, Failed(t))
    BY <2>4, FailedSafe
  <2>5. QED
    BY <1>4, <2>1, <2>2, <2>3, <2>4 DEF SettleLocal
<1>5. CASE SettleResumed(t)
  <2>1. CASE turn[t].result = "integrated" /\ Ends(t, Done(t, {}))
    <3>1. t \in Remote \cup Local => \A f \in turn[t].wrote : Landed(t, f)
      BY <1>5, <2>1, Reported DEF SettleResumed
    <3>2. QED
      BY <2>1, <3>1, DoneSafe
  <2>2. CASE \E after \in Dropped(t) : Ends(t, after)
    BY <2>2, DroppedSafe
  <2>3. QED
    BY <1>5, <2>1, <2>2 DEF SettleResumed
<1>6. QED
  BY <1>1, <1>2, <1>3, <1>4, <1>5

\* A refused review, a promotion that finds the ref locked, and a throw while
\* the outcome is recorded.
LEMMA GivenUpSafe ==
    ASSUME LandingInv, NEW t \in Tasks,
           ReviewRefused(t) \/ PromoteThrows(t) \/ SettleThrows(t)
    PROVE  LandingInv'
<1>1. CASE ReviewRefused(t)
  BY <1>1, FailedSafe DEF ReviewRefused
<1>2. CASE \E after \in Thrown(t) : Ends(t, after)
  BY <1>2, DroppedSafe
<1>3. CASE Ends(t, CutOff(t))
  BY <1>3, CutTyped, Restarted DEF Rest
<1>4. QED
  BY <1>1, <1>2, <1>3 DEF PromoteThrows, SettleThrows

-----------------------------------------------------------------------------
(* A restart *)

\* A changeset that is integrated again: the turn's own, or the one its
\* repair began with.
LEMMA ResumedSound ==
    ASSUME LandingInv, canonical' = canonical, NEW t \in Tasks,
           turn[t].stage \notin {"settled", "failed"},
           NEW b \in 1..Latest, NEW k \in Tree, NEW p \in BOOLEAN,
           NEW e \in SUBSET [base : Nat \ {0}, work : Tree],
           e \subseteq turn[t].earlier,
           p => t \in Local /\ b = turn[t].base /\ k = turn[t].work /\ turn[t].repaired,
           t \in Rollbacks => b = turn[t].base /\ k = turn[t].work,
           t \notin Rollbacks /\ ~p => Made(t, b, k),
           t \notin Rollbacks => \A f \in turn[t].wrote : t \in k[f],
           \A f \in Files : \A u \in k[f] : u = t \/ Landed(u, f),
           turn'[t] = Again(t, b, k, p, e)
    PROVE  turn'[t] \in Turn /\ Sound(t)'
<1> DEFINE q == Queued(t)
           v == turn[t].wrote
           w == [q EXCEPT !.stage = "ready", !.resumed = TRUE, !.base = b,
                          !.work = k, !.wrote = v, !.repaired = p, !.earlier = e]
<1>1. /\ q \in Turn /\ q.prev = 1 /\ q.seen = 1 /\ q.replay = 0 /\ q.held = {}
      /\ "ready" \in Stage /\ v \in SUBSET Files
  BY QueuedTyped, TurnTyped DEF Blank, Stage
<1>2. Latest \in Nat \ {0} /\ b \in Nat \ {0} /\ 1 \in 1..Latest /\ 0 \in 0..Latest
  BY BranchTyped
<1>3. turn'[t] = w
  BY DEF Again
<1>4. Sound(t)
  BY DEF LandingInv
<1> HIDE DEF q, v
<1>5. w \in Turn
  <2> DEFINE w1 == [q EXCEPT !.stage = "ready", !.resumed = TRUE, !.base = b,
                             !.work = k]
             w2 == [w1 EXCEPT !.wrote = v]
             w3 == [w2 EXCEPT !.repaired = p]
             w4 == [w3 EXCEPT !.earlier = e]
  <2>1. w1 \in Turn
    BY <1>1, <1>2 DEF Turn
  <2> HIDE DEF w1
  <2>2. w2 \in Turn
    BY <1>1, <2>1 DEF Turn
  <2> HIDE DEF w2
  <2>3. w3 \in Turn
    BY <1>1, <2>2 DEF Turn
  <2> HIDE DEF w3
  <2>4. w4 \in Turn
    BY <1>1, <2>3 DEF Turn
  <2>5. QED
    BY <2>4 DEF w1, w2, w3
<1>6. /\ w.stage = "ready" /\ w.resumed = TRUE /\ w.base = b /\ w.work = k
      /\ w.wrote = v /\ w.repaired = p /\ w.earlier = e
      /\ w.prev = 1 /\ w.seen = 1 /\ w.replay = 0 /\ w.held = {}
  BY <1>1 DEF Turn
<1> HIDE DEF w
<1>7. /\ Latest' = Latest /\ \A i : At(i)' = At(i)
      /\ \A u, f : Landed(u, f)' <=> Landed(u, f)
  BY DEF Latest, At, Landed
<1>8. WellPlaced(t)'
  <2>1. p => t \in Local /\ Patches(t)' \subseteq Plan[t]
    <3> HAVE p
    <3>1. Patches(t)' = Patches(t)
      BY <1>3, <1>6, <1>7 DEF Patches
    <3>2. QED
      BY <1>4, <3>1 DEF Sound, WellPlaced
  <2>2. w.base \in 1..Latest /\ w.prev \in 1..Latest /\ w.seen \in 1..Latest
        /\ w.replay \in 0..Latest
    BY <1>2, <1>6
  <2>3. QED
    BY <1>3, <1>6, <1>7, <2>1, <2>2 DEF WellPlaced
<1>9. WellGraded(t)'
  BY <1>3, <1>6 DEF WellGraded
<1>10. WellWorked(t)'
  <2>1. t \in Rollbacks => \E r \in 1..b : k =
            [f \in Files |-> IF f \in Plan[t] THEN At(r)[f] ELSE At(b)[f]]
    <3> HAVE t \in Rollbacks
    <3>1. b = turn[t].base /\ k = turn[t].work
      OBVIOUS
    <3>2. QED
      BY <1>4, <3>1 DEF Sound, WellWorked
  <2>2. t \in Rollbacks => \E r \in 1..b : k =
            [f \in Files |-> IF f \in Plan[t] THEN At(r)'[f] ELSE At(b)'[f]]
    BY <1>7, <2>1
  <2>3. t \notin Rollbacks /\ ~p => Made(t, b, k)'
    BY <1>7 DEF Made
  <2>4. QED
    BY <1>3, <1>6, <1>7, <2>2, <2>3 DEF WellWorked
<1>11. WellRemembered(t)'
  <2>1. \A c \in e : /\ c.base \in 1..Latest /\ t \in Local /\ Made(t, c.base, c.work)
                     /\ \A f \in v : t \in c.work[f]
    BY <1>4 DEF Sound, WellRemembered, v
  <2>2. \A c \in e : Made(t, c.base, c.work)'
    BY <1>7, <2>1 DEF Made
  <2>3. QED
    BY <1>3, <1>6, <1>7, <2>1, <2>2 DEF WellRemembered
<1>12. WellReported(t)'
  BY <1>3, <1>6, <1>7 DEF WellReported, v
<1>13. QED
  BY <1>3, <1>5, <1>8, <1>9, <1>10, <1>11, <1>12 DEF Sound

\* What a restart makes of a turn.
LEMMA SurvivorSound ==
    ASSUME LandingInv, canonical' = canonical, NEW t \in Tasks,
           turn'[t] \in Survivors(t)
    PROVE  turn'[t] \in Turn /\ Sound(t)'
<1>1. /\ turn[t] \in Turn /\ Sound(t) /\ turn[t].work \in Tree
      /\ turn[t].repaired \in BOOLEAN /\ turn[t].base \in 1..Latest
      /\ turn[t].earlier \in SUBSET [base : Nat \ {0}, work : Tree]
  BY TurnTyped DEF LandingInv, Sound, WellPlaced
<1>2. canonical'[1] = Seed /\ Latest' \in Nat \ {0}
  BY DEF LandingInv, LandingTypeOK, BranchKnows, Latest
<1>3. CASE turn'[t] = turn[t]
  BY <1>1, <1>3, Undisturbed
<1>4. CASE turn'[t] = Queued(t)
  BY <1>2, <1>4, QueuedTyped, FreshSound DEF Rest
<1>5. CASE turn'[t] = Failed(t)
  BY <1>2, <1>5, FailedTyped, FreshSound DEF Rest
<1>6. CASE turn'[t] = CutOff(t)
  BY <1>2, <1>6, CutTyped, FreshSound DEF Rest
<1>7. CASE turn[t].stage \notin {"settled", "failed"} /\ turn'[t] = Resumed(t)
  <2>1. turn[t].repaired => t \in Local
    BY <1>1 DEF Sound, WellPlaced
  <2>2. /\ t \notin Rollbacks /\ ~turn[t].repaired => Made(t, turn[t].base, turn[t].work)
        /\ \A f \in Files : \A u \in turn[t].work[f] : u = t \/ Landed(u, f)
    BY <1>1 DEF Sound, WellWorked
  <2>3. t \notin Rollbacks => \A f \in turn[t].wrote : t \in turn[t].work[f]
    BY <1>1, <1>7 DEF Sound, WellReported
  <2> DEFINE b == turn[t].base
             k == turn[t].work
             p == turn[t].repaired
             e == turn[t].earlier
  <2>4. /\ b \in 1..Latest /\ k \in Tree /\ p \in BOOLEAN
        /\ e \in SUBSET [base : Nat \ {0}, work : Tree]
        /\ turn'[t] = Again(t, b, k, p, e)
    BY <1>1, <1>7 DEF Resumed
  <2> HIDE DEF b, k, p, e
  <2>5. /\ p => t \in Local /\ b = turn[t].base /\ k = turn[t].work /\ turn[t].repaired
        /\ t \in Rollbacks => b = turn[t].base /\ k = turn[t].work
        /\ e \subseteq turn[t].earlier
    BY <2>1 DEF b, k, p, e
  <2>6. /\ t \notin Rollbacks /\ ~p => Made(t, b, k)
        /\ t \notin Rollbacks => \A f \in turn[t].wrote : t \in k[f]
        /\ \A f \in Files : \A u \in k[f] : u = t \/ Landed(u, f)
    BY <2>2, <2>3 DEF b, k, p
  <2>7. QED
    BY <1>7, <2>4, <2>5, <2>6, ResumedSound
<1>8. CASE turn[t].stage \notin {"settled", "failed"} /\ turn'[t] \in ResumedEarlier(t)
  <2>1. PICK c \in turn[t].earlier : turn'[t] = Again(t, c.base, c.work, FALSE, {})
    BY <1>8 DEF ResumedEarlier
  <2> DEFINE b == c.base
             k == c.work
             e == {}
  <2>2. /\ b \in 1..Latest /\ k \in Tree /\ t \in Local /\ Made(t, b, k)
        /\ \A f \in turn[t].wrote : t \in k[f]
    BY <1>1, <2>1 DEF Sound, WellRemembered
  <2>3. t \notin Rollbacks
    BY <2>2, Kinds
  <2>4. \A f \in Files : \A u \in k[f] : u = t \/ Landed(u, f)
    BY <2>2, BranchTyped DEF Made
  <2>5. /\ turn'[t] = Again(t, b, k, FALSE, e) /\ e \subseteq turn[t].earlier
        /\ e \in SUBSET [base : Nat \ {0}, work : Tree]
    BY <2>1
  <2> HIDE DEF b, k, e
  <2>6. QED
    BY <1>8, <2>2, <2>3, <2>4, <2>5, ResumedSound
<1>9. turn'[t] \in Dropped(t) => turn'[t] = Queued(t) \/ turn'[t] = Failed(t)
  BY DEF Dropped
<1>10. QED
  BY <1>3, <1>4, <1>5, <1>6, <1>7, <1>8, <1>9 DEF Survivors, Rest

LEMMA CrashSafe ==
    ASSUME LandingInv, Crash
    PROVE  LandingInv'
<1>1. /\ canonical' = canonical
      /\ turn' \in [Tasks -> UNION {Survivors(t) : t \in Tasks}]
      /\ \A t \in Tasks : turn'[t] \in Survivors(t)
  BY DEF Crash
<1>2. used' \in Used
  <2>1. /\ used \in Used /\ used.crashes < MaxCrashes
        /\ used' = [used EXCEPT !.crashes = @ + 1]
    BY DEF LandingInv, LandingTypeOK, Crash
  <2>2. used.crashes + 1 \in 0..MaxCrashes
    BY <2>1, LandingAssumption DEF Used
  <2>3. QED
    BY <2>1, <2>2 DEF Used
<1>3. \A t \in Tasks : turn'[t] \in Turn /\ Sound(t)'
  BY <1>1, SurvivorSound
<1>4. turn' \in [Tasks -> Turn]
  BY <1>1, <1>3
<1>5. QED
  BY <1>1, <1>2, <1>3, <1>4, Kept

-----------------------------------------------------------------------------
(* The promotion *)

\* The branch only grows, and what has landed stays landed.
LEMMA Grown ==
    ASSUME LandingInv, NEW c \in Revision, canonical' = Append(canonical, c)
    PROVE  /\ Latest' = Latest + 1 /\ Latest \in Nat \ {0}
           /\ canonical' \in Seq(Revision)
           /\ canonical'[Latest + 1] = c
           /\ \A i \in 1..Latest : canonical'[i] = canonical[i]
           /\ \A u, f : Landed(u, f) => Landed(u, f)'
           /\ \A u, f : c.by = u /\ u \in c.tree[f] => Landed(u, f)'
<1>1. canonical \in Seq(Revision) /\ Latest \in Nat \ {0} /\ Len(canonical) = Latest
  BY BranchTyped
<1>2. /\ Latest' = Latest + 1 /\ canonical' \in Seq(Revision)
      /\ canonical'[Latest + 1] = c
      /\ \A i \in 1..Latest : canonical'[i] = canonical[i]
  BY <1>1 DEF Latest
<1>3. ASSUME NEW u, NEW f, Landed(u, f) PROVE Landed(u, f)'
  <2>1. PICK i \in 2..Latest : canonical[i].by = u /\ u \in canonical[i].tree[f]
    BY <1>3 DEF Landed
  <2>2. i \in 1..Latest /\ i \in 2..Latest'
    BY <1>1, <1>2, <2>1
  <2>3. QED
    BY <1>2, <2>1, <2>2 DEF Landed
<1>4. ASSUME NEW u, NEW f, c.by = u, u \in c.tree[f] PROVE Landed(u, f)'
  <2>1. Latest + 1 \in 2..Latest'
    BY <1>1, <1>2
  <2>2. QED
    BY <1>2, <1>4, <2>1 DEF Landed
<1>5. QED
  BY <1>1, <1>2, <1>3, <1>4

\* Trees and advances between the revisions there were are what they were.
LEMMA PastStands ==
    ASSUME LandingInv, NEW c \in Revision, canonical' = Append(canonical, c)
    PROVE  /\ \A i \in 1..Latest : At(i)' = At(i)
           /\ \A u, b, r : b \in 1..Latest /\ r \in 1..Latest =>
                  (Semantic(u, b, r)' <=> Semantic(u, b, r))
           /\ \A u \in Tasks : turn[u].base \in 1..Latest /\
                  turn'[u].base = turn[u].base /\ turn'[u].work = turn[u].work =>
                  Patches(u)' = Patches(u)
<1>1. \A i \in 1..Latest : canonical'[i] = canonical[i]
  BY Grown
<1>2. QED
  BY <1>1 DEF At, Semantic, Advance, Patches

\* Whoever keeps its base and its worktree keeps what they are made of.
LEMMA WorkStands ==
    ASSUME LandingInv, NEW c \in Revision, canonical' = Append(canonical, c),
           NEW k \in Tasks, turn'[k].base = turn[k].base,
           turn'[k].work = turn[k].work, turn'[k].repaired = turn[k].repaired,
           turn'[k].earlier = turn[k].earlier, turn'[k].wrote = turn[k].wrote
    PROVE  WellWorked(k)' /\ WellRemembered(k)'
<1>1. WellWorked(k) /\ turn[k].base \in 1..Latest
  BY DEF LandingInv, Sound, WellPlaced
<1>2. \A i \in 1..Latest : canonical'[i].tree = canonical[i].tree
  BY Grown
<1>3. Latest \in Nat \ {0} /\ \A u, f : Landed(u, f) => Landed(u, f)'
  BY Grown
<1>4. \A r \in 1..turn[k].base : r \in 1..Latest
  BY <1>1, <1>3
<1>5. k \in Rollbacks => \E r \in 1..turn'[k].base : turn'[k].work =
          [f \in Files |-> IF f \in Plan[k] THEN canonical'[r].tree[f]
                           ELSE canonical'[turn'[k].base].tree[f]]
  <2> HAVE k \in Rollbacks
  <2>1. PICK r \in 1..turn[k].base : turn[k].work =
            [f \in Files |-> IF f \in Plan[k] THEN canonical[r].tree[f]
                             ELSE canonical[turn[k].base].tree[f]]
    BY <1>1 DEF WellWorked, At
  <2>2. canonical'[r].tree = canonical[r].tree
    BY <1>2, <1>4
  <2>3. canonical'[turn[k].base].tree = canonical[turn[k].base].tree
    BY <1>1, <1>2
  <2>4. r \in 1..turn'[k].base
    BY <2>1
  <2> WITNESS r \in 1..turn'[k].base
  <2>5. QED
    BY <2>1, <2>2, <2>3
<1>6. k \notin Rollbacks /\ ~turn'[k].repaired => Made(k, turn[k].base, turn[k].work)'
  BY <1>1, <1>2 DEF WellWorked, Made, At
<1>7. \A f \in Files : \A u \in turn'[k].work[f] : u = k \/ Landed(u, f)'
  BY <1>1, <1>3 DEF WellWorked
<1>8. WellRemembered(k)'
  <2> SUFFICES ASSUME NEW d \in turn[k].earlier
               PROVE  /\ d.base \in 1..Latest' /\ k \in Local
                      /\ Made(k, d.base, d.work)'
                      /\ \A f \in turn[k].wrote : k \in d.work[f]
    BY DEF WellRemembered
  <2>1. /\ d.base \in 1..Latest /\ k \in Local /\ Made(k, d.base, d.work)
        /\ \A f \in turn[k].wrote : k \in d.work[f]
    BY DEF LandingInv, Sound, WellRemembered
  <2>2. d.base \in 1..Latest'
    BY <1>3, <2>1, Grown
  <2>3. QED
    BY <1>2, <2>1, <2>2 DEF Made, At
<1>9. QED
  BY <1>5, <1>6, <1>7, <1>8 DEF WellWorked, At

\* A landing does not disturb the turns it is not of.
LEMMA Overtaken ==
    ASSUME LandingInv, NEW c \in Revision, canonical' = Append(canonical, c),
           NEW k \in Tasks, turn'[k] = turn[k]
    PROVE  Sound(k)'
<1>1. Sound(k)
  BY DEF LandingInv
<1>2. /\ Latest' = Latest + 1 /\ Latest \in Nat \ {0}
      /\ \A u, f : Landed(u, f) => Landed(u, f)'
  BY Grown
<1>3. /\ turn[k].base \in 1..Latest /\ turn[k].prev \in 1..Latest
      /\ turn[k].seen \in 1..Latest /\ turn[k].replay \in 0..Latest
  BY <1>1 DEF Sound, WellPlaced
<1>4. Patches(k)' = Patches(k)
  BY <1>3, PastStands
<1>5. WellPlaced(k)'
  <2>1. /\ turn[k].base \in 1..Latest' /\ turn[k].prev \in 1..Latest'
        /\ turn[k].seen \in 1..Latest' /\ turn[k].replay \in 0..Latest'
    BY <1>2, <1>3
  <2>2. QED
    BY <1>1, <1>4, <2>1 DEF Sound, WellPlaced
<1>6. WellGraded(k)'
  <2>1. turn[k].replay # 0 => turn[k].replay \in 1..Latest
    BY <1>2, <1>3
  <2>2. turn[k].replay # 0 =>
            /\ canonical'[turn[k].base] = canonical[turn[k].base]
            /\ canonical'[turn[k].replay] = canonical[turn[k].replay]
    BY <1>3, <2>1, Grown
  <2>3. QED
    BY <1>1, <1>4, <2>2 DEF Sound, WellGraded, Semantic, Advance, At
<1>7. WellWorked(k)' /\ WellRemembered(k)'
  BY WorkStands
<1>8. WellReported(k)'
  BY <1>1, <1>2 DEF Sound, WellReported
<1>9. QED
  BY <1>5, <1>6, <1>7, <1>8 DEF Sound

\* The candidate is made of edits that landed before and of the task's own,
\* and holds every edit the task is to report.
LEMMA CandidateKnown ==
    ASSUME LandingInv, NEW t \in Tasks, turn[t].stage = "candidate"
    PROVE  LET tree == Candidate(t, turn[t].kept, Latest) IN
           /\ tree \in Tree
           /\ \A f \in Files : \A u \in tree[f] : u = t \/ Landed(u, f)
           /\ t \notin Rollbacks => \A f \in turn[t].wrote :
                  t \in tree[f] \/ Landed(t, f) \/ f \in turn[t].held
<1> DEFINE b == turn[t].base
           k == turn[t].work
           tree == Candidate(t, turn[t].kept, Latest)
<1>1. /\ Sound(t) /\ k \in Tree /\ turn[t].kept \in SUBSET Files
      /\ turn[t].wrote \in SUBSET Files
  BY TurnTyped DEF LandingInv
<1>2. /\ b \in 1..Latest /\ At(b) \in Tree /\ At(Latest) \in Tree
  BY <1>1, BranchTyped DEF Sound, WellPlaced
<1>3. /\ \A f \in Files : \A u \in At(Latest)[f] : Landed(u, f)
      /\ \A f \in Files : \A u \in At(b)[f] : Landed(u, f)
  BY <1>2, BranchTyped
<1>4. \A f \in Files : \A u \in k[f] : u = t \/ Landed(u, f)
  BY <1>1 DEF Sound, WellWorked
<1>5. tree = [f \in Files |->
                 IF f \in turn[t].kept
                 THEN (At(Latest)[f] \ (At(b)[f] \ k[f])) \cup (k[f] \ At(b)[f])
                 ELSE At(Latest)[f]]
  BY DEF Candidate, Merge
<1>6. turn[t].kept \cup turn[t].held = {f \in Files : k[f] # At(b)[f]}
  BY <1>1 DEF Sound, WellGraded, Patches
<1>7. t \notin Rollbacks => \A f \in turn[t].wrote : t \in k[f]
  BY <1>1 DEF Sound, WellReported
<1> HIDE DEF b, k, tree
<1>8. tree \in Tree
  BY <1>1, <1>2, <1>5 DEF Tree
<1>9. \A f \in Files : \A u \in tree[f] : u = t \/ Landed(u, f)
  BY <1>3, <1>4, <1>5
<1>10. ASSUME t \notin Rollbacks, NEW f \in turn[t].wrote,
              ~Landed(t, f), f \notin turn[t].held
       PROVE  t \in tree[f]
  <2>1. f \in Files /\ t \in k[f] /\ t \notin At(b)[f]
    BY <1>1, <1>3, <1>7, <1>10
  <2>2. f \in turn[t].kept
    BY <1>6, <1>10, <2>1
  <2>3. QED
    BY <1>5, <2>1, <2>2
<1>11. QED
  BY <1>8, <1>9, <1>10 DEF tree

\* The revision a candidate lands on is its base or was graded for it.
LEMMA LandsWhereItMay ==
    ASSUME LandingInv, NEW t \in Tasks, turn[t].stage = "candidate",
           turn[t].prev = Latest, ~turn[t].resumed
    PROVE  /\ t \in Remote => ~Semantic(t, turn[t].base, Latest)
           /\ t \in Exact => turn[t].base = Latest
<1>1. Sound(t) /\ Latest \in Nat \ {0}
  BY BranchTyped DEF LandingInv
<1>2. t \notin Local => Latest \in {turn[t].base, turn[t].replay}
  BY <1>1 DEF Sound, WellGraded
<1>3. ASSUME t \in Remote PROVE ~Semantic(t, turn[t].base, Latest)
  <2>1. Latest \in {turn[t].base, turn[t].replay}
    BY <1>2, <1>3, Kinds
  <2>2. ~Semantic(t, Latest, Latest)
    BY DEF Semantic, Advance
  <2>3. turn[t].replay # 0 => ~Semantic(t, turn[t].base, turn[t].replay)
    BY <1>1 DEF Sound, WellGraded
  <2>4. QED
    BY <1>1, <2>1, <2>2, <2>3
<1>4. ASSUME t \in Exact PROVE turn[t].base = Latest
  BY <1>1, <1>2, <1>4, Kinds DEF Sound, WellGraded
<1>5. QED
  BY <1>3, <1>4

\* The revision that is committed.
LEMMA CommitTyped ==
    ASSUME LandingInv, NEW t \in Tasks, Lands(t)
    PROVE  /\ Commit(t) \in Revision /\ canonical' = Append(canonical, Commit(t))
           /\ used' = used /\ turn[t].stage = "candidate" /\ turn[t].prev = Latest
           /\ Commit(t).tree = Candidate(t, turn[t].kept, Latest)
           /\ Commit(t).by = t /\ Commit(t).base = turn[t].base
           /\ Commit(t).recovered = turn[t].resumed
           /\ \A f \in Files : \A u \in Commit(t).tree[f] : u = t \/ Landed(u, f)
           /\ t \notin Rollbacks => \A f \in turn[t].wrote :
                  t \in Commit(t).tree[f] \/ Landed(t, f) \/ f \in turn[t].held
<1> DEFINE tree == Candidate(t, turn[t].kept, Latest)
<1>1. /\ canonical' = Append(canonical, Commit(t)) /\ used' = used
      /\ turn[t].stage = "candidate" /\ turn[t].prev = Latest
  BY DEF Lands
<1>2. turn[t].base \in Nat \ {0} /\ turn[t].resumed \in BOOLEAN
  BY TurnTyped DEF Turn
<1>3. /\ tree \in Tree
      /\ \A f \in Files : \A u \in tree[f] : u = t \/ Landed(u, f)
      /\ t \notin Rollbacks => \A f \in turn[t].wrote :
             t \in tree[f] \/ Landed(t, f) \/ f \in turn[t].held
  BY <1>1, CandidateKnown
<1>4. Commit(t) = [tree |-> tree, by |-> t, base |-> turn[t].base,
                   recovered |-> turn[t].resumed]
  BY <1>1 DEF Commit
<1> HIDE DEF tree
<1>5. QED
  BY <1>1, <1>2, <1>3, <1>4 DEF Revision, tree

\* A landing keeps the invariant when it leaves its own turn sound.
LEMMA LandsSafe ==
    ASSUME LandingInv, NEW t \in Tasks, Lands(t), NEW w \in Turn,
           turn' = [turn EXCEPT ![t] = w], Sound(t)'
    PROVE  LandingInv'
<1> DEFINE c == Commit(t)
           tree == c.tree
<1>1. /\ c \in Revision /\ canonical' = Append(canonical, c) /\ used' = used
      /\ turn[t].stage = "candidate" /\ turn[t].prev = Latest
  BY CommitTyped
<1>2. turn \in [Tasks -> Turn] /\ Sound(t)
  BY TurnTyped DEF LandingInv
<1>3. \A f \in Files : \A u \in tree[f] : u = t \/ Landed(u, f)
  BY CommitTyped
<1>4. /\ c.by = t /\ c.base = turn[t].base /\ c.recovered = turn[t].resumed
  BY CommitTyped
<1> HIDE DEF c
<1>8. turn' \in [Tasks -> Turn] /\ \A k \in Tasks \ {t} : turn'[k] = turn[k]
  BY <1>2
<1>9. /\ Latest' = Latest + 1 /\ Latest \in Nat \ {0} /\ canonical' \in Seq(Revision)
      /\ canonical'[Latest + 1] = c
      /\ \A i \in 1..Latest : canonical'[i] = canonical[i]
      /\ \A u, f : Landed(u, f) => Landed(u, f)'
      /\ \A u, f : c.by = u /\ u \in c.tree[f] => Landed(u, f)'
  BY <1>1, Grown
<1>10. turn[t].base \in 1..Latest
  BY <1>2 DEF Sound, WellPlaced
<1>11. Sound(t)'
  OBVIOUS
<1>12. \A k \in Tasks : Sound(k)'
  BY <1>1, <1>8, <1>11, Overtaken
<1>13. BranchKnows'
  <2>1. canonical'[1] = Seed /\ \A i \in 1..Latest' : canonical'[i].base \in 1..Latest'
    BY <1>4, <1>9, <1>10 DEF LandingInv, BranchKnows
  <2>2. ASSUME NEW i \in 1..Latest', NEW f \in Files, NEW u \in canonical'[i].tree[f]
        PROVE  Landed(u, f)'
    <3>1. CASE i \in 1..Latest
      BY <1>9, <2>2, <3>1 DEF LandingInv, BranchKnows, At
    <3>2. CASE i = Latest + 1
      BY <1>3, <1>4, <1>9, <2>2, <3>2
    <3>3. QED
      BY <1>9, <3>1, <3>2
  <2>3. QED
    BY <2>1, <2>2 DEF BranchKnows, At
<1>14. RemoteLandsGraded'
  <2> SUFFICES ASSUME NEW i \in 2..Latest', canonical'[i].by \in Remote,
                      ~canonical'[i].recovered
               PROVE  ~(\E f \in Files :
                           /\ canonical'[canonical'[i].base].tree[f]
                                # canonical'[i - 1].tree[f]
                           /\ f \in Reads[canonical'[i].by])
    BY DEF RemoteLandsGraded, Semantic, Advance, At
  <2>1. CASE i \in 2..Latest
    <3>1. /\ canonical'[i] = canonical[i] /\ canonical'[i - 1] = canonical[i - 1]
          /\ canonical[i].base \in 1..Latest
      BY <1>9, <2>1 DEF LandingInv, BranchKnows
    <3>2. ~Semantic(canonical[i].by, canonical[i].base, i - 1)
      BY <2>1, <3>1 DEF LandingInv, RemoteLandsGraded
    <3>3. QED
      BY <1>9, <3>1, <3>2 DEF Semantic, Advance, At
  <2>2. CASE i = Latest + 1
    <3>1. /\ canonical'[i] = c /\ i - 1 = Latest /\ canonical'[i - 1] = canonical[i - 1]
          /\ canonical'[turn[t].base] = canonical[turn[t].base]
      BY <1>9, <1>10, <2>2
    <3>2. ~Semantic(t, turn[t].base, Latest)
      BY <1>1, <1>4, <3>1, LandsWhereItMay
    <3>3. QED
      BY <1>4, <3>1, <3>2 DEF Semantic, Advance, At
  <2>3. QED
    BY <1>9, <2>1, <2>2
<1>15. ExactLandsOnBase'
  <2> SUFFICES ASSUME NEW i \in 2..Latest', canonical'[i].by \in Exact,
                      ~canonical'[i].recovered
               PROVE  canonical'[i].base = i - 1
    BY DEF ExactLandsOnBase, Exact
  <2>1. CASE i \in 2..Latest
    <3>1. canonical'[i] = canonical[i]
      BY <1>9, <2>1
    <3>2. QED
      BY <2>1, <3>1 DEF LandingInv, ExactLandsOnBase
  <2>2. CASE i = Latest + 1
    <3>1. canonical'[i] = c /\ i - 1 = Latest
      BY <1>9, <2>2
    <3>2. QED
      BY <1>1, <1>4, <3>1, LandsWhereItMay
  <2>3. QED
    BY <1>9, <2>1, <2>2
<1>16. LandingTypeOK'
  BY <1>1, <1>8, <1>9 DEF LandingInv, LandingTypeOK
<1>17. QED
  BY <1>12, <1>13, <1>14, <1>15, <1>16 DEF LandingInv

LEMMA PromoteSafe ==
    ASSUME LandingInv, NEW t \in Tasks, Promote(t)
    PROVE  LandingInv'
<1> DEFINE c == Commit(t)
           w == [turn[t] EXCEPT !.stage = "answered", !.result = "integrated",
                                !.seen = 1, !.prev = 1, !.kept = {}]
<1>1. Lands(t) /\ turn[t] \in Turn /\ turn \in [Tasks -> Turn] /\ Sound(t)
  BY TurnTyped DEF LandingInv, Promote
<1>2. turn' = [turn EXCEPT ![t] = w]
  <2>1. [turn[t] EXCEPT !.stage = "answered", !.result = "integrated", !.seen = 1,
                        !.prev = 1, !.kept = {}, !.held = turn[t].held] = w
    BY <1>1 DEF Turn
  <2>2. QED
    BY <2>1 DEF Promote, Set, Answered
<1>3. /\ c \in Revision /\ canonical' = Append(canonical, c) /\ c.by = t
      /\ turn[t].stage = "candidate"
      /\ t \notin Rollbacks => \A f \in turn[t].wrote :
             t \in c.tree[f] \/ Landed(t, f) \/ f \in turn[t].held
  BY <1>1, CommitTyped
<1>4. /\ "answered" \in Stage /\ "integrated" \in Result /\ 1 \in Nat \ {0}
      /\ {} \in SUBSET Files
  BY DEF Stage, Result
<1>5. w \in Turn
  BY <1>1, <1>4 DEF Turn
<1>6. /\ w.stage = "answered" /\ w.result = "integrated" /\ w.prev = 1 /\ w.seen = 1
      /\ w.base = turn[t].base /\ w.work = turn[t].work /\ w.wrote = turn[t].wrote
      /\ w.repaired = turn[t].repaired /\ w.resumed = turn[t].resumed
      /\ w.first = turn[t].first /\ w.owed = turn[t].owed
      /\ w.earlier = turn[t].earlier
      /\ w.replay = turn[t].replay /\ w.held = turn[t].held
  BY <1>1 DEF Turn
<1> HIDE DEF c, w
<1>7. turn'[t] = w
  BY <1>1, <1>2
<1>8. /\ Latest' = Latest + 1 /\ Latest \in Nat \ {0}
      /\ \A i \in 1..Latest : canonical'[i] = canonical[i]
      /\ \A u, f : Landed(u, f) => Landed(u, f)'
      /\ \A u, f : c.by = u /\ u \in c.tree[f] => Landed(u, f)'
  BY <1>3, Grown
<1>9. turn[t].base \in 1..Latest /\ turn[t].replay \in 0..Latest
  BY <1>1 DEF Sound, WellPlaced
<1>10. Patches(t)' = Patches(t)
  BY <1>3, <1>6, <1>7, <1>9, PastStands
<1>11. WellPlaced(t)'
  <2>1. /\ w.base \in 1..Latest' /\ w.prev \in 1..Latest'
        /\ w.seen \in 1..Latest' /\ w.replay \in 0..Latest'
    BY <1>6, <1>8, <1>9
  <2>2. QED
    BY <1>1, <1>6, <1>7, <1>10, <2>1 DEF Sound, WellPlaced
<1>12. WellGraded(t)'
  <2>1. turn[t].replay # 0 =>
            /\ canonical'[turn[t].base] = canonical[turn[t].base]
            /\ canonical'[turn[t].replay] = canonical[turn[t].replay]
    BY <1>8, <1>9
  <2>2. QED
    BY <1>1, <1>6, <1>7, <2>1 DEF Sound, WellGraded, Semantic, Advance, At
<1>13. WellWorked(t)' /\ WellRemembered(t)'
  BY <1>3, <1>6, <1>7, WorkStands
<1>14. WellReported(t)'
  <2>1. t \notin Rollbacks => \A f \in turn[t].wrote :
            Landed(t, f)' \/ f \in turn[t].held
    BY <1>3, <1>8
  <2>2. QED
    BY <1>1, <1>3, <1>6, <1>7, <1>8, <2>1 DEF Sound, WellReported
<1>15. QED
  BY <1>1, <1>2, <1>5, <1>11, <1>12, <1>13, <1>14, LandsSafe DEF Sound

\* A landing that nobody was told of leaves a turn that starts afresh, or
\* has failed.
LEMMA PromoteUnreadSafe ==
    ASSUME LandingInv, NEW t \in Tasks, PromoteUnread(t)
    PROVE  LandingInv'
<1>1. PICK w \in Thrown(t) : turn' = [turn EXCEPT ![t] = w]
  BY DEF PromoteUnread, Set
<1>2. /\ w \in Turn /\ Blank(w) /\ w.stage \in {"queued", "failed"}
      /\ w.stage = "queued" => w.wrote = {}
  <2>1. w = Queued(t) \/ w = Failed(t)
    BY DEF Thrown, Dropped
  <2>2. QED
    BY <2>1, QueuedTyped, FailedTyped
<1>3. turn'[t] = w
  BY <1>1, TurnTyped
<1>4. Lands(t) /\ Commit(t) \in Revision /\ canonical' = Append(canonical, Commit(t))
  BY CommitTyped DEF PromoteUnread
<1>5. canonical'[1] = Seed /\ Latest' \in Nat \ {0}
  BY <1>4, Grown DEF LandingInv, BranchKnows
<1>6. Sound(t)'
  BY <1>2, <1>3, <1>5, FreshSound DEF Rest
<1>7. QED
  BY <1>1, <1>2, <1>4, <1>6, LandsSafe

-----------------------------------------------------------------------------
(* The invariant *)

LEMMA LandingInitSound ==
    ASSUME LandingInit
    PROVE  LandingInv
<1>1. used \in Used
  BY LandingAssumption DEF LandingInit, Used
<1>2. \A t \in Tasks : turn[t] = Fresh
  BY DEF LandingInit
<1>3. turn \in [Tasks -> Turn]
  BY FreshTyped DEF LandingInit
<1>4. Seed \in Revision /\ Seed.base = 1 /\ Seed.tree = [f \in Files |-> {}]
  BY DEF Seed, Revision, Tree
<1>5. canonical \in Seq(Revision) /\ Latest = 1 /\ canonical[1] = Seed
  BY <1>4 DEF LandingInit, Latest
<1>6. LandingTypeOK
  BY <1>1, <1>3, <1>5 DEF LandingTypeOK
<1>7. BranchKnows
  BY <1>4, <1>5 DEF BranchKnows, At
<1>8. ASSUME NEW t \in Tasks PROVE Sound(t)
  <2>1. /\ turn[t].base = 1 /\ turn[t].work = Seed.tree
        /\ turn[t].prev = 1 /\ turn[t].seen = 1 /\ turn[t].replay = 0
        /\ turn[t].held = {} /\ ~turn[t].repaired /\ ~turn[t].resumed
        /\ turn[t].earlier = {}
        /\ turn[t].stage = "queued" /\ turn[t].wrote = {}
    BY <1>2, FreshTyped DEF Blank
  <2>2. WellPlaced(t) /\ WellGraded(t) /\ WellRemembered(t) /\ WellReported(t)
    BY <1>5, <2>1 DEF WellPlaced, WellGraded, WellRemembered, WellReported
  <2>3. WellWorked(t)
    <3>1. turn[t].work = [f \in Files |-> IF f \in Plan[t] THEN At(1)[f]
                                          ELSE At(turn[t].base)[f]]
      BY <1>4, <1>5, <2>1 DEF At
    <3>2. 1 \in 1..turn[t].base
      BY <2>1
    <3>3. QED
      BY <1>4, <1>5, <2>1, <3>1, <3>2 DEF WellWorked, Made, At
  <2>4. QED
    BY <2>2, <2>3 DEF Sound
<1>9. RemoteLandsGraded /\ ExactLandsOnBase
  BY <1>5 DEF RemoteLandsGraded, ExactLandsOnBase
<1>10. QED
  BY <1>6, <1>7, <1>8, <1>9 DEF LandingInv

LEMMA ProgressSafe ==
    ASSUME LandingInv, NEW t \in Tasks, Progress(t)
    PROVE  LandingInv'
BY BeforeRunSafe, BeforeIntegrationSafe, ReassessSafe, RefusalSafe,
   IntegrateEmptySafe, IntegrateSafe, PromoteSafe, SettleSafe DEF Progress

LEMMA LandingStep ==
    ASSUME LandingInv, [LandingNext]_landingVars
    PROVE  LandingInv'
<1>1. CASE LandingNext
  BY <1>1, CrashSafe, StartWorkSafe, StartRollbackSafe, StartFollowUpSafe,
     GivenUpSafe, PromoteUnreadSafe, ReconcileSafe, ProgressSafe DEF LandingNext
<1>2. CASE UNCHANGED landingVars
  <2>1. canonical' = canonical /\ turn' = turn /\ used' = used
    BY <1>2 DEF landingVars
  <2>2. \A k \in Tasks : Sound(k)'
    BY <2>1, Undisturbed DEF LandingInv
  <2>3. turn' \in [Tasks -> Turn]
    BY <2>1 DEF LandingInv, LandingTypeOK
  <2>4. QED
    BY <2>1, <2>2, <2>3, Kept
<1>3. QED
  BY <1>1, <1>2

\* The inductive invariant: what turns say of the branch stays true whatever
\* lands, is reassessed, repaired, refused or interrupted in between.
THEOREM LandingInvariant == LandingSafety => []LandingInv
<1>1. LandingInit => LandingInv
  BY LandingInitSound
<1>2. LandingInv /\ [LandingNext]_landingVars => LandingInv'
  BY LandingStep
<1>3. QED
  BY <1>1, <1>2, PTL DEF LandingSafety

\* The branch and every turn keep the shape the code gives them.
THEOREM LandingTypeCorrect == LandingSafety => []LandingTypeOK
<1>1. LandingInv => LandingTypeOK
  BY DEF LandingInv
<1>2. QED
  BY <1>1, LandingInvariant, PTL

\* pinReplayOnto and reassessment: whatever a remote result lands on changed
\* nothing its plan depends on.
THEOREM RemoteLandsGradedHolds == LandingSafety => []RemoteLandsGraded
<1>1. LandingInv => RemoteLandsGraded
  BY DEF LandingInv
<1>2. QED
  BY <1>1, LandingInvariant, PTL

\* expectedBaseVersion: workspace edits and rollbacks land on their exact base.
THEOREM ExactLandsOnBaseHolds == LandingSafety => []ExactLandsOnBase
<1>1. LandingInv => ExactLandsOnBase
  BY DEF LandingInv
<1>2. QED
  BY <1>1, LandingInvariant, PTL

\* Salvage, repair, follow-ups and recovery: a task that reports success has
\* every file it wrote in the branch, or owed by a follow-up, or told to be
\* outstanding, unless it was cut off before its remainder was queued.
THEOREM NothingDroppedHolds == LandingSafety => []NothingDropped
<1>1. LandingInv => NothingDropped
  <2> SUFFICES ASSUME LandingInv, NEW t \in Remote \cup Local,
                      turn[t].stage = "settled", ~turn[t].cut,
                      NEW f \in turn[t].wrote
               PROVE  Landed(t, f) \/ f \in turn[t].owed \/ f \in turn[t].told
    BY DEF NothingDropped
  <2>1. t \in Tasks /\ t \notin Rollbacks /\ t \notin Overlays
    BY Kinds DEF Exact
  <2>2. QED
    BY <2>1 DEF LandingInv, Sound, WellReported
<1>2. QED
  BY <1>1, LandingInvariant, PTL

-----------------------------------------------------------------------------
(* The branch is what Canonical promises *)

\* A function on the first n numbers is a sequence of length n.
LEMMA Listed ==
    ASSUME NEW S, NEW n \in Nat, NEW x \in [1..n -> S]
    PROVE  x \in Seq(S) /\ Len(x) = n
<1>1. x \in UNION {[1..m -> S] : m \in Nat}
  OBVIOUS
<1>2. x \in Seq(S)
  BY <1>1, SeqDef
<1>3. DOMAIN x = 1..Len(x) /\ Len(x) \in Nat
  BY <1>2, LenProperties
<1>4. 1..n = 1..Len(x)
  BY <1>3
<1>5. QED
  BY <1>2, <1>3, <1>4

\* A promotion extends what readers see with the candidate, and only with it.
LEMMA PromoteExtends ==
    ASSUME LandingInv, NEW t \in Tasks, Lands(t)
    PROVE  LET tree == Candidate(t, turn[t].kept, Latest) IN
           /\ Branch' = Append(Branch, [tree |-> tree, by |-> t])
           /\ Branch[Len(Branch)].tree = At(Latest)
           /\ Len(Branch) = Latest
           /\ Len(Branch') = Latest + 1
           /\ Branch'[Latest + 1].tree = tree
           /\ \A i \in 1..Latest : Branch[i].tree = At(i)
<1> DEFINE tree == Candidate(t, turn[t].kept, Latest)
           c == Commit(t)
<1>1. canonical' = Append(canonical, c)
  BY DEF Lands
<1>2. Latest \in Nat \ {0} /\ Len(canonical) = Latest /\ canonical \in Seq(Revision)
  BY BranchTyped
<1>3. c.tree = tree /\ c.by = t
  BY CommitTyped
<1> HIDE DEF tree, c
<1>4. /\ Len(canonical') = Latest + 1 /\ canonical'[Latest + 1] = c
      /\ \A i \in 1..Latest : canonical'[i] = canonical[i]
  BY <1>1, <1>2
<1>5. Branch = [i \in 1..Latest |-> [tree |-> canonical[i].tree, by |-> canonical[i].by]]
  BY <1>2 DEF Branch
<1>6. Branch' = [i \in 1..(Latest + 1) |-> [tree |-> canonical'[i].tree, by |-> canonical'[i].by]]
  BY <1>4 DEF Branch
<1>7. Branch \in Seq([tree : Tree, by : Tasks \cup {"nobody"}]) /\ Len(Branch) = Latest
  <2>1. \A i \in 1..Latest : canonical[i].tree \in Tree /\
                              canonical[i].by \in Tasks \cup {"nobody"}
    BY BranchTyped DEF Revision
  <2>2. Branch \in [1..Latest -> [tree : Tree, by : Tasks \cup {"nobody"}]]
    BY <1>5, <2>1
  <2>3. Branch \in Seq([tree : Tree, by : Tasks \cup {"nobody"}])
    BY <1>2, <2>2, Listed
  <2>4. QED
    BY <1>2, <2>2, <2>3, Listed
<1>8. Append(Branch, [tree |-> tree, by |-> t]) =
          [i \in 1..(Latest + 1) |-> IF i = Latest + 1 THEN [tree |-> tree, by |-> t]
                                     ELSE Branch[i]]
  BY <1>2, <1>7
<1>9. Branch' = Append(Branch, [tree |-> tree, by |-> t])
  <2>1. ASSUME NEW i \in 1..(Latest + 1)
        PROVE  Branch'[i] = IF i = Latest + 1 THEN [tree |-> tree, by |-> t] ELSE Branch[i]
    <3>1. CASE i = Latest + 1
      BY <1>3, <1>4, <1>6, <3>1
    <3>2. CASE i # Latest + 1
      <4>1. i \in 1..Latest
        BY <1>2, <3>2
      <4>2. canonical'[i] = canonical[i]
        BY <1>4, <4>1
      <4>3. QED
        BY <1>5, <1>6, <3>2, <4>1, <4>2
    <3>3. QED
      BY <3>1, <3>2
  <2>2. Branch' = [i \in 1..(Latest + 1) |-> Branch'[i]]
    BY <1>6
  <2>3. QED
    BY <1>8, <2>1, <2>2
<1>10. /\ \A i \in 1..Latest : Branch[i].tree = At(i)
       /\ Len(Branch') = Latest + 1 /\ Branch'[Latest + 1].tree = tree
  BY <1>2, <1>3, <1>4, <1>5, <1>6 DEF At
<1>11. QED
  BY <1>2, <1>7, <1>9, <1>10 DEF tree

\* Replacing files of the plan is what Promise calls Rewrite.
LEMMA PromisedRewrite ==
    ASSUME NEW t \in Tasks, NEW tip, NEW tree \in [Files -> SUBSET Tasks],
           \A f \in Files \ Plan[t] : tree[f] = tip[f],
           Branch[Len(Branch)].tree = tip,
           Len(Branch') = Len(Branch) + 1,
           Branch'[Len(Branch')].tree = tree,
           Branch' = Append(Branch, [tree |-> tree, by |-> t])
    PROVE  Promise!Rewrite(t)
BY DEF Promise!Rewrite, Promise!Extend, Promise!Tip

\* A landed candidate is the tip and the task's edits, the tip with a past
\* restored, or the tip with files of the plan reconciled.
LEMMA PromotePromised ==
    ASSUME LandingInv, NEW t \in Tasks, Lands(t)
    PROVE  Promise!Next
<1> DEFINE b == turn[t].base
           k == turn[t].work
           F == turn[t].kept
           tip == At(Latest)
           tree == Candidate(t, F, Latest)
<1>1. /\ Sound(t) /\ F \in SUBSET Files /\ turn[t].stage = "candidate"
  BY TurnTyped DEF LandingInv, Lands
<1>2. /\ Branch' = Append(Branch, [tree |-> tree, by |-> t])
      /\ Branch[Len(Branch)].tree = tip /\ Len(Branch) = Latest
      /\ Len(Branch') = Latest + 1 /\ Branch'[Latest + 1].tree = tree
      /\ \A i \in 1..Latest : Branch[i].tree = At(i)
  BY PromoteExtends
<1>3. tree = [f \in Files |->
                 IF f \in F
                 THEN (tip[f] \ (At(b)[f] \ k[f])) \cup (k[f] \ At(b)[f])
                 ELSE tip[f]]
  BY DEF Candidate, Merge
<1>4. /\ b \in 1..Latest /\ Latest \in Nat \ {0}
      /\ F \cup turn[t].held = {f \in Files : k[f] # At(b)[f]}
  BY <1>1, BranchTyped DEF Sound, WellPlaced, WellGraded, Patches
<1>5. tree \in [Files -> SUBSET Tasks]
  BY <1>1, CandidateKnown DEF Tree
<1>6. CASE t \in Rollbacks
  <2>1. t \in Exact /\ F = {f \in Files : k[f] # At(b)[f]}
    BY <1>1, <1>4, <1>6 DEF Exact, Sound, WellPlaced
  <2>2. PICK r \in 1..b : k = [f \in Files |-> IF f \in Plan[t] THEN At(r)[f]
                                              ELSE At(b)[f]]
    BY <1>1, <1>6 DEF Sound, WellWorked
  <2>3. r \in 1..Latest
    BY <1>4
  <2> DEFINE was == At(r)
             is  == At(b)
  <2> HIDE DEF b, k, F, tip, tree, was, is
  <2>4. ASSUME NEW f \in Files
        PROVE  /\ f \in Plan[t] =>
                      tree[f] = (tip[f] \ (is[f] \ was[f])) \cup (was[f] \ is[f])
               /\ f \notin Plan[t] => tree[f] = tip[f]
    <3>1. CASE f \in F
      BY <1>3, <2>1, <2>2, <3>1 DEF was, is
    <3>2. CASE f \notin F
      <4>1. k[f] = is[f] /\ tree[f] = tip[f]
        BY <1>3, <2>1, <3>2 DEF is
      <4>2. f \in Plan[t] => was[f] = is[f]
        BY <2>2, <4>1 DEF was
      <4>3. QED
        BY <4>1, <4>2
    <3>3. QED
      BY <3>1, <3>2
  <2>5. Branch[b].tree = is /\ Branch[r].tree = was /\ b \in 1..Len(Branch)
    BY <1>2, <1>4, <2>3 DEF was, is
  <2>6. Promise!Restore(t)
    <3>1. Promise!Tip = tip
      BY <1>2 DEF Promise!Tip
    <3>2. tree = [f \in Files |->
                     IF f \in Plan[t]
                     THEN (tip[f] \ (is[f] \ was[f])) \cup (was[f] \ is[f])
                     ELSE tip[f]]
      BY <1>5, <2>4
    <3>3. Promise!Extend(t, tree)
      BY <1>2 DEF Promise!Extend
    <3>4. QED
      BY <2>5, <3>1, <3>2, <3>3 DEF Promise!Restore
  <2>7. QED
    BY <1>6, <2>6 DEF Promise!Next
<1>7. CASE t \notin Rollbacks /\ ~turn[t].repaired
  <2>1. \A f \in Files : At(b)[f] \subseteq k[f] /\ k[f] \subseteq At(b)[f] \cup {t}
    BY <1>1, <1>7 DEF Sound, WellWorked, Made
  <2> HIDE DEF b, k, F, tip, tree
  <2>2. ASSUME NEW f \in F PROVE tree[f] = tip[f] \cup {t}
    <3>1. f \in Files /\ k[f] # At(b)[f]
      BY <1>4
    <3>2. At(b)[f] \ k[f] = {} /\ k[f] \ At(b)[f] = {t}
      BY <2>1, <3>1
    <3>3. QED
      BY <1>3, <3>1, <3>2
  <2>3. \A f \in Files \ F : tree[f] = tip[f]
    BY <1>3
  <2>4. Promise!Land(t)
    <3>1. Promise!Tip = tip
      BY <1>2 DEF Promise!Tip
    <3>2. tree = [f \in Files |-> IF f \in F THEN tip[f] \cup {t} ELSE tip[f]]
      BY <1>5, <2>2, <2>3
    <3>3. Promise!Extend(t, tree)
      BY <1>2 DEF Promise!Extend
    <3>4. QED
      BY <1>1, <3>1, <3>2, <3>3 DEF Promise!Land
  <2>5. QED
    BY <2>4 DEF Promise!Next
<1>8. CASE turn[t].repaired
  <2>1. t \in Local /\ F \subseteq Plan[t]
    BY <1>1, <1>8 DEF Sound, WellPlaced, WellGraded
  <2> HIDE DEF b, k, F, tip, tree
  <2>2. \A f \in Files \ Plan[t] : tree[f] = tip[f]
    BY <1>3, <2>1
  <2>3. Promise!Rewrite(t)
    BY <1>2, <1>5, <2>2, PromisedRewrite
  <2>4. QED
    BY <2>1, <2>3 DEF Promise!Next
<1>9. QED
  BY <1>6, <1>7, <1>8

\* The branch's readers see the abstract branch: every caller of integrate,
\* however it raced, implements Canonical.
THEOREM LandingImplementsCanonical == LandingSafety => CanonicalSpec
<1>1. LandingInit => Promise!Init
  <2> SUFFICES ASSUME LandingInit PROVE Promise!Init
    OBVIOUS
  <2>1. canonical = <<Seed>> /\ Len(canonical) = 1 /\ canonical[1] = Seed
    BY DEF LandingInit
  <2> DEFINE seed == [tree |-> [f \in Files |-> {}], by |-> "nobody"]
  <2>2. [tree |-> Seed.tree, by |-> Seed.by] = seed
    BY DEF Seed
  <2> HIDE DEF seed
  <2>3. Branch = [i \in 1..1 |-> seed]
    BY <2>1, <2>2 DEF Branch
  <2>4. Branch = <<seed>>
    BY <2>3
  <2>5. QED
    BY <2>4 DEF Promise!Init, seed
<1>2. LandingInv /\ [LandingNext]_landingVars => [Promise!Next]_Branch
  <2> SUFFICES ASSUME LandingInv, [LandingNext]_landingVars
               PROVE  Promise!Next \/ Branch' = Branch
    OBVIOUS
  <2>1. canonical' = canonical \/ \E t \in Tasks : Lands(t)
    <3>1. CASE UNCHANGED landingVars
      BY <3>1 DEF landingVars
    <3>2. CASE Crash
      BY <3>2 DEF Crash
    <3>3. ASSUME NEW t \in Tasks,
                 \/ StartWork(t) \/ StartRollback(t) \/ StartFollowUp(t)
                 \/ ReviewRefused(t) \/ PromoteThrows(t) \/ SettleThrows(t)
                 \/ Reconcile(t)
          PROVE  canonical' = canonical
      BY <3>3 DEF StartWork, StartRollback, Start, StartFollowUp, ReviewRefused,
                  PromoteThrows, SettleThrows, Reconcile, Ends
    <3>4. ASSUME NEW t \in Tasks, Progress(t), ~Promote(t)
          PROVE  canonical' = canonical
      <4>1. CASE BeforeRun(t) \/ BeforeIntegration(t) \/ Reassess(t)
        BY <4>1 DEF BeforeRun, BeforeIntegration, Reassess, Requeue, Ends, Moves
      <4>2. CASE \/ IntegrateStale(t) \/ IntegrateEmpty(t) \/ Integrate(t)
                 \/ ValidationFails(t) \/ PromoteBeaten(t)
        BY <4>2 DEF IntegrateStale, IntegrateEmpty, Integrate, Apply, ValidationFails,
                    PromoteBeaten, Answers
      <4>3. CASE \/ SettleRemote(t) \/ QueueRemainder(t) \/ SettleExact(t)
                 \/ SettleLocal(t) \/ SettleResumed(t)
        BY <4>3 DEF SettleRemote, QueueRemainder, SettleExact, SettleLocal,
                    SettleResumed, Requeue, Moves, Ends
      <4>4. QED
        BY <3>4, <4>1, <4>2, <4>3 DEF Progress
    <3>5. ASSUME NEW t \in Tasks, Promote(t) \/ PromoteUnread(t)
          PROVE  Lands(t)
      BY <3>5 DEF Promote, PromoteUnread
    <3>6. QED
      BY <3>1, <3>2, <3>3, <3>4, <3>5 DEF LandingNext
  <2>2. QED
    BY <2>1, PromotePromised DEF Branch
<1>3. QED
  BY <1>1, <1>2, LandingInvariant, PTL DEF LandingSafety, CanonicalSpec, Promise!Spec
=============================================================================
