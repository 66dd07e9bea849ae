# A specification of the coordination backend

This directory holds TLA+ modules that model how agentic-git coordinates coding
agents: who may run a task, which plan an agent may execute under, how the
result of a run reaches the canonical branch once and only once, through lapsed
leases, impatient people, sweeps and restarts of the control plane, what it may
do to that branch when others land at the same time, and how people edit one
file together. TLC checks the modules on small instances; TLAPS proves their
safety properties for every instance.

## 1. The system and its parts

The control plane is one Node process (`apps/web`) over one database. Workers on
other machines poll it for tasks, submit the plan their agent made, and post a
changeset. The parts that carry state:

| Part | State | Operations | Interacts through | What is hard |
|---|---|---|---|---|
| work store (`services/persistence`) | `submitted_tasks`, `work_leases`, `runs`, integrations | one method each, one transaction each | called by everything | calls in any order; expiry found late |
| plan admission (`apps/cli/src/lease-admission.ts`, `worker-operations.ts`, `services/coordinator/src/plan-admission.ts`) | the plan column of a lease | admit, re-admit, widen, freeze | reads executing plans, writes back with a compare-and-swap | the decision is older than the write |
| remote work (`apps/cli/src/worker-operations.ts`) | the locals of one result handler; `runs` | poll, heartbeat, release, result | store calls, approval, integration | dozens of awaits, each an interleaving point; a catch over all of them |
| crash recovery (`apps/cli/src/recovery.ts`) | none of its own | boot recovery, stranded-work sweep, drain | rows and canonical | decides from rows alone what a dead process was doing |
| task control (`apps/cli/src/commands.ts`, task routes) | none | retry, cancel, pause, resume | store calls | reads a lease, writes a row, releases the lease |
| approvals (`services/coordinator/src/approval-service.ts`) | `approvals` | request, decide, expire | polled by the waiting handler | decision against timeout, waiter dead |
| integration service (`services/integration-service`) | canonical refs in git | gate, apply, salvage, validate, promote | compare-and-swap of a ref | canonical moves while validating; a changeset is divided |
| in-process coordinator (`services/coordinator/src/coordinator.ts`) | a local run | plan, execute, integrate, repair | the same store and admission, the integration service | parallel waves, cancellation, a worktree older than canonical |
| rollback, workspace submission (`rollback.ts`, `overlay.ts`) | a changeset | collect, review, integrate | the integration service with an exact base | somebody lands first |
| ownership (`ownership-service.ts`) | grants with a TTL | grant, renew, release, expire | admission | grant lapses under its holder |
| blanket claims (`blanket-claim.ts`, `blanket-holders.ts`) | a claim on a whole repository | claim, freeze, narrow, convert | admission, worker protocol | freeze races a widening |
| collaborative text engine (`packages/collab`) | document, history window; a tab's outstanding and buffered work | apply, compose, transform, rebase, acknowledge | revision numbers and operations | convergence, clients older than the window |
| collaboration hub (`services/api-gateway/src/collab-websocket.ts`, `packages/collab/src/room.ts`) | rooms, sockets, carets, the file in the overlay | open, op, selection, save, resync, close, idle sweep | websockets, the overlay's files | edits during a save, two openers, the sweep |
| workspace manager (`services/workspace-manager`) | worktrees, warm pool | acquire, recycle, evict | git, Docker | pool limits, abandoned workspaces |
| gateway, web, desktop, worker app, adapters, code intelligence | sessions, chats, caches | routing, I/O, parsing | the methods above | mostly I/O and presentation |

What makes each correct: the store hands a task to one worker at a time and
forgets no ending; admission lets no two agents execute colliding plans and
takes no contract away; the remote path lands each task's work at most once,
past its review, and reports truthfully how it ended; recovery completes what was
finished, exactly once, and leaves nothing claimed by nobody; canonical only
ever moves by the compare-and-swap of a validated commit, which adds one
author's work, graded against what it lands on, and drops none of what its task
reports as done; the editor converges, and forgets no text it calls saved.

## 2. The modules

| Module | Models | Proofs |
|---|---|---|
| `WorkStore` | every store method that changes a task's status or a lease | `WorkStoreProofs` |
| `PlanAdmission` | the read-decide-write protocol of plan arbitration | `PlanAdmissionProofs` |
| `RemoteWork` (extends `WorkStore`) | result handlers, people, sweeps, crash and recovery, over the store's tables | `RemoteWorkProofs`, `RemoteRunProofs` |
| `Canonical` | what the canonical branch promises its readers: a line of merges | |
| `Landing` | `integrate` and its four kinds of callers against one moving branch; refines `Canonical` | `LandingProofs` |
| `CollabText` | operations on text: apply, compose, transform, map a caret | `CollabTextProofs` |
| `Collab` (extends `CollabText`) | rooms, sockets, saves, the idle sweep and the browser's half of the loop, for one file | `CollabProofs`, `CollabConvergenceProofs` |
| `MCWorkStore`, `MCPlanAdmission`, `MCRemoteWork`, `MCLanding`, `MCCollab` | finite instances | |

`WorkStore` doubles as the abstract specification of the remote path:
`RemoteWork` may touch the tables only by the store's methods, which is checked
(`StoreSpec` as a PROPERTY of the run `races`) and proved
(`RemoteImplementsStore`), so every theorem of `WorkStore` holds of it.

### WorkStore

State: the `status` of each row of `submitted_tasks`, the `status` and `task_id`
of each row of `work_leases`, and the two times the code compares with the
clock. `expires_at` is kept as the time left (`leaseLeft`, 0 once it has lapsed)
and `claimed_at` as the time since (`claimedFor`, saturating at the grace
period); `Tick` passes time. A lapsed lease stays `active` until something
expires it, as in the database.

Each action is one store method, with the sweep inside `leaseNextTask` part of
the poll. A poll that the unique index `work_leases_one_active` refuses rolls
back and changes nothing, so it is no action. `finishWorkLease` and
`expireWorkLeases` share `FinishWorkLease`: the latter is the ending `expired`,
for each lapsed lease (a caller's loop over several leases is several steps,
which allows more interleavings than the transaction).

### PlanAdmission

State, per lease: whether it is active, the verdict and plan stored on it, and
the locals of the handler that is deciding (what it was asked, the ids it read,
what those plans held, the rounds spent). A plan is the set of resources it
holds exclusively; the conflict detector's scores are abstracted to: a plan that
collides with a plan the controller was shown is never approved whole, and any
plan may be refused. `Stale` is `saveWorkLeasePlan`'s comparison of id sets.
`deployment` says which leases are arbitrated by the control plane (through the
`admitting` chain, with a budget of rounds) and which by a local run
(`LeasePlanAuthority`, in no chain, without a budget), and whose agents revise a
plan that is already admitted. A lease that is over, that nobody decides for and
that is in nobody's view (`Forgotten`) gives its name to the next one: leases never
run out, so a handler may be overtaken without end, as in the code.

### RemoteWork

State: the store's tables; `job[l]`, the handler of lease `l` (`phase`, where
`acceptWorkResult` or recovery stands) and the run it records (`run`, whether an
integration was recorded, the review, and what `landed`); the stage of a boot,
the locals of the stranded-work sweep and of a cancel or pause; and the history
variables `overruled` (tasks whose row was moved by a person, a sweep or a late
requeue while somebody else was engaged on them) and `cut` (leases whose landing
a throw or a crash separated from the row that reports it, or whose landing
recovery did itself and whose row it could not move).

One action lies between two awaits of the handler at which something else may
happen:

    idle -> checked -> reviewing -> approved -> settled -> landed -> recorded -> closing -> idle
    checked    -> failing | idle            refused, given back, too late
    checked    -> recorded                  the answer to a question
    reviewing  -> erring                    review refused
    approved   -> requeueing | erring       canonical moved; lease lost
    settled    -> recorded | requeueing | failing | erring | settled
    landed, recorded -> failing             a throw after the promotion
    erring     -> failing | closing         the catch
    failing, requeueing -> closing
    resumed, reclaiming, handingBack        recovery, finishing the row

`settled` is the state the design turns on: the lease is `completed` before the
promotion (`worker-operations.ts:3813`), so from there to `recorded` the task is
claimed and nothing in the lease table says that anybody is working on it.

`Promote` moves the branch and nothing else. `integrate` then reads the branch
back (`integration-service/src/index.ts:1228`) and the handler writes the
integration and the task's status before it completes the row; any of these may
throw. The catch finds a completed lease and fails the task, although its work is
in canonical (`LandingThrows`), and a retry lands it again. The same throw in
recovery is a warning (`ResumeThrows`), and the boot's sweep requeues the task.

A crash forgets the phases and keeps the rows, the run records and canonical.
Recovery runs its three stages before the process serves anything, so polls,
results and people wait (`Serving`).

Abstractions: `failClaimedTask`'s read and write are one step; the bookkeeping
of a run after its task's ending (`saveTaskStatus`, handoff, `finishRun`) is one
step (`CloseRun`, `BootDone`); a step of recovery may leave a run unresumed
because `integrate` threw (the code warns and goes on). Store calls fail by
refusing a status, and by throwing in the stretch just described; elsewhere a
throw of the database is left out. The refusal of `completeSubmittedTask(failed)`
after a failed integration leads to the catch, which tries the same again, and
is covered by `FailTask` happening later.

### Landing and Canonical

`RemoteWork` treats the way to the promotion as one step with an outcome; `Landing`
opens that step and closes everything else. State: `canonical`, the revisions of the
branch, each with its tree, its author, the base its author worked from and
whether recovery landed it; `turn[t]`, where the work of task `t` stands and the
locals that decide what happens next (`base`, the worktree `work`, the pinned
`replay`, `prev` on which the candidate was built, what salvage `kept` and
`held`, the `result`, whether it was `repaired`, the changeset a repair began
with, what is `owed` to a follow-up, `told` to be outstanding, or was `cut` off).

    queued -> running -> checked -> ready -> candidate -> answered -> settled | failed | queued
              (remote results only)   ^          |           |  \
                                      |          |           |   +-> reported -> settled
                                      |          |           |       (remote results only)
                                      |          +-> failed | queued, landed or not: a throw
                                      +-- Reassess, Reconcile

The tasks differ in how they meet a moved canonical, as in the code:

| Tasks | Code | On a moved canonical |
|---|---|---|
| `Remote` | `acceptWorkResult` | graded (`assessReplay`), pinned to exactly the revision graded, graded once more if beaten (`STALE_REASSESSMENT_BUDGET`), else requeued |
| `Local` | `integrateTask` | merged onto whatever is there; a conflict is reconciled by the agent and integrated again |
| `Overlays`, `Rollbacks` | `submitUnlocked`, `rollback` | refused: exact base |
| any of them, after a restart | `resumeStrandedResults` | merged onto whatever is there, one after another |

`Integrate` is the reading of canonical and the building of a candidate.
`Promote` moves the branch and reads it back; `PromoteUnread` moves it and fails to
read it back, so that the caller's catch fails work that landed; `PromoteBeaten` and
`PromoteThrows` are the compare-and-swap's two ways of failing (the ref has moved;
the ref is locked by somebody who is about to move it). Recording the answer may
throw as well (`SettleThrows`). A throw that leaves canonical alone ends a turn as a
policy failure does, and has no action of its own. Between any two steps other
tasks take any steps, and the process may stop.

A remote task's row is integrated (`SettleRemote`, stage `reported`) before a task
is queued for what salvage held back (`QueueRemainder`), as
`worker-operations.ts:3915` and `3978` do; a throw or a restart between the two
leaves the remainder with nobody (`cut`). An in-process turn queues its remainder
first, or says in its explanation what is outstanding when there is no plan
authority to queue it (`told`).

`Crash` takes every turn at once. What had not been collected is run again or has
failed; what had been collected and has no outcome on record is resumed, by a local
turn as by any other, without a base to be held to; where an outcome may already be
on record the turn may also be found to be over. A turn that was repairing may be
resumed from either of its changesets (`ResumedEarlier`). Only a remote agent, still
at work on its own machine, works on.

A file is the set of the edits it holds, one edit per task, so a three-way merge
is set algebra and what a merge loses can be seen. Whether two edits of one file
collide and how a validation ends are choices; so is a refused review. Files
salvaged hunk by hunk are salvaged whole. `canonicalAdvance` compares trees.

`Canonical` is the abstract specification: each revision is its predecessor with
one task's edit added (`Land`), with what happened between two revisions undone
(`Restore`, rollbacks only), or with the files of one plan rewritten (`Rewrite`,
tasks that reconcile only). `Promise` maps `canonical` to its `history` by
forgetting bases; `CanonicalSpec` is checked in the run `landing`.

### CollabText and Collab

An operation is a sequence of units: `Keep`, `Cut`, or a letter. The packing
into runs is left out; the order the builder normalises to (an insertion before
an adjacent deletion) is kept, because ties are broken by it. The operators keep
the names of the TypeScript functions. A loop is a function of the number of
turns taken. Where the code walks two operations at once and splits runs, the
model keeps its place in each and takes a unit of one or of both in a turn
(`ComposeTurn`, `TransformTurn`), at most as many turns as there are units.

State of `Collab`, for one file of one overlay: every room made for the file
(`rooms`: text, bounded history with its base revision, saved revision, carets)
and which of them the registry holds; `byRoom`, the sockets of the file's key;
`file` and `disk`, the text on disk and the reads and writes queued at the
overlay's lock; `tab[c]`, a browser's `CollaborativeClient`; `up` and `down`,
each socket's messages in order. One action is one message handled by one side,
one file operation done, or one thing a person does. A letter is the client that
typed it, which is what shows whose insertion won a tie.

The browser's handling of errors (`TakeError`, `Resync`) is the dashboard's and
is modelled from the protocol as external. `split` becomes true when the file is
given a second room while another is in use. The model goes on from there, with the
broadcasts of both rooms reaching every socket of the file's key: one that does not
fit throws in the client (`TakeMisfit`).

An operation may go out without a caret (`SendOp`): the protocol makes it optional,
and the room then leaves its author's old caret where it was, without moving or
clamping it. `blind` holds the participants whose caret is out of date for that
reason. `foreign` says that somebody else has written the file since a room last
read or wrote it (`OutsideWrite`: agents' commands, moves, resets and the HTTP
routes, of which no room is told).

## 3. The runs

Twelve runs; a run's bounds are its constants.

| Run | Instance | Shows |
|---|---|---|
| `store` | 3 tasks (one queued after another, one a question), 3 leases, cap 2, TTL 1 | leases exclusive, capped and final; ended rows final |
| `admission` | 3 leases, whose names are taken again once forgotten, 2 resources, 2 rounds, two deployments | admitted plans disjoint, contracts stand, every remote plan is answered, a local one waits only on the progress of others |
| `races` | 1 task, 1 question, 2 leases, people, throws, no crash | one run per task, one landing, no landed work reported failed, review respected, store refined |
| `crash` | 2 tasks, 2 leases, cap 1, throws, 1 crash, the sweep | the same through a restart, and the inductive invariant of the proofs, `RunsInv` |
| `live` | 1 task, 2 leases, 1 heartbeat, 1 crash, fairness | every claim ends |
| `landing` | 2 files; a remote task that reads one and writes both, a local turn, a rollback; 4 starts in all, throws, 1 restart | what lands was graded or exact, nothing is dropped but what was cut off, `Canonical` is refined, every turn ends; the inductive invariant `LandingInv` |
| `collab` | 2 tabs, 2 connections, 3 edits (2 up to the last one in two rooms), history of 1, texts of at most 2 letters, 1 of: caret reported or left out, save, failure, write from outside | tabs converge, operations fit, carets inside, clean means on disk, edits answered; the inductive invariant `CollabInv` |
| `mixed` | a local run that revises beside two remote leases | violation of `ExclusiveContracts` |
| `reaper` | 1 task, 2 leases, the sweep | violation of `NobodyRaced` |
| `unreviewed` | 1 task, 2 leases, 1 crash | violation of `EverythingReviewed` |
| `tworesults` | 1 task, 2 leases, 1 crash | violation of `RecoversOneResult` |
| `repair` | 2 files, a local turn and a workspace submission, no restart | violation of `BothIntentsSurvive` |

Why these bounds are enough for what is asked. Every safety property here is about
one task, or two leases of one task, or two plans: two leases of a task are the
smallest instance in which a late handler meets its successor, the second task adds
the queue recovery claims whole, and the third lease in `store` and `admission` is
the one that ends between another's read and its write, so that the COUNT of
admitted leases is unchanged and their SET is not. A TTL and a grace of one unit
make a lease lapse and a claim age at every possible point, since `Tick` may fall
between any two steps. The cap of two with three leases makes the cap bite. One
crash reaches every stage of a result and of a boot; a second adds nothing that a
longer first does not, because a restart reads only rows. The number of leases
bounds how often a task is retried. Symmetry of the leases is used in safety runs
only; the code never orders leases.

In `landing` two files are what it takes to divide a changeset (one lands, one
is held), to have an advance that touches what a plan reads but not what it
writes, and to take back a file that was not contested. Three authors let one be
beaten twice, which exhausts the reassessment budget of one. Four starts are all
three of them and one more, which any of them may spend on coming back after a
requeue, a throw or a restart, or as its own follow-up. Overlays take the same
path as rollbacks and are an author only in `repair`. In `collab` a history of
one operation puts every client that misses two of them outside the window;
three edits are an outstanding, a buffered and a concurrent one; texts of two
letters reach the limit of the document's size. The second connection may be
another tab or the same one returning.

No bound stands in for a bound of the code: `MaxStarts` counts what people,
pollers and follow-ups start, never the steps of a turn, and `EveryTurnEnds` is about
each turn by itself. How often a task comes back is not bounded by the code and not
claimed.

`overruled` and `cut` make the exceptions of `OneRunPerTask`, `LandsOnce`,
`LandedIsNotFailed` and `NothingDropped` explicit, `blind` that of `CaretsInside`,
`foreign` and `split` those of the editor. They are not idle: without `overruled` the
first property is `NobodyRaced`, which the run `reaper` refutes; without `cut` a
throw after the promotion, or a restart between a row and its remainder, refutes the
others; an operation without its caret, and a write from outside, refute the last.

### Fairness

`FairRemoteSpec` assumes weak fairness of the clock, of lease expiry (the
serving process repeats it every minute), of each running handler, of the sweep
and of recovery (which are straight-line code), and that a review ends, because
`StoreApprovalController.review` stops at its timeout. Nothing is assumed of
workers, heartbeats or people; `MaxBeats` bounds how long a worker can keep a
lease by beating. `AdmissionSpec` assumes that a handler that was started runs
on. So does `LandingSpec`: from `ready` on a turn awaits only git, validations
and an agent's repair, each of which has a timeout; no fairness is assumed of
starting work, of follow-ups, reviews, throws or crashes. `EveryPlanAnswered` is
about remote admissions, whose budget ends them; a local one decides again for as
long as others are admitted in between, so what is claimed of it is that it never
waits on anything else (`LocalWaitsOnProgress`). `CollabSpec` assumes that what
is at the head of a queue is taken: sockets deliver in order until they close,
the hub chains a client's messages, and the overlay's lock is a queue. Nothing
is assumed of people, and closing a tab at any time is allowed.

### What the violations say

1. `reaper`: `reapStrandedWork` (`recovery.ts:580`) takes a claim older than two
   minutes without an active lease for debris. A result being integrated looks
   exactly so. The comment at `recovery.ts:480-484` says the sweep never races a
   run that is still going.
2. `unreviewed`: the changeset is stored before its review is asked for, and
   `resumeStrandedResults` (`recovery.ts:205`) promotes stored changesets
   without asking. `recovery.ts:57-60` says it promotes as the normal path would.
3. `mixed`: `saveWorkLeasePlan` compares lease ids (`sqlite-store.ts:1387`), and
   a widening changes a plan under an unchanged id.
   `docs/protocol/remote-workers.md:259-262` says the database serialises
   arbitration; it is the in-process chain that does, for remote leases only.
4. `tworesults`: each unfinished run of one task is promoted by recovery, though
   `docs/protocol/remote-workers.md:528-529` says two results of a task are
   never both accepted.
5. `repair`: `repairChangeSet` (`coordinator.ts:5330`) resets the contested
   files of the old worktree to the newer canonical and collects the whole
   worktree against it, so a planned file that was not contested takes back what
   somebody else landed in it. `apps/cli/src/conflict-repair.test.ts:184` says
   both intents survive. `Canonical` allows a reconciler to do this (`Rewrite`),
   and nobody else.

## 4. The proofs

All proofs are checked by TLAPS and hold for any finite sets of tasks and
leases, any placement of tasks in repositories, any parallelism, TTL and grace,
any files and plans, any tabs, texts and history limit, any fault combination and
any bound. The assumptions are `StoreAssumption`, `AdmissionAssumption`,
`RemoteAssumption`, `LandingAssumption` and `CollabAssumption`: the types of the
constants, that the poll's order is total, that a task is of one kind, that what
its agent may change lies in its plan, that what others write to the file is a text,
and that a letter is neither `Keep` nor `Cut` and `None` is not an operation (a
disjoint union in the code). TLC evaluates them in every run of their module, and
checks in a run each inductive invariant below but `Sound` of the editor, which says
that a path of any texts exists and cannot be evaluated. What it implies is checked
instead: `Convergence`, `OperationsFit`, `CaretsInside` and `CollabTypeOK`. The type
invariants of `RemoteWork` and `Landing` are conjuncts of `RunsInv` and `LandingInv`
and are checked with them; `RemoteTypeCorrect` and `LandingTypeCorrect` state them.

* `WorkStoreProofs`: `StoreTypeCorrect`, then `OneActiveLeaseHolds`,
  `ParallelismHolds`, `LeasesEndOnceHolds`, `TaskEndsAreFinalHolds`. Each is
  inductive given the type invariant. Every step either only ends leases or
  is a successful poll (`StepShape`); the poll case uses that the leased row is
  in a repository with room after the sweep (`LeasedRow`), for which the least
  element of a set of priorities must exist (`LeastOf`).
* `PlanAdmissionProofs`: `SerialisedContracts` is not inductive: an admission
  that is about to write carries a view that may be out of date. The invariant
  `AdmissionInv` adds what such a view is worth: the leases it saw are admitted
  or over (`HandlersKnow`), at most one handler of the chain decides (`OneTurn`),
  and an admitted lease it saw holds nothing it did not see (`ViewsCurrent`). The
  last conjunct is exactly what a widening outside the chain breaks. From it
  follow `AdmissionTypeCorrect`, `SerialisedContractsHold`, `ContractsStandHolds`.
* `RemoteWorkProofs`: `RemoteInv` adds to the properties what the phase of a
  handler says of its lease, its review and what landed (`PhasesKnow`). The proof
  splits it lease by lease (`JobKnows`); `Carry` and its corollaries reduce each
  action to the one job it rewrites, and the lemmas `WorkerSteps` to
  `ResumeRowSteps` discharge the actions. The same lemmas show that each action is
  a step of the store, which gives `RemoteImplementsStore` and, with
  `OneActiveLeaseHolds`, `RemoteOneActiveLease`.
* `RemoteRunProofs`: `OneRunPerTaskHolds`, `LandedIsNotFailedHolds` and
  `LandsOnceHolds`, from `RunsInv`. None of the three is inductive, because each
  handler trusts a row that every other may move. The strengthening says who may
  still end a task as its own (`Bound`: more than `Working`, since a handler that
  fails or requeues is bound to its row too) and which results may still land
  (`Judged`); a bound run's row is claimed (`RowHeld`), a landing is on its way to
  its row (`RowFollows`), two runs bound to one task are one (`RunsApart`), and what
  recovery claimed for later has no worker (`QueueFree`). The argument: a step moves
  a row from under the one run bound to it, or when none is, or it marks the task
  overruled; a throw after the promotion marks the lease cut, and only then, or once
  its task is overruled, may a failing run have landed work; and a row that says
  integrated never moves again (`EndedRowKept`, of the store). `Bystander` says what
  a step has to leave alone for another lease to stay well; `Lapses`, `GivesBack`,
  `RowMoves`, `PhaseMoves`, `EndsRow` and `RecoveryMoves` are the ways in which a
  step touches one; `AllKept` puts them together. `LandsOnce` then needs that only a
  promotion lands (`OnlyPromotesLand`).
* `LandingProofs`: `LandingInv` says, of each turn, that the revisions it names
  exist (`WellPlaced`), that what it may be replayed onto was graded and its
  candidate is built there or on its base (`WellGraded`), that its worktree is its
  base with its own edits unless it was repaired (`WellWorked`), that a changeset a
  repair began with is one too, because a restart may come back to it
  (`WellRemembered`), and that what it wrote has landed, is owed or was told, unless
  its remainder was cut off (`WellReported`); and of the branch, that
  every edit in it was landed by its author (`BranchKnows`). From it follow
  `LandingTypeCorrect`, `RemoteLandsGradedHolds`, `ExactLandsOnBaseHolds` and
  `NothingDroppedHolds`. That revisions never change carries a turn's knowledge
  over other people's promotions (`Grown`, `PastStands`, `Overtaken`).
  `LandingImplementsCanonical` shows that a promotion is a `Land`, a `Restore` or a
  `Rewrite` of `Canonical` (`PromotePromised`) and that nothing else moves the
  branch; `LandingSafety` is the specification without its fairness, so all of this
  holds with it as well.
* `CollabProofs`: `CleanIsOnDisk` is not inductive, since a write under way will
  mark a room saved later. `CollabInv` adds that such a write holds the text its
  room had at the revision it names (`IsText`), that it is of the registry's room
  (`OneWriter`), that a room was never saved beyond its revision (`WellKept`), and
  that all who have the file open are in one room and in the set its broadcasts
  go to (`Gathered`), for as long as the file was given no second room, and that a
  broadcast reaches nobody else even then (`Reached`). Writers outside the editor
  make a file `foreign` until a room reads or writes it. The key
  is that a text changes only as the revision rises by one, even where the history
  is cut at its limit (`RememberGrows`, `ReceivedAdvances`); it is a theorem of its
  own (`RevisionNamesTextHolds`). What an operation computes is never used, so the
  proof holds for any.
* `CollabTextProofs`: what the operators compute, for every text and every
  operation over any letters. `ApplyLength`: applying makes a text of the promised
  length. `TransformConverges`: of two operations on one text, each carried over
  the other fits what the other makes and types what it typed, and both orders make
  the same text. `ComposeIsBoth`: the composition has the effect of both.
  `PositionInside`: a caret inside stays inside. These are inductions over the units
  of an operation and over the turns of a loop. The provers cannot instantiate a
  rule with a predicate as its parameter, so the rules here are about the set of
  what has the property (`Induction`, `InductionAppend`, both from the existence
  of a least natural number). The invariant of the transformation's loop is that
  what has been emitted so far closes the square over what has been read so far
  (`Square`), of the composition's that it has the effect of both prefixes
  (`Chain`); a turn extends either by one unit, for which it has to be known what
  `Emit` does to an operation's effect when it moves an insertion before deletions.
* `CollabConvergenceProofs`: `Convergence`, `OperationsFit`, `CaretsInside`,
  `CollabTypeOK` and, with `Gathered` of `CollabInv`, that any two tabs with nothing
  in flight show the same text (`TabsAgreeHolds`). `Convergence` is about tabs at
  rest and so says nothing that a step could preserve. The invariant `Sound` is
  about every tab: a view is a text, its revision, and the operation of the tab that
  the room has not taken in, carried over to that text (`Views`). The tab has one
  and the room has one, and the messages on their way to the tab lead from the first
  to the second (`Link`, `Reaches`): a broadcast applies itself and carries the
  tab's operation over, an acknowledgement applies the tab's operation, a snapshot
  starts afresh. The operation on its way up, carried over what the room has
  remembered since the revision it names, is the one in the room's view (`Pending`),
  a tab asks for one thing at a time (`InFlight`), and broadcasts under way are the
  end of the room's history in order (`Aligned`): what the tab has missed is what
  the room will rebase its next operation over (`TakenUp`). The argument: taking a
  message moves the tab's view along the path (`TransformConverges` closes the
  square for the outstanding operation, again for the buffer, and `ComposeIsBoth`
  merges what is typed into it: `OpTaken`, `EditKept`); an operation the room takes
  in is the author's of its view (`ReceivedSound`), and adds a broadcast to
  everybody else's path and an acknowledgement to its author's
  (`BroadcastConnected`, `AckedConnected`); an operation that names a revision cut
  from the history is no longer in the window and owes the room nothing until the
  snapshot (`PendingGrown`). `CollabSound` is the theorem: `Sound` holds for as long
  as the file has one room, since `split` never becomes false again (`SplitStays`).
  The others are its consequences at an empty queue, at a queue's head, and in a
  room; `Convergence` and `OperationsFit` carry the condition themselves.

Only model-checked: the liveness properties `ClaimsEnd`, `EveryPlanAnswered`,
`LocalWaitsOnProgress`, `EveryTurnEnds` and `EditsAnswered`, because fairness and
`ENABLED` are out of the prover's reach. Every invariant, action property and
refinement of a passing run is also proved; `CaretsInside` and `CollabTypeOK` for as
long as the file has one room, where the run checks them beyond.

## 5. Not modelled

`drainInFlightWork` (a planned restart); follow-up tasks of a partial admission; in
`RemoteWork`, the conditions under which a handler picks an outcome (they are
choices there; `Landing` has those of the integration); exceptions of the database
other than between a promotion and the end of its row; the Postgres store (the same
methods under row locks).

In the landing of work: symbols and imports (an advance is known by its files);
the hunks of a file; the baseline cache of validations; the base a local session
records from the branch as it is read back after the promotion
(`integration-service/src/index.ts:1228`), which may be a later author's; the texts of
follow-ups. A follow-up is a further round of its task, so a task that was queued
again while its follow-up waits is one of the two, not both. The comment at
`lease-admission.ts:1334-1337` says that the marker a follow-up carries keeps one
division per task. The remote handler looks at it (`worker-operations.ts:3866`); the
in-process coordinator does not (`coordinator.ts:5403`), so a local follow-up may be
divided again, in the code and in the model (`MaySalvage`).

What the properties of landing stop short of:

* What recovery lands is held to no base and no grade by the code, so
  `RemoteLandsGraded` and `ExactLandsOnBase` speak of the rest.
* A throw after the promotion fails a task whose work is in canonical
  (`worker-operations.ts:4091-4105`), and retrying it lands it again. `LandsOnce`,
  `LandedIsNotFailed` and `RunsInv` except such a lease, through `cut`.
* A throw or a restart between a remote row and its remainder
  (`worker-operations.ts:3915`, `3978`) loses the remainder; `NothingDropped` excepts
  it, through `cut`.

In the editor, six behaviours the properties stop short of:

* Two tabs that open a file at once each read it and each create a room
  (`collab-websocket.ts:341`); the second replaces the first in the registry and
  both share one set of sockets. The model goes on, but tabs of two rooms do not
  converge: `Convergence`, `OperationsFit`, `CleanIsOnDisk` and `EditsAnswered`
  speak of the time before. `CollabTypeOK`, `CaretsInside` and the first half of
  `CollabInv` are checked after it too.
* The idle sweep marks a room saved as it is after its write and drops it
  (`collab-websocket.ts:906`), although somebody may have joined and typed.
  `CleanIsOnDisk` is about the room in the registry, which that one no longer is.
* Others write the file without telling a room (`overlay.ts:552`, `800`, `826`, `893`;
  `CollabRoom.replaceContent` is there for it and is called by nothing): the room
  still takes itself for clean, and the next save overwrites what they wrote.
  `CleanIsOnDisk` excepts such a file, through `foreign`.
* An edit refused as too large leaves its tab waiting for an acknowledgement;
  `EditsAnswered` excepts it.
* A tab that sends an operation without its caret leaves its old caret where it
  was, possibly outside the text (`room.ts:189`); `CaretsInside` excepts it until the
  tab reports a caret again, through `blind`.
* The size of a document is checked against the growth of an operation as it was
  sent, before it is rebased (`collab-websocket.ts:524-525`). One that deletes and
  inserts grows the text by more once somebody else's deletion of the same letters
  has landed, so a room can exceed `MAX_DOCUMENT_UNITS`, and then every operation
  is refused, a deletion too. The model has this; no property bounds a room's text.

Presence and agent messages, reauthorisation (a close like any other), message
budgets and `CollabDocument.replace`, which nothing calls, are left out. Guests
are bound to a hosted room by a guard of `MayOpen`, and the instance has none.

Ownership grants and blanket claims, the warm pool of workspaces, the audit
chain, sessions, adapters, code intelligence and the apps: PROJECT.json lists
them, each with its reason. Most of the program by lines is of this kind: HTTP
routing, the dashboard, provider clients and SQL, whose state is on a screen or
in somebody else's process.

## 6. The plan

Done, in order of importance: the store, admission, the remote path with
recovery, `Landing` with its refinement of `Canonical`, the editor, and the proofs
of section 4, which cover every safety property the passing runs check. Next:

1. `Ownership` and blanket claims: grants with a TTL, renewal, freeze and
   narrowing against a concurrent widening. Theorem: exclusive grants exclude.
2. `Approval`: votes, decision, timeout and the sweep over abandoned requests.
3. `WarmPool`: acquire, recycle and evict at the pool's limit.
