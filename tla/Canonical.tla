----------------------------- MODULE Canonical -----------------------------
(***************************************************************************)
(* What the canonical branch promises to everybody who reads it: a line of *)
(* revisions that only grows, each of them its predecessor with the work   *)
(* of one task added.                                                      *)
(*                                                                         *)
(* A file is the set of the edits it holds; an edit is named by the task   *)
(* that made it.  A task lands by adding its edit to some files.  Two      *)
(* authors may take edits away: a rollback, which undoes what happened     *)
(* between two revisions, and a task that reconciles a conflict, which may *)
(* rewrite the files of its plan.                                          *)
(***************************************************************************)
EXTENDS Naturals, Sequences

CONSTANTS
    Files,          \* the paths of the repository
    Tasks,          \* whoever lands work
    Rollbacks,      \* the tasks that restore an earlier revision
    Reconcilers,    \* the tasks that may rewrite what they conflict with
    Plan            \* per task: the files it may write

VARIABLE history    \* the tree and the author of every revision

Tip == history[Len(history)].tree

Extend(t, tree) == history' = Append(history, [tree |-> tree, by |-> t])

\* t's edit is added to some files; nothing else of the tip moves.
Land(t) ==
    \E F \in SUBSET Files :
        Extend(t, [f \in Files |-> IF f \in F THEN Tip[f] \cup {t} ELSE Tip[f]])

\* What happened to the files of t's plan between revisions r and b is undone.
Restore(t) ==
    \E b \in 1..Len(history) : \E r \in 1..b :
        LET was == history[r].tree
            is  == history[b].tree
        IN  Extend(t, [f \in Files |->
                         IF f \in Plan[t]
                         THEN (Tip[f] \ (is[f] \ was[f])) \cup (was[f] \ is[f])
                         ELSE Tip[f]])

\* Some content of the files of t's plan is replaced; no other file moves.
Rewrite(t) ==
    /\ Len(history') = Len(history) + 1
    /\ LET tree == history'[Len(history')].tree
       IN  /\ tree \in [Files -> SUBSET Tasks]
           /\ \A f \in Files \ Plan[t] : tree[f] = Tip[f]
           /\ Extend(t, tree)

Init == history = << [tree |-> [f \in Files |-> {}], by |-> "nobody"] >>

Next ==
    \/ \E t \in Tasks : Land(t)
    \/ \E t \in Rollbacks : Restore(t)
    \/ \E t \in Reconcilers : Rewrite(t)

Spec == Init /\ [][Next]_history
=============================================================================
