---------------------------- MODULE MCWorkStore ----------------------------
(* A small instance of WorkStore: two repositories' worth of tasks is not  *)
(* needed for the cap, so all tasks share one repository; t2 is queued      *)
(* after t1, and t3 is a second turn of t1's conversation.                  *)
EXTENDS WorkStore, TLC

CONSTANTS t1, t2, t3, repo, conv1, conv2

MCTasks == {t1, t2, t3}
MCRepository == [t \in MCTasks |-> repo]
MCConversation == [t \in MCTasks |-> IF t = t2 THEN conv2 ELSE conv1]
MCAfter == [t \in MCTasks |-> IF t = t2 THEN t1 ELSE NoTask]
MCPriority == (t1 :> 1) @@ (t2 :> 2) @@ (t3 :> 0)
LeaseSymmetry == Permutations(Leases)
MCFilters == {MCTasks, {t1}, {t2}}
=============================================================================
