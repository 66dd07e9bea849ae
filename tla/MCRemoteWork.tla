--------------------------- MODULE MCRemoteWork ---------------------------
(* Small instances of RemoteWork.  The tasks share one repository and are    *)
(* queued behind one another only where a run says so.                       *)
EXTENDS RemoteWork, TLC

CONSTANTS t1, t2, repo

MCRepository == [t \in Tasks |-> repo]
MCConversation == [t \in Tasks |-> t]
MCAfter == [t \in Tasks |-> NoTask]
MCPriority == [t \in Tasks |-> IF t = t1 THEN 0 ELSE 1]
MCFilters == {Tasks}
LeaseSymmetry == Permutations(Leases)
=============================================================================
