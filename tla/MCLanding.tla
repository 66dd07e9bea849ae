----------------------------- MODULE MCLanding -----------------------------
(***************************************************************************)
(* Two files, which every task may write and writes.  The remote task      *)
(* depends on the second, nobody else on any.                              *)
(***************************************************************************)
EXTENDS Landing

CONSTANTS f1, f2, r1, l1, o1, b1

MCPlan ==
    [t \in Tasks |-> {f1, f2}]
MCOutputs ==
    [t \in Tasks |-> {MCPlan[t]}]
MCReads ==
    [t \in Tasks |-> IF t = r1 THEN {f2} ELSE {}]
=============================================================================
