-------------------------- MODULE MCPlanAdmission --------------------------
(* Three leases over two resources: enough for a revision, an admission that *)
(* races it and a third lease that ends in between.                          *)
EXTENDS PlanAdmission

CONSTANTS l1, l2, l3

MCLeases == {l1, l2, l3}

\* One control plane with revisions; a control plane beside a local run
\* without them.
SafeDeployments ==
    {[remote |-> MCLeases, revisers |-> {l1, l2}],
     [remote |-> {l1, l2}, revisers |-> {}]}

\* A local run whose agent revises its plan, beside remote workers.
MixedDeployments == {[remote |-> {l2, l3}, revisers |-> {l1}]}
=============================================================================
