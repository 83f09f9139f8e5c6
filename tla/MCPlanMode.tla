------------------------------ MODULE MCPlanMode ------------------------------
(* PlanMode with a terminal interface that answers approvals. *)
EXTENDS PlanMode
=============================================================================
