------------------------ MODULE MCSubagentCoordinator ------------------------
(* Instances of SubagentCoordinator for TLC.                                 *)
EXTENDS SubagentCoordinator, TLC

(* Children and callers are interchangeable. *)
Symmetric == Permutations(Children) \cup Permutations(Callers)

=============================================================================
