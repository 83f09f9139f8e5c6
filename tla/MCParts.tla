------------------------------- MODULE MCParts -------------------------------
(***************************************************************************)
(* Small components that share no state, explored one at a time: a         *)
(* behaviour picks a component and the others stay in their initial state, *)
(* where none of their fair actions is enabled.                            *)
(***************************************************************************)
EXTENDS Scheduler, ModelRequests, CodexTurn
CONSTANTS j1, j2, c1, c2
VARIABLE part

Init ==
    /\ SchedInit /\ RequestInit /\ CodexInit
    /\ part \in {"scheduler", "requests", "codex"}
Next ==
    \/ part = "scheduler" /\ SchedNext /\ UNCHANGED <<part, requests, codex>>
    \/ part = "requests" /\ RequestNext /\ UNCHANGED <<part, sched, codex>>
    \/ part = "codex" /\ CodexNext /\ UNCHANGED <<part, sched, requests>>
Spec ==
    /\ Init /\ [][Next]_<<part, sched, requests, codex>>
    /\ SchedFairness /\ RequestFairness /\ CodexFairness

(* What is due fires, who cancelled comes back, and a completion ends,     *)
(* whatever else is stuck.                                                 *)
PartsProgress == DueIsFired /\ CancelledReturns /\ CompletionEnds
=============================================================================
