----------------------------- MODULE MCAgentLoop -----------------------------
(***************************************************************************)
(* The turn and its model: the agent loop, and below it how an answer is   *)
(* read, how a request is asked again, and how a transcript is put on the  *)
(* wire.  They share no variable and are explored one at a time: a         *)
(* behaviour picks one, and the others stay as they begin.                 *)
(*                                                                         *)
(* The loop has two writers of one file and one tool without a path.       *)
(***************************************************************************)
EXTENDS AgentLoop, ModelStreams, ModelRetry, ModelWire
CONSTANTS w1, w2, r, a1, a2
VARIABLE layer

MCBatches == {<<>>, <<w1, w2>>, <<w1, r>>, <<w1, r, w2>>}
MCLockOf == [c \in Calls |-> IF c = r THEN NoLock ELSE "file"]

LayersInit ==
    /\ Init /\ StreamsInit /\ RetryInit /\ WireInit
    /\ layer \in {"loop", "streams", "retry", "wire"}
    /\ layer # "loop" => open = {} /\ limit = NoLimit
    /\ layer # "streams" => wire = "chat" /\ manner = "body"
    /\ layer # "retry" => transport = "chat" /\ server = [stream |-> TRUE, secret |-> TRUE]
    /\ layer # "wire" => target = "strict"
LayersNext ==
    \/ layer = "loop" /\ Next /\ UNCHANGED <<layer, streams, retries, wires>>
    \/ layer = "streams" /\ StreamsNext /\ UNCHANGED <<layer, vars, retries, wires>>
    \/ layer = "retry" /\ RetryNext /\ UNCHANGED <<layer, vars, streams, wires>>
    \/ layer = "wire" /\ WireNext /\ UNCHANGED <<layer, vars, streams, retries>>
InLoop == layer = "loop" /\ Loop
InPool == layer = "loop" /\ Worker
LayersSpec ==
    /\ LayersInit /\ [][LayersNext]_<<layer, vars, streams, retries, wires>>
    /\ WF_vars(InLoop) /\ WF_vars(InPool)

(* The model is told what happened and heard as it spoke: each provider    *)
(* gets a transcript it can read, asking ends, and an answer is whole      *)
(* (model/ under src/src/codedoggy).                                       *)
ModelIsHeard == RequestIsLegal /\ AsksEndRightly /\ AnswersAreTrue
=============================================================================
