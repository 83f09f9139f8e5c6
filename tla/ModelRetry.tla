------------------------------ MODULE ModelRetry ------------------------------
(***************************************************************************)
(* How a transport asks again: complete and complete_stream of the four    *)
(* clients under src/src/codedoggy/model.  A rejected stream becomes a     *)
(* plain request; rejected encrypted reasoning is switched off for the     *)
(* whole client; a stale Bedrock connection is replaced, once.             *)
(*                                                                         *)
(* Several turns share one client: the session's and its children's.       *)
(***************************************************************************)
EXTENDS Naturals, Sequences, FiniteSets, Functions

CONSTANTS Askers,          \* turns that share the client
          MaxStale         \* bound on how often the connections go stale

ASSUME RetryAssumption == MaxStale \in Nat

VARIABLES
    transport, server,  \* server: what it does not take (external, fixed)
    replay,             \* _reasoning_replay_enabled
    cached,             \* _bedrock_runtime_client_cache: a connection; 0: none
    made, stale,        \* connections created; those that went stale
    ask                 \* per asker: where it is, what it sends, what it tried

retries == <<transport, server, replay, cached, made, stale, ask>>

Idle == [pc |-> "idle", mode |-> "plain", secret |-> FALSE, sends |-> FALSE, conn |-> 0,
         renewed |-> FALSE, tried |-> <<>>]
RetryInit ==
    /\ transport \in {"chat", "responses", "converse"}
    /\ server \in [stream : BOOLEAN, secret : BOOLEAN]
    /\ (transport # "responses") => server.secret
    /\ replay = TRUE /\ cached = 0 /\ made = 0 /\ stale = {}
    /\ ask = [a \in Askers |-> Idle]

(* chat stands for anthropic too; secret: the history has encrypted        *)
(* reasoning.                                                              *)
Ask(a, mode, secret) ==
    /\ ask[a].pc = "idle" /\ (secret => transport = "responses")
    /\ ask' = [ask EXCEPT ![a] = [Idle EXCEPT !.pc = "build", !.mode = mode, !.secret = secret]]
    /\ UNCHANGED <<transport, server, replay, cached, made, stale>>

(* converse looks the client up in one step and takes it in another.       *)
LookUp(a) ==
    /\ ask[a].pc = "build" /\ transport = "converse"
    /\ made' = (IF cached = 0 THEN made + 1 ELSE made)
    /\ cached' = (IF cached = 0 THEN made + 1 ELSE cached)
    /\ ask' = [ask EXCEPT ![a].pc = "take"]
    /\ UNCHANGED <<transport, server, replay, stale>>

ReplayAnyway(a) == ask[a].secret
MayReplay(a) == ask[a].secret /\ replay
Attempt(a) == [mode |-> ask[a].mode, secret |-> MayReplay(a), conn |-> cached]
Sent(a) ==
    [ask EXCEPT ![a].pc = "sent", ![a].sends = MayReplay(a), ![a].conn = cached,
                ![a].tried = Append(@, Attempt(a))]
Send(a) ==
    /\ ask[a].pc = (IF transport = "converse" THEN "take" ELSE "build")
    /\ transport = "converse" => cached # 0
    /\ ask' = Sent(a)
    /\ UNCHANGED <<transport, server, replay, cached, made, stale>>
(* The client was invalidated between the two steps: a KeyError.           *)
TakeRaises(a) ==
    /\ ask[a].pc = "take" /\ cached = 0
    /\ ask' = [ask EXCEPT ![a].pc = "robbed"]
    /\ UNCHANGED <<transport, server, replay, cached, made, stale>>

(***************************************************************************)
(* What came back.                                                         *)
(***************************************************************************)
Goes(a, pc) == ask' = [ask EXCEPT ![a].pc = pc]
(* Ask again in a mode.  converse falls into _call_converse, which may     *)
(* replace a connection of its own.                                        *)
Again(a, mode, renewed) ==
    ask' = [ask EXCEPT ![a].pc = "build", ![a].mode = mode, ![a].renewed = renewed]

Succeeds(a) ==
    /\ ask[a].pc = "sent" /\ ask[a].conn \notin stale
    /\ ask[a].mode = "stream" => server.stream
    /\ ask[a].sends => server.secret
    /\ Goes(a, "done")
    /\ UNCHANGED <<transport, server, replay, cached, made, stale>>
(* The server is down, or rejects the request whatever its form.           *)
ServerFails(a) ==
    /\ ask[a].pc = "sent"
    /\ Goes(a, "failed")
    /\ UNCHANGED <<transport, server, replay, cached, made, stale>>

(* 400, 404, 422, or no permission to stream.                              *)
AgainAsBefore(a) == Again(a, ask[a].mode, FALSE)
FallsBack(a) == Again(a, "plain", FALSE)
StreamRejected(a) ==
    /\ ask[a].pc = "sent" /\ ask[a].mode = "stream" /\ ~server.stream
    /\ ask[a].conn \notin stale
    /\ FallsBack(a)
    /\ UNCHANGED <<transport, server, replay, cached, made, stale>>

(* 400 invalid_encrypted_content.  Who finds replay already disabled does  *)
(* not ask again in the same mode: a stream falls back, a plain request    *)
(* fails.                                                                  *)
SecretRejected(a) ==
    /\ ask[a].pc = "sent" /\ ask[a].sends /\ ~server.secret
    /\ IF replay THEN replay' = FALSE /\ Again(a, ask[a].mode, FALSE)
       ELSE /\ IF ask[a].mode = "stream" THEN FallsBack(a) ELSE Goes(a, "late")
            /\ UNCHANGED replay
    /\ UNCHANGED <<transport, server, cached, made, stale>>

(* A stale connection: invalidated and replaced the first time.            *)
MayRenewAlways(a) == TRUE
MayRenew(a) == ~ask[a].renewed
Stale(a) ==
    /\ ask[a].pc = "sent" /\ ask[a].conn \in stale
    /\ IF MayRenew(a) THEN cached' = 0 /\ Again(a, ask[a].mode, TRUE)
       ELSE Goes(a, "stale") /\ UNCHANGED cached
    /\ UNCHANGED <<transport, server, replay, made, stale>>
ConnectionsGoStale ==
    /\ transport = "converse" /\ Cardinality(stale) < MaxStale
    /\ cached \notin stale \cup {0}
    /\ stale' = stale \cup {cached}
    /\ UNCHANGED <<transport, server, replay, cached, made, ask>>

RetryNext ==
    \/ \E a \in Askers :
         \/ \E mode \in {"stream", "plain"}, secret \in BOOLEAN : Ask(a, mode, secret)
         \/ LookUp(a) \/ Send(a) \/ TakeRaises(a)
         \/ Succeeds(a) \/ ServerFails(a)
         \/ StreamRejected(a) \/ SecretRejected(a) \/ Stale(a)
    \/ ConnectionsGoStale
RetrySpec == RetryInit /\ [][RetryNext]_retries

(***************************************************************************)
(* Asking ends, and each attempt changes something the server or the       *)
(* connection objected to: no attempt is made twice, whatever the other    *)
(* askers do to the shared client.  Alone with the client, a request fails *)
(* only when the server fails it in its plainest form, or a second         *)
(* connection went stale; a request that may stream never fails because of *)
(* its reasoning.  Replay stays on where the server takes it.              *)
(***************************************************************************)
Others(a) == {b \in Askers \ {a} : ask[b].pc # "idle"}
AsksEndRightly ==
    /\ \A a \in Askers :
         /\ IsInjective(ask[a].tried)
         /\ Len(ask[a].tried) <= (IF transport = "converse" THEN 4 ELSE 3)
         /\ ask[a].pc \in {"late", "robbed"} => Others(a) # {}
         /\ ask[a].pc = "late" => ask[a].tried[1].mode = "plain" \/ ~server.stream
         /\ ask[a].pc = "stale" => Cardinality(stale) > 1
    /\ replay \/ ~server.secret
=============================================================================
