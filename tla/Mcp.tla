---------------------------------- MODULE Mcp ----------------------------------
(***************************************************************************)
(* One MCP server of a session (src/src/codedoggy/mcp: servers.py,         *)
(* dispatcher.py, restart.py).                                             *)
(*                                                                         *)
(* Everything runs on one event loop, so a step is the code between two    *)
(* awaits: of a config transaction, of an initialisation, of the           *)
(* dispatcher, of the recovery task, of a tool call, or of the owner task  *)
(* of a connection.  Other servers appear only as transactions that        *)
(* change them: they bump the generation that this server's tasks compare. *)
(***************************************************************************)
EXTENDS Naturals, Sequences, FiniteSets, SequencesExt

CONSTANTS Transports,      \* subset of {"stdio", "http"}
          MaxClients, MaxReloads, MaxDeaths, MaxFailures, MaxUses,  \* bounds
          Attempts         \* length of the recovery's delays

ASSUME McpAssumption ==
    /\ Transports \subseteq {"stdio", "http"} /\ Attempts \in Nat \ {0}
    /\ {MaxClients, MaxReloads, MaxDeaths, MaxFailures, MaxUses} \subseteq Nat

VARIABLES
    transport,     \* of the server
    enabled,       \* configured, enabled and set up: not in shutting_down
    hidden,        \* its tool is in disabled_tools
    version,       \* config_versions
    generation,
    client,        \* every McpClient ever made
    owned,         \* owned_clients: the registered one
    catalog,       \* _catalog_by_server
    handshaking,   \* the name is in handshaking
    apply,         \* the transaction that holds _apply_lock
    inits,         \* initialize_server tasks
    queue, batch,  \* the dispatcher's events
    handling,      \* what the dispatcher awaits
    restart,       \* the recovery task; _in_flight while it is not "none"
    call           \* a tool call

(* Bounds and history: guards of the environment, and the properties.      *)
VARIABLES left,      \* what the environment may still do
          abandoned, \* a transaction left a handshake to a task it fenced off
          stale      \* disabled_tools changed under a respawn

config == <<transport, enabled, hidden, version, generation>>
tasks == <<apply, inits, restart, call>>
dispatcher == <<queue, batch, handling>>
history == <<left, abandoned, stale>>
vars == <<config, client, owned, catalog, handshaking, tasks, dispatcher, history>>

NoOne == 0
Clients == 1 .. MaxClients
Unmade == [phase |-> "closed", conn |-> 0, public |-> FALSE]   \* no object, or an unused one
NoTools == [version |-> 0, shows |-> FALSE]
Idle == [at |-> "none", who |-> NoOne, version |-> 0, conn |-> 0]
NoRestart == [at |-> "none", who |-> NoOne, old |-> NoOne, version |-> 0, conn |-> 0,
              tries |-> 0, hidden |-> FALSE]
NoApply == [at |-> "none", closing |-> {}, start |-> FALSE]

Init ==
    /\ transport \in Transports /\ enabled = FALSE /\ hidden = FALSE
    /\ version = 0 /\ generation = 0
    /\ client = [c \in Clients |-> Unmade] /\ owned = NoOne /\ catalog = NoTools /\ handshaking = FALSE
    /\ apply = NoApply /\ inits = {} /\ restart = NoRestart /\ call = Idle
    /\ queue = <<>> /\ batch = <<>> /\ handling = Idle
    /\ left = [reloads |-> MaxReloads, deaths |-> MaxDeaths, failures |-> MaxFailures,
               uses |-> MaxUses]    \* tool calls and list notices
    /\ abandoned = FALSE /\ stale = FALSE

May(what) == left[what] > 0
Uses(what) == May(what) /\ left' = [left EXCEPT ![what] = @ - 1]

-----------------------------------------------------------------------------
(* A client and its connection *)

Phase(c) == IF c = NoOne THEN "empty" ELSE client[c].phase
Ready(c) == Phase(c) = "ready"
Conn(c) == client[c].conn
Alive(c) == client[c].phase \in {"init", "ready"}

(* ensure_initialized: a connection that is up or coming up is shared, a   *)
(* missing one is opened with the next connection generation.              *)
Ensured(cs, c) ==
    IF cs[c].phase \in {"empty", "failed"}
    THEN [cs EXCEPT ![c].phase = "init", ![c].conn = @ + 1] ELSE cs
Held == {owned, handling.who, call.who, restart.who, restart.old} \cup apply.closing
        \cup {i.who : i \in inits} \cup {e.who : e \in ToSet(queue) \cup ToSet(batch)}
Free == {c \in Clients : Phase(c) = "closed"} \ Held
NewClient == CHOOSE c \in Free : \A d \in Free : c <= d
Made(public) ==
    IF Free = {} THEN client
    ELSE [client EXCEPT ![NewClient] = [phase |-> "empty", conn |-> 0, public |-> public]]
Closed(cs, who) == [c \in Clients |-> IF c \in who THEN [cs[c] EXCEPT !.phase = "closed"] ELSE cs[c]]
Reset(cs, c) == IF cs[c].phase = "closed" THEN cs ELSE [cs EXCEPT ![c].phase = "empty"]

(* Who waits for a connection, or for an answer on it, follows that one.   *)
Up(w) == Ready(w.who) /\ Conn(w.who) = w.conn
Gone(w) == Conn(w.who) # w.conn \/ Phase(w.who) \notin {"init", "ready"}
On(w, at, cs, c) == [w EXCEPT !.at = at, !.who = c, !.conn = cs[c].conn]

EmitCloses(kind, c) ==
    queue' = IF client[c].public /\ kind = "transport_closed"
             THEN Append(queue, [kind |-> kind, who |-> c, conn |-> Conn(c)]) ELSE queue
Emit(kind, c) ==
    queue' = IF client[c].public
             THEN Append(queue, [kind |-> kind, who |-> c, conn |-> Conn(c)]) ELSE queue

(* The owner task: the handshake ends, or an open transport closes.        *)
Handshake(c) ==
    /\ Phase(c) = "init"
    /\ \/ client' = [client EXCEPT ![c].phase = "ready"] /\ UNCHANGED <<queue, left>>
       \/ /\ Uses("failures")
          /\ client' = [client EXCEPT ![c].phase = "failed"] /\ Emit("handshake_failed", c)
    /\ UNCHANGED <<config, owned, catalog, handshaking, tasks, batch, handling, abandoned, stale>>
TransportCloses(c) ==
    /\ Ready(c) /\ Uses("deaths")
    /\ client' = [client EXCEPT ![c].phase = "failed"] /\ Emit("transport_closed", c)
    /\ UNCHANGED <<config, owned, catalog, handshaking, tasks, batch, handling, abandoned, stale>>
ToolListChanged(c) ==
    /\ Ready(c) /\ Uses("uses") /\ Emit("tools_list_changed", c)
    /\ UNCHANGED <<config, client, owned, catalog, handshaking, tasks, batch, handling, abandoned, stale>>

-----------------------------------------------------------------------------
(* apply_configs *)

(* The synchronous part.  The server's own change takes its client and its *)
(* tools away; the change of another one restarts it only if it is in the  *)
(* middle of its handshake.                                                *)
Change(on) ==
    /\ enabled \/ on
    /\ version' = version + 1 /\ generation' = generation + 1 /\ enabled' = on
    /\ catalog' = NoTools /\ handshaking' = on /\ owned' = NoOne
    /\ apply' = [at |-> "closing", start |-> on, closing |-> {owned} \ {NoOne}]
    /\ UNCHANGED <<hidden, abandoned, stale>>
Retained(again) ==
    /\ generation' = generation + 1
    /\ owned' = IF again THEN NoOne ELSE owned
    /\ handshaking' = (handshaking \/ again)
    /\ apply' = [at |-> "closing", start |-> again, closing |-> IF again THEN {owned} ELSE {}]
    /\ abandoned' = (abandoned \/ (handshaking /\ ~again))
    /\ UNCHANGED <<enabled, hidden, version, catalog, stale>>
OtherChanges == Retained(Phase(owned) = "init")
ToggleConfigOnly ==
    /\ enabled /\ hidden' = ~hidden /\ stale' = (stale \/ restart.at # "none")
    /\ UNCHANGED <<catalog, enabled, version, generation, handshaking, owned, apply, abandoned>>
Toggle ==
    /\ enabled /\ hidden' = ~hidden
    /\ catalog' = IF catalog = NoTools THEN catalog ELSE [catalog EXCEPT !.shows = hidden]
    /\ stale' = (stale \/ restart.at # "none")
    /\ UNCHANGED <<enabled, version, generation, handshaking, owned, apply, abandoned>>

(* The loop is first in, first out: what the last transaction spawned has  *)
(* started before the next one takes the lock.                             *)
ApplyConfigs ==
    /\ apply.at = "none" /\ Uses("reloads") /\ \A i \in inits : i.at # "spawned"
    /\ (\E on \in BOOLEAN : Change(on)) \/ OtherChanges \/ Toggle
    /\ UNCHANGED <<transport, client, inits, restart, call, dispatcher>>

(* The old clients are closed, then the initialisations are spawned.       *)
ApplyEnds ==
    /\ apply.at = "closing" /\ apply' = NoApply
    /\ client' = Closed(client, apply.closing)
    /\ inits' = IF apply.start
                THEN inits \cup {[at |-> "spawned", who |-> NoOne, version |-> version,
                                  generation |-> generation, conn |-> 0]}
                ELSE inits
    /\ UNCHANGED <<config, owned, catalog, handshaking, restart, call, dispatcher, history>>

-----------------------------------------------------------------------------
(* initialize_server and refresh_server_tools *)

Fenced(i) == i.generation # generation \/ i.version # version
Catalog(isHidden) == [version |-> version, shows |-> ~isHidden]
Step(i, j) == inits' = (inits \ {i}) \cup {j}

(* A task whose generation has passed returns before its try.              *)
InitStarts(i) ==
    /\ i.at = "spawned"
    /\ IF Fenced(i) \/ ~enabled
       THEN inits' = inits \ {i} /\ UNCHANGED <<client, owned>>
       ELSE /\ owned = NoOne => Free # {}
            /\ owned' = IF owned = NoOne THEN NewClient ELSE owned
            /\ client' = Ensured(IF owned = NoOne THEN Made(TRUE) ELSE client, owned')
            /\ Step(i, On(i, "shake", client', owned'))
    /\ UNCHANGED <<config, catalog, handshaking, apply, restart, call, dispatcher, history>>
InitConnected(i) ==
    /\ i.at = "shake" /\ Up(i) /\ Step(i, [i EXCEPT !.at = "list"])
    /\ UNCHANGED <<config, client, owned, catalog, handshaking, apply, restart, call, dispatcher, history>>

(* A refresh commits only for the client and the connection it asked.      *)
Same(w) == owned = w.who /\ Conn(w.who) = w.conn
Lingers(i) == handshaking
Leaves(i) == handshaking /\ Fenced(i)
InitLists(i) ==
    /\ i.at = "list" /\ Up(i) /\ inits' = inits \ {i}
    /\ catalog' = IF ~Fenced(i) /\ Same(i) THEN Catalog(hidden) ELSE catalog
    /\ handshaking' = Leaves(i)
    /\ UNCHANGED <<config, client, owned, apply, restart, call, dispatcher, history>>
InitFails(i) ==
    /\ \/ i.at \in {"shake", "list"} /\ Gone(i) /\ UNCHANGED left
       \/ i.at = "list" /\ Uses("failures")                  \* tools/list failed
    /\ inits' = inits \ {i} /\ handshaking' = Leaves(i)
    /\ UNCHANGED <<config, client, owned, catalog, apply, restart, call, dispatcher, abandoned, stale>>

-----------------------------------------------------------------------------
(* The dispatcher *)

SameName(e) == owned # NoOne
IsCurrent(e) == owned = e.who /\ Conn(e.who) = e.conn

(* One window: per kind the last event, where its first one was; of the    *)
(* closes, the last one that is about the current connection.              *)
Kinds == {"handshake_failed", "transport_closed", "tools_list_changed"}
LastOf(events, kind) ==
    LET those == {n \in DOMAIN events : events[n].kind = kind}
        good == {n \in those : IsCurrent(events[n])}
    IN IF kind = "transport_closed" THEN good ELSE those
FirstOf(events, kind) == Min({n \in DOMAIN events : events[n].kind = kind})
Coalesced(b, events) ==
    /\ {b[i].kind : i \in DOMAIN b} = {kind \in Kinds : LastOf(events, kind) # {}}
    /\ \A i \in DOMAIN b : b[i] = events[Max(LastOf(events, b[i].kind))]
    /\ \A i, j \in DOMAIN b : i < j => FirstOf(events, b[i].kind) < FirstOf(events, b[j].kind)
Collect ==
    /\ handling.at = "none" /\ batch = <<>> /\ queue # <<>>
    /\ \E n \in 1 .. Len(queue), size \in 0 .. Cardinality(Kinds) :
         LET window == SubSeq(queue, 1, n) IN
           /\ batch' \in [1 .. size -> ToSet(window)] /\ Coalesced(batch', window)
           /\ queue' = SubSeq(queue, n + 1, Len(queue))
    /\ UNCHANGED <<config, client, owned, catalog, handshaking, tasks, handling, history>>

(* maybe_schedule: one recovery per server at a time.                      *)
Schedule(closed) ==
    restart' = IF ~enabled \/ restart.at # "none" \/ (transport = "http" /\ (~closed \/ owned = NoOne))
               THEN restart
               ELSE [NoRestart EXCEPT !.at = "sleep", !.version = version, !.tries = Attempts,
                                      !.who = IF transport = "http" THEN owned ELSE NoOne]
Handle ==
    /\ handling.at = "none" /\ batch # <<>> /\ batch' = Tail(batch)
    /\ LET e == Head(batch) IN
         \/ /\ ~IsCurrent(e) /\ UNCHANGED <<client, owned, handling, restart>>
         \/ /\ IsCurrent(e) /\ e.kind = "tools_list_changed"
            /\ client' = Ensured(client, e.who)
            /\ handling' = On(Idle, "list", client', e.who)
            /\ UNCHANGED <<owned, restart>>
         \/ /\ IsCurrent(e) /\ e.kind = "transport_closed" /\ transport = "stdio"
            /\ owned' = NoOne /\ client' = Closed(client, {e.who})
            /\ handling' = [Idle EXCEPT !.at = "evict"] /\ UNCHANGED restart
         \/ /\ IsCurrent(e) /\ e.kind # "tools_list_changed"
            /\ e.kind = "handshake_failed" \/ transport = "http"
            /\ Schedule(e.kind = "transport_closed")
            /\ UNCHANGED <<client, owned, handling>>
    /\ UNCHANGED <<config, catalog, handshaking, apply, inits, call, queue, history>>

(* The dead client is closed: its tools go, a recovery is scheduled.       *)
Evicted ==
    /\ handling.at = "evict" /\ handling' = Idle /\ catalog' = NoTools /\ Schedule(TRUE)
    /\ UNCHANGED <<config, client, owned, handshaking, apply, inits, call, queue, batch, history>>
Refreshed ==
    /\ handling.at = "list" /\ handling' = Idle
    /\ \/ Up(handling) /\ UNCHANGED left
          /\ catalog' = IF enabled /\ Same(handling) THEN Catalog(hidden) ELSE catalog
       \/ Gone(handling) /\ UNCHANGED <<left, catalog>>
       \/ Up(handling) /\ Uses("failures") /\ UNCHANGED catalog
    /\ UNCHANGED <<config, client, owned, handshaking, tasks, queue, batch, abandoned, stale>>

-----------------------------------------------------------------------------
(* The recovery task *)

RestartEnds == restart' = [NoRestart EXCEPT !.at = "done"]   \* its callback is still to run
RestartDone ==
    /\ restart.at = "done" /\ restart' = NoRestart
    /\ UNCHANGED <<config, client, owned, catalog, handshaking, apply, inits, call, dispatcher, history>>
StillConfigured == enabled /\ restart.version = version
Failed == restart' = [restart EXCEPT !.at = "failing"]

(* stdio: a private candidate is connected and listed before it replaces   *)
(* the registered client; http: the registered client reconnects.          *)
RestartWakes ==
    /\ restart.at = "sleep"
    /\ \/ /\ ~StillConfigured \/ Ready(owned) \/ (transport = "http" /\ owned # restart.who)
          /\ RestartEnds /\ UNCHANGED client
       \/ /\ StillConfigured /\ ~Ready(owned) /\ transport = "stdio" /\ Free # {}
          /\ client' = Ensured(Made(FALSE), NewClient)
          /\ restart' = [On(restart, "shake", client', NewClient) EXCEPT !.hidden = hidden]
       \/ /\ StillConfigured /\ ~Ready(owned) /\ transport = "http" /\ owned = restart.who
          /\ client' = Ensured(IF Phase(owned) = "init" THEN client ELSE Reset(client, owned), owned)
          /\ restart' = On(restart, "shake", client', owned)
    /\ UNCHANGED <<config, owned, catalog, handshaking, apply, inits, call, dispatcher, history>>
RestartConnected ==
    /\ restart.at = "shake"
    /\ \/ Up(restart) /\ restart' = [restart EXCEPT !.at = "list"]
       \/ Gone(restart) /\ Failed
       \/ Gone(restart) /\ transport = "http" /\ RestartEnds     \* a call's reset cancelled it
    /\ UNCHANGED <<config, client, owned, catalog, handshaking, apply, inits, call, dispatcher, history>>

(* The commit of a respawn is one step: nothing is awaited in it.          *)
AlwaysPublish == TRUE
MayPublish == StillConfigured
PublishSilent ==
    /\ owned' = restart.who /\ catalog' = Catalog(restart.hidden) /\ UNCHANGED client
    /\ restart' = [restart EXCEPT !.at = "closeold", !.old = owned]
Publish ==
    /\ owned' = restart.who /\ catalog' = Catalog(restart.hidden)
    /\ client' = [client EXCEPT ![restart.who].public = TRUE]
    /\ restart' = [restart EXCEPT !.at = "closeold", !.old = owned]
RespawnLists ==
    /\ restart.at = "list" /\ transport = "stdio"
    /\ \/ Ready(restart.who) /\ MayPublish /\ ~Ready(owned) /\ Publish /\ UNCHANGED left
       \/ /\ Ready(restart.who) /\ MayPublish /\ Ready(owned) /\ UNCHANGED <<owned, catalog, client, left>>
          /\ restart' = [restart EXCEPT !.at = "closeold", !.old = restart.who]
       \/ /\ ~Ready(restart.who) \/ ~MayPublish
          /\ Failed /\ UNCHANGED <<owned, catalog, client, left>>
       \/ Ready(restart.who) /\ Uses("failures") /\ Failed /\ UNCHANGED <<owned, catalog, client>>
    /\ UNCHANGED <<config, handshaking, apply, inits, call, dispatcher, abandoned, stale>>
LeavesOld ==
    /\ restart.at = "closeold" /\ RestartEnds /\ UNCHANGED client
    /\ UNCHANGED <<config, owned, catalog, handshaking, apply, inits, call, dispatcher, history>>
RespawnClosesOld ==
    /\ restart.at = "closeold" /\ RestartEnds
    /\ client' = Closed(client, {restart.old} \ {NoOne})
    /\ UNCHANGED <<config, owned, catalog, handshaking, apply, inits, call, dispatcher, history>>
HttpLists ==
    /\ restart.at = "list" /\ transport = "http"
    /\ \/ Up(restart) /\ StillConfigured /\ Same(restart)
          /\ catalog' = Catalog(hidden) /\ RestartEnds /\ UNCHANGED left
       \/ ~(Up(restart) /\ StillConfigured /\ Same(restart))
          /\ Failed /\ UNCHANGED <<catalog, left>>
       \/ Uses("failures") /\ Failed /\ UNCHANGED catalog
    /\ UNCHANGED <<config, client, owned, handshaking, apply, inits, call, dispatcher, abandoned, stale>>

(* One attempt less; a stdio recovery that has none left takes the tools.  *)
Exhausted == restart.at = "failing" /\ restart.tries = 1
RestartFailed ==
    /\ restart.at = "failing"
    /\ client' = IF transport = "stdio" THEN Closed(client, {restart.who}) ELSE client
    /\ IF Exhausted THEN RestartEnds
       ELSE restart' = [restart EXCEPT !.at = "sleep", !.tries = @ - 1]
    /\ catalog' = IF Exhausted /\ transport = "stdio" THEN NoTools ELSE catalog
    /\ UNCHANGED <<config, owned, handshaking, apply, inits, call, dispatcher, history>>

-----------------------------------------------------------------------------
(* call_tool, on the registered client or on one it makes *)

CallStarts ==
    /\ call.at = "none" /\ enabled /\ ~hidden /\ Uses("uses")
    /\ owned = NoOne => Free # {}
    /\ owned' = IF owned = NoOne THEN NewClient ELSE owned
    /\ client' = Ensured(IF owned = NoOne THEN Made(TRUE) ELSE client, owned')
    /\ call' = On(Idle, "shake", client', owned')
    /\ UNCHANGED <<config, catalog, handshaking, apply, inits, restart, dispatcher, abandoned, stale>>
CallConnected ==
    /\ call.at \in {"shake", "shake again"}
    /\ \/ Up(call) /\ call' = [call EXCEPT !.at = IF @ = "shake" THEN "calling" ELSE "retrying"]
       \/ Gone(call) /\ call' = Idle
    /\ UNCHANGED <<config, client, owned, catalog, handshaking, apply, inits, restart, dispatcher, history>>

(* A timed-out http call resets the transport, a broken one also opens it  *)
(* again, once.                                                            *)
CallEnds ==
    /\ call.at \in {"calling", "retrying"}
    /\ \/ call' = Idle /\ UNCHANGED client
       \/ /\ transport = "http" /\ call.at = "calling" /\ call' = Idle
          /\ client' = Reset(client, call.who)
       \/ /\ transport = "http" /\ call.at = "calling" /\ Phase(call.who) # "closed"
          /\ client' = Ensured(Reset(client, call.who), call.who)
          /\ call' = On(call, "shake again", client', call.who)
    /\ UNCHANGED <<config, owned, catalog, handshaking, apply, inits, restart, dispatcher, history>>

-----------------------------------------------------------------------------
Connections == \E c \in Clients : Handshake(c)
Initialisers == \E i \in inits : InitStarts(i) \/ InitConnected(i) \/ InitLists(i) \/ InitFails(i)
Dispatcher == Collect \/ Handle \/ Evicted \/ Refreshed
Recovery == RestartDone \/ RestartWakes \/ RestartConnected \/ RespawnLists \/ RespawnClosesOld
            \/ HttpLists \/ RestartFailed
Next ==
    \/ Connections \/ (\E c \in Clients : TransportCloses(c) \/ ToolListChanged(c))
    \/ ApplyConfigs \/ ApplyEnds \/ Initialisers \/ Dispatcher \/ Recovery
    \/ CallStarts \/ CallConnected \/ CallEnds
Spec == Init /\ [][Next]_vars

(* The loop runs every ready task; handshakes, lists and closes end by     *)
(* their timeouts.                                                         *)
FairSpec ==
    /\ Spec /\ WF_vars(Connections) /\ WF_vars(ApplyEnds) /\ WF_vars(Initialisers)
    /\ WF_vars(Dispatcher) /\ WF_vars(Recovery) /\ WF_vars(CallConnected)
-----------------------------------------------------------------------------
(* Properties *)

(* The types; a server in its handshake is configured, and a refresh or a  *)
(* recovery works on a client that was made (McpState, McpClient).         *)
TypeOK ==
    /\ transport \in Transports /\ {enabled, hidden, handshaking, abandoned, stale} \subseteq BOOLEAN
    /\ version \in 0 .. MaxReloads /\ generation \in version .. MaxReloads
    /\ owned \in 0 .. MaxClients
    /\ \A c \in Clients : client[c].phase \in {"empty", "init", "ready", "failed", "closed"}
    /\ handshaking => enabled
    /\ owned # NoOne => client[owned].phase # "closed" /\ client[owned].public
    /\ {handling.who, call.who, restart.who, restart.old} \subseteq 0 .. MaxClients

(* No connection is left without an owner: what is open is registered, the *)
(* candidate of a recovery, or about to be closed (respawn_stdio,          *)
(* apply_configs, evict_dead_client).                                      *)
Accounted(c) ==
    \/ c = owned \/ c \in apply.closing
    \/ restart.at \in {"shake", "list", "failing"} /\ transport = "stdio" /\ c = restart.who
    \/ restart.at = "closeold" /\ c = restart.old
NoOrphanConnection == \A c \in Clients : Alive(c) => Accounted(c)

(* The tools on offer were listed under the configuration in force,        *)
(* whatever was being connected or listed when it changed (the fences of   *)
(* refresh_server_tools and respawn_stdio).                                *)
CatalogIsCurrent == catalog # NoTools => enabled /\ catalog.version = version

(* A disabled tool is not on offer, and an enabled one is not withheld,    *)
(* unless the switch was turned while a respawn was under way: it commits  *)
(* the catalogue of the configuration it began with.                       *)
ToggleHolds == catalog # NoTools => catalog.shows = ~hidden \/ stale

(* The tools on offer are those of the configuration and of the switch.    *)
CatalogIsRight == TypeOK /\ CatalogIsCurrent /\ ToggleHolds

(* A ready client is replaced only by a change of its configuration: no    *)
(* late close or failure of an older connection evicts it, no recovery and *)
(* no other server's change takes its place (event_is_current).            *)
ReadyIsNotReplaced == owned # NoOne /\ owned' # owned => ~Ready(owned) \/ version' # version

(* Every connection has its owner, and a good one keeps it.                *)
ConnectionsAreOwned == [][NoOrphanConnection' /\ ReadyIsNotReplaced]_vars

(* The handshake of every transaction is over some time, so who waits for  *)
(* the servers goes on; except when another server changes while this one  *)
(* lists its tools or has just failed: nobody ends that one.               *)
InitSettles == handshaking ~> (~handshaking \/ abandoned)

(* The tools of a stdio server whose connection died are withdrawn, unless *)
(* it comes back (the dispatcher's eviction and the recovery's end).       *)
DeadToolsWithdrawn ==
    (transport = "stdio" /\ catalog # NoTools /\ ~Ready(owned)) ~> (catalog = NoTools \/ Ready(owned))

(* Every change of a server comes to an end that its users see.            *)
ServerSettles == InitSettles /\ DeadToolsWithdrawn
=============================================================================
