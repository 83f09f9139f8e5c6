------------------------------ MODULE McpProofs ------------------------------
(***************************************************************************)
(* Proofs about an MCP server of a session (Mcp), for any number of        *)
(* clients, configuration changes, deaths, failures and calls.             *)
(*                                                                         *)
(* That no good connection is evicted by a late event about an older one   *)
(* needs what is said of the events on their way (EventsFit); that none is *)
(* orphaned needs the owner of every object that was not closed, and that  *)
(* no two owners have the same one (Registered, Owned); what is on offer   *)
(* after a respawn needs what its candidate was told (Fresh).              *)
(***************************************************************************)
EXTENDS Mcp, FiniteSetTheorems, WellFoundedInduction, TLAPS

(* What the variables hold.  A candidate of a recovery is in nobody's      *)
(* hands; who is closed stays so until the object is used again.           *)
Phases == {"empty", "init", "ready", "failed", "closed"}
ClientRecord == [phase : Phases, conn : Nat, public : BOOLEAN]
Whose == 0 .. MaxClients
Watch == [at : {"none", "shake", "list", "shake again", "calling", "retrying", "evict"},
          who : Whose, version : Nat, conn : Nat]
Event == [kind : Kinds, who : Clients, conn : Nat]
InitTask == [at : {"spawned", "shake", "list"}, who : Whose, version : Nat,
             generation : Nat, conn : Nat]
RestartTask == [at : {"none", "sleep", "shake", "list", "closeold", "failing", "done"},
                who : Whose, old : Whose, version : Nat, conn : Nat, tries : Nat,
                hidden : BOOLEAN]
Budget == [reloads : Nat, deaths : Nat, failures : Nat, uses : Nat]
Fields ==
    /\ transport \in Transports /\ transport \in {"stdio", "http"}
    /\ enabled \in BOOLEAN /\ hidden \in BOOLEAN /\ handshaking \in BOOLEAN
    /\ abandoned \in BOOLEAN /\ stale \in BOOLEAN
    /\ left \in Budget /\ version \in Nat /\ generation \in Nat
    /\ version <= generation /\ generation + left.reloads <= MaxReloads
    /\ client \in [Clients -> ClientRecord] /\ owned \in Whose
    /\ catalog \in [version : Nat, shows : BOOLEAN]
    /\ apply \in [at : {"none", "closing"}, start : BOOLEAN, closing : SUBSET Clients]
    /\ apply.at = "none" => apply.closing = {}
    /\ inits \subseteq InitTask
    /\ handling \in Watch /\ call \in Watch /\ restart \in RestartTask
    /\ handling.at = "list" => handling.who \in Clients
    /\ call.at # "none" => call.who \in Clients
    /\ restart.at \in {"sleep", "shake", "list", "failing"} => restart.tries # 0
    /\ \A i \in inits : i.at # "spawned" => i.who \in Clients

(* The recovery task has a client to work on, a private one on stdio.      *)
Chosen == \/ restart.at \in {"shake", "list", "failing"}
          \/ restart.at = "sleep" /\ transport = "http"
Candidate == restart.at \in {"shake", "list", "failing"} /\ transport = "stdio"

(* The registered client is open to its users, and neither about to be     *)
(* closed nor the one that is to replace it.                               *)
Registered ==
    /\ owned # NoOne => /\ enabled /\ owned \notin apply.closing
                        /\ client[owned].phase # "closed" /\ client[owned].public
    /\ Chosen => restart.who \in Clients
    /\ Candidate => restart.who # owned /\ restart.who \notin apply.closing
    /\ restart.at = "closeold" => restart.old = NoOne \/ restart.old # owned
    /\ handshaking => enabled

(* Every client that is not closed has its owner, be it connected or not:  *)
(* one without a connection can be opened again.                           *)
Owned == \A c \in Clients : client[c].phase # "closed" => Accounted(c)

(* A close or a failure that is still to be handled is about a connection  *)
(* that is down, or was replaced by a later one.                           *)
Events == ToSet(queue) \cup ToSet(batch)
EventsFit ==
    /\ queue \in Seq(Event) /\ batch \in Seq(Event)
    /\ \A e \in Events :
         /\ e.conn <= Conn(e.who)
         /\ e.conn = Conn(e.who) /\ e.kind # "tools_list_changed" => ~Alive(e.who)

(* A candidate lists its tools under the switch that is in force, unless   *)
(* it was turned since.                                                    *)
Fresh == Candidate /\ restart.at # "failing" => restart.hidden = hidden \/ stale
McpInv == /\ Fields /\ Registered /\ Owned /\ EventsFit
          /\ CatalogIsCurrent /\ ToggleHolds /\ Fresh

-----------------------------------------------------------------------------
(* Clients *)

(* Clients are numbers, and nobody is none of them. *)
LEMMA Numbers ==
  Clients \subseteq Nat /\ NoOne \notin Clients /\ Clients \subseteq Whose
    /\ NoOne \in Whose
BY McpAssumption DEF Clients, NoOne, Whose

(* A free client is one that nobody holds, and the first of them is used.  *)
LEMMA NewIsFree ==
    ASSUME Free # {}
    PROVE  /\ NewClient \in Clients /\ client[NewClient].phase = "closed"
           /\ NewClient \notin Held
<1>1. Free \subseteq Nat /\ Free \subseteq Clients BY Numbers DEF Free
<1>2. \E c \in Free : \A d \in Free : ~(<<d, c>> \in OpToRel(<, Nat))
  BY <1>1, NatLessThanWellFounded, WFMin
<1>3. PICK c \in Free : \A d \in Free : ~(<<d, c>> \in OpToRel(<, Nat)) BY <1>2
<1>4. \A d \in Free : c <= d
  <2> SUFFICES ASSUME NEW d \in Free PROVE c <= d OBVIOUS
  <2>1. c \in Nat /\ d \in Nat BY <1>1
  <2>2. ~(d < c) BY <1>3, <2>1 DEF OpToRel
  <2> QED BY <2>1, <2>2
<1>5. NewClient \in Free BY <1>4 DEF NewClient
<1> QED BY <1>1, <1>5, Numbers DEF Free, Phase

(* A connection is opened with the next number, or shared as it is.        *)
LEMMA Ensures ==
    ASSUME NEW cs \in [Clients -> ClientRecord], NEW c \in Clients
    PROVE  /\ Ensured(cs, c) \in [Clients -> ClientRecord]
           /\ \A d \in Clients : d # c => Ensured(cs, c)[d] = cs[d]
           /\ Ensured(cs, c)[c].public = cs[c].public
           /\ Ensured(cs, c)[c].phase = "closed" <=> cs[c].phase = "closed"
           /\ \/ Ensured(cs, c)[c] = cs[c]
              \/ Ensured(cs, c)[c].conn = cs[c].conn + 1
<1> DEFINE n == cs[c].conn + 1
           r == [cs[c] EXCEPT !.phase = "init", !.conn = n]
<1>1. cs[c] \in ClientRecord /\ n \in Nat BY DEF ClientRecord
<1>2. r \in ClientRecord /\ r.public = cs[c].public /\ r.phase = "init" /\ r.conn = n
  <2> HIDE DEF n
  <2> QED BY <1>1 DEF ClientRecord, Phases
<1>3. CASE cs[c].phase \in {"empty", "failed"}
  <2>1. Ensured(cs, c) = [cs EXCEPT ![c] = r] BY <1>3 DEF Ensured
  <2> HIDE DEF r
  <2> QED BY <1>2, <1>3, <2>1
<1>4. CASE cs[c].phase \notin {"empty", "failed"}
  <2>1. Ensured(cs, c) = cs BY <1>4 DEF Ensured
  <2> QED BY <2>1
<1> QED BY <1>3, <1>4

(* An object that nobody used becomes a client without a connection.       *)
LEMMA Makes ==
    ASSUME Fields, Free # {}, NEW public \in BOOLEAN
    PROVE  /\ Made(public) \in [Clients -> ClientRecord]
           /\ \A d \in Clients : d # NewClient => Made(public)[d] = client[d]
           /\ Made(public)[NewClient].phase = "empty"
           /\ Made(public)[NewClient].public = public
<1> DEFINE r == [phase |-> "empty", conn |-> 0, public |-> public]
<1>1. r \in ClientRecord /\ r.phase = "empty" /\ r.public = public
  BY DEF ClientRecord, Phases
<1>2. Made(public) = [client EXCEPT ![NewClient] = r] BY DEF Made
<1> HIDE DEF r
<1> QED BY <1>1, <1>2, NewIsFree DEF Fields

(* Closing clients leaves the others.                                      *)
LEMMA Closes ==
    ASSUME Fields, NEW who \in SUBSET Clients
    PROVE  /\ Closed(client, who) \in [Clients -> ClientRecord]
           /\ \A d \in Clients : d \notin who => Closed(client, who)[d] = client[d]
           /\ \A d \in who : /\ Closed(client, who)[d].phase = "closed"
                             /\ Closed(client, who)[d].conn = client[d].conn
<1>1. \A d \in Clients : client[d] \in ClientRecord BY DEF Fields
<1>2. \A d \in Clients : /\ [client[d] EXCEPT !.phase = "closed"] \in ClientRecord
                         /\ [client[d] EXCEPT !.phase = "closed"].phase = "closed"
                         /\ [client[d] EXCEPT !.phase = "closed"].conn = client[d].conn
  BY <1>1 DEF ClientRecord, Phases
<1> QED BY <1>1, <1>2 DEF Closed

(* So does a reset, which leaves a closed client closed.                   *)
LEMMA Resets ==
    ASSUME Fields, NEW c \in Clients
    PROVE  /\ Reset(client, c) \in [Clients -> ClientRecord]
           /\ \A d \in Clients : d # c => Reset(client, c)[d] = client[d]
           /\ Reset(client, c)[c].public = client[c].public
           /\ Reset(client, c)[c].conn = client[c].conn
           /\ Reset(client, c)[c].phase = "closed" <=> client[c].phase = "closed"
           /\ Reset(client, c)[c].phase \in {"closed", "empty"}
<1> DEFINE r == [client[c] EXCEPT !.phase = "empty"]
<1>1. client[c] \in ClientRecord /\ client \in [Clients -> ClientRecord] BY DEF Fields
<1>2. r \in ClientRecord /\ r.phase = "empty" /\ r.public = client[c].public
        /\ r.conn = client[c].conn
  BY <1>1 DEF ClientRecord, Phases
<1>3. CASE client[c].phase = "closed" BY <1>1, <1>3 DEF Reset
<1>4. CASE client[c].phase # "closed"
  <2>1. Reset(client, c) = [client EXCEPT ![c] = r] BY <1>4 DEF Reset
  <2> HIDE DEF r
  <2> QED BY <1>1, <1>2, <1>4, <2>1
<1> QED BY <1>3, <1>4

(* What the environment spends of anything else is not a reload.           *)
LEMMA Spends ==
    ASSUME Fields, NEW what \in {"deaths", "failures", "uses"}, Uses(what)
    PROVE  left' \in Budget /\ left'.reloads = left.reloads
BY DEF Fields, Budget, Uses, May

(* What a task is told to follow.                                          *)
LEMMA Follows ==
    ASSUME Fields, NEW cs \in [Clients -> ClientRecord], NEW c \in Clients
    PROVE  /\ \A w \in Watch : On(w, "shake", cs, c) \in Watch
                /\ On(w, "shake", cs, c).who = c /\ On(w, "shake", cs, c).at = "shake"
           /\ \A w \in Watch : On(w, "shake again", cs, c) \in Watch
                /\ On(w, "shake again", cs, c).who = c
                /\ On(w, "shake again", cs, c).at = "shake again"
           /\ \A w \in Watch : On(w, "list", cs, c) \in Watch
                /\ On(w, "list", cs, c).who = c /\ On(w, "list", cs, c).at = "list"
           /\ \A w \in InitTask : On(w, "shake", cs, c) \in InitTask
                /\ On(w, "shake", cs, c).who = c /\ On(w, "shake", cs, c).at = "shake"
           /\ \A w \in RestartTask : On(w, "shake", cs, c) \in RestartTask
                /\ On(w, "shake", cs, c).who = c /\ On(w, "shake", cs, c).at = "shake"
                /\ On(w, "shake", cs, c).hidden = w.hidden
<1> DEFINE n == cs[c].conn
<1>1. n \in Nat /\ c \in Whose BY Numbers DEF ClientRecord
<1> HIDE DEF n
<1>3. ASSUME NEW w \in Watch
      PROVE  /\ On(w, "shake", cs, c) \in Watch
             /\ On(w, "shake", cs, c).who = c /\ On(w, "shake", cs, c).at = "shake"
  <2>1. On(w, "shake", cs, c) = [w EXCEPT !.at = "shake", !.who = c, !.conn = n]
    BY DEF On, n
  <2> QED BY <1>1, <2>1 DEF Watch
<1>4. ASSUME NEW w \in Watch
      PROVE  /\ On(w, "shake again", cs, c) \in Watch
             /\ On(w, "shake again", cs, c).who = c
             /\ On(w, "shake again", cs, c).at = "shake again"
  <2>1. On(w, "shake again", cs, c) =
          [w EXCEPT !.at = "shake again", !.who = c, !.conn = n]
    BY DEF On, n
  <2> QED BY <1>1, <2>1 DEF Watch
<1>5. ASSUME NEW w \in Watch
      PROVE  /\ On(w, "list", cs, c) \in Watch
             /\ On(w, "list", cs, c).who = c /\ On(w, "list", cs, c).at = "list"
  <2>1. On(w, "list", cs, c) = [w EXCEPT !.at = "list", !.who = c, !.conn = n]
    BY DEF On, n
  <2> QED BY <1>1, <2>1 DEF Watch
<1>6. ASSUME NEW w \in InitTask
      PROVE  /\ On(w, "shake", cs, c) \in InitTask
             /\ On(w, "shake", cs, c).who = c /\ On(w, "shake", cs, c).at = "shake"
  <2>1. On(w, "shake", cs, c) = [w EXCEPT !.at = "shake", !.who = c, !.conn = n]
    BY DEF On, n
  <2> QED BY <1>1, <2>1 DEF InitTask
<1>7. ASSUME NEW w \in RestartTask
      PROVE  /\ On(w, "shake", cs, c) \in RestartTask
             /\ On(w, "shake", cs, c).who = c /\ On(w, "shake", cs, c).at = "shake"
             /\ On(w, "shake", cs, c).hidden = w.hidden
  <2>1. On(w, "shake", cs, c) = [w EXCEPT !.at = "shake", !.who = c, !.conn = n]
    BY DEF On, n
  <2> QED BY <1>1, <2>1 DEF RestartTask
<1> QED BY <1>3, <1>4, <1>5, <1>6, <1>7

-----------------------------------------------------------------------------
(* Events *)

(* A client goes on without coming back on a connection that was lost.     *)
Tame(c) ==
    \/ client'[c].conn > client[c].conn
    \/ /\ client'[c].conn = client[c].conn
       /\ client'[c].phase \in {"init", "ready"} =>
            client[c].phase \in {"init", "ready"}

(* Events on their way stay true while their clients are tame and none is  *)
(* added.                                                                  *)
LEMMA EventsStay ==
    ASSUME McpInv, queue' \in Seq(Event), batch' \in Seq(Event), Events' \subseteq Events,
           client' \in [Clients -> ClientRecord], \A e \in Events : Tame(e.who)
    PROVE  EventsFit'
<1> SUFFICES ASSUME NEW e \in Events'
             PROVE  /\ e.conn <= client'[e.who].conn
                    /\ e.conn = client'[e.who].conn /\ e.kind # "tools_list_changed" =>
                         client'[e.who].phase \notin {"init", "ready"}
  BY DEF EventsFit, Conn, Alive
<1>1. e \in Event
  <2>1. \A x \in ToSet(queue) \cup ToSet(batch) : x \in Event
    BY DEF McpInv, EventsFit, ToSet
  <2> QED BY <2>1 DEF Events
<1>2. /\ e.conn <= client[e.who].conn
      /\ e.conn = client[e.who].conn /\ e.kind # "tools_list_changed" =>
           client[e.who].phase \notin {"init", "ready"}
  BY DEF McpInv, EventsFit, Conn, Alive
<1>3. e.who \in Clients /\ e.conn \in Nat BY <1>1 DEF Event
<1>4. client[e.who].conn \in Nat /\ client'[e.who].conn \in Nat
  BY <1>3 DEF McpInv, Fields, ClientRecord
<1>5. Tame(e.who) OBVIOUS
<1> QED BY <1>2, <1>3, <1>4, <1>5 DEF Tame

(* Where the queue and the window stay, only the clients count.            *)
LEMMA SameEvents ==
    ASSUME McpInv, UNCHANGED <<queue, batch>>,
           client' \in [Clients -> ClientRecord], \A e \in Events : Tame(e.who)
    PROVE  EventsFit'
<1>1. Events' = Events BY DEF Events, ToSet
<1>2. queue' \in Seq(Event) /\ batch' \in Seq(Event) BY DEF McpInv, EventsFit
<1> QED BY <1>1, <1>2, EventsStay

(* A client that nobody touches is tame.                                   *)
LEMMA Untouched == ASSUME McpInv, NEW c \in Clients, client'[c] = client[c] PROVE Tame(c)
BY DEF Tame

(* Events are about clients.                                               *)
LEMMA EventsAre == ASSUME McpInv PROVE \A e \in Events : e \in Event /\ e.who \in Clients
<1>1. \A x \in ToSet(queue) \cup ToSet(batch) : x \in Event
  BY DEF McpInv, EventsFit, ToSet
<1> QED BY <1>1 DEF Events, Event

-----------------------------------------------------------------------------
(* One step *)

(* A task that changes neither a client nor who is registered, nor the     *)
(* configuration, can only break what it writes itself.                    *)
LEMMA TasksKeep ==
    ASSUME McpInv, Fields', CatalogIsCurrent', ToggleHolds', handshaking' => handshaking,
           UNCHANGED <<transport, enabled, hidden, version, client, owned, apply, restart,
                       queue, batch, stale>>
    PROVE  McpInv' /\ ReadyIsNotReplaced
<1>1. Registered' BY DEF McpInv, Registered, Chosen, Candidate
<1>2. Owned' BY DEF McpInv, Owned, Accounted
<1>3. EventsFit'
  <2>1. \A e \in Events : Tame(e.who) BY EventsAre, Untouched
  <2>2. client' \in [Clients -> ClientRecord] BY DEF McpInv, Fields
  <2> QED BY <2>1, <2>2, SameEvents
<1>4. Fresh' BY DEF McpInv, Fresh, Candidate
<1>5. ReadyIsNotReplaced BY DEF ReadyIsNotReplaced
<1> QED BY <1>1, <1>2, <1>3, <1>4, <1>5 DEF McpInv

(* A handshake ends, a transport closes, or a server changes its list.     *)
LEMMA ConnectionKeeps ==
    ASSUME McpInv, NEW c \in Clients,
           Handshake(c) \/ TransportCloses(c) \/ ToolListChanged(c)
    PROVE  McpInv' /\ ReadyIsNotReplaced
<1>0. c # NoOne /\ Phase(c) = client[c].phase /\ client[c] \in ClientRecord
  BY Numbers DEF Phase, McpInv, Fields
<1>1. /\ UNCHANGED <<config, owned, catalog, handshaking, tasks, batch, handling,
                     abandoned, stale>>
      /\ left' \in Budget /\ left'.reloads = left.reloads
  BY Spends DEF McpInv, Fields, Handshake, TransportCloses, ToolListChanged
<1>2. /\ client' \in [Clients -> ClientRecord]
      /\ \A d \in Clients : d # c => client'[d] = client[d]
      /\ client'[c].conn = client[c].conn /\ client'[c].public = client[c].public
      /\ client'[c].phase # "closed" /\ client[c].phase \in {"init", "ready"}
  <2>1. client \in [Clients -> ClientRecord] BY DEF McpInv, Fields
  <2>2. PICK phase \in {"ready", "failed", client[c].phase} :
           client' = [client EXCEPT ![c] = [client[c] EXCEPT !.phase = phase]]
    <3>1. [client[c] EXCEPT !.phase = client[c].phase] = client[c]
      BY <1>0 DEF ClientRecord
    <3> QED BY <2>1, <3>1 DEF Handshake, TransportCloses, ToolListChanged
  <2>3. phase \in Phases BY <1>0 DEF ClientRecord, Phases
  <2>4. /\ [client[c] EXCEPT !.phase = phase] \in ClientRecord
        /\ [client[c] EXCEPT !.phase = phase].conn = client[c].conn
        /\ [client[c] EXCEPT !.phase = phase].public = client[c].public
        /\ [client[c] EXCEPT !.phase = phase].phase = phase
    BY <1>0, <2>3 DEF ClientRecord
  <2>5. client[c].phase \in {"init", "ready"}
    BY <1>0 DEF Handshake, TransportCloses, ToolListChanged, Ready
  <2> QED BY <2>1, <2>2, <2>4, <2>5
<1>3. \A e \in Events : Tame(e.who) BY <1>2, EventsAre DEF Tame
<1>4. EventsFit'
  <2>1. batch' = batch /\ batch \in Seq(Event) /\ queue \in Seq(Event)
    BY <1>1 DEF McpInv, EventsFit
  <2>2. CASE UNCHANGED queue BY <1>1, <1>2, <1>3, <2>2, SameEvents
  <2>3. CASE \E kind \in Kinds :
               /\ queue' = Append(queue, [kind |-> kind, who |-> c, conn |-> Conn(c)])
               /\ kind # "tools_list_changed" => client'[c].phase = "failed"
    <3>1. PICK kind \in Kinds :
            /\ queue' = Append(queue, [kind |-> kind, who |-> c, conn |-> Conn(c)])
            /\ kind # "tools_list_changed" => client'[c].phase = "failed"
      BY <2>3
    <3> DEFINE e == [kind |-> kind, who |-> c, conn |-> Conn(c)]
    <3>2. e \in Event /\ e.who = c /\ e.conn = client[c].conn /\ e.kind = kind
      BY <1>0 DEF Event, Conn, ClientRecord
    <3> HIDE DEF e
    <3>3. queue' \in Seq(Event) /\ ToSet(queue)' = ToSet(queue) \cup {e}
      <4>1. queue' = Append(queue, e) BY <3>1 DEF e
      <4>2. /\ Append(queue, e) \in Seq(Event)
            /\ DOMAIN Append(queue, e) = 1 .. (Len(queue) + 1)
            /\ DOMAIN queue = 1 .. Len(queue)
            /\ Len(queue) \in Nat /\ Append(queue, e)[Len(queue) + 1] = e
            /\ \A k \in DOMAIN queue : Append(queue, e)[k] = queue[k]
        BY <2>1, <3>2
      <4> QED BY <4>1, <4>2 DEF ToSet
    <3>4. Events' = Events \cup {e} BY <2>1, <3>3 DEF Events, ToSet
    <3>5. \A x \in Events : x.who \in Clients /\ x.conn \in Nat /\ Tame(x.who)
      BY <1>3, EventsAre DEF Event
    <3>6. \A x \in Clients : client[x].conn \in Nat /\ client'[x].conn \in Nat
      BY <1>2 DEF McpInv, Fields, ClientRecord
    <3>7. \A x \in Events :
            /\ x.conn <= client'[x.who].conn
            /\ x.conn = client'[x.who].conn /\ x.kind # "tools_list_changed" =>
                 client'[x.who].phase \notin {"init", "ready"}
      BY <3>5, <3>6 DEF McpInv, EventsFit, Conn, Alive, Tame
    <3>8. /\ e.conn <= client'[e.who].conn
          /\ e.conn = client'[e.who].conn /\ e.kind # "tools_list_changed" =>
               client'[e.who].phase \notin {"init", "ready"}
      BY <1>2, <3>1, <3>2, <3>6
    <3> QED BY <2>1, <3>3, <3>4, <3>7, <3>8 DEF EventsFit, Conn, Alive
  <2>4. CASE client' = [client EXCEPT ![c].phase = "failed"]
               /\ \E kind \in Kinds : Emit(kind, c)
    <3>1. client'[c].phase = "failed"
      <4>1. client \in [Clients -> ClientRecord] BY DEF McpInv, Fields
      <4> QED BY <1>0, <2>4, <4>1 DEF ClientRecord
    <3> QED BY <2>2, <2>3, <2>4, <3>1 DEF Emit
  <2>5. CASE Emit("tools_list_changed", c) BY <2>2, <2>3, <2>5 DEF Emit, Kinds
  <2> QED BY <2>2, <2>4, <2>5 DEF Handshake, TransportCloses, ToolListChanged, Kinds
<1> USE DEF config, tasks, dispatcher
<1>5. Fields' BY <1>1, <1>2 DEF McpInv, Fields
<1>6. Registered'
  <2>1. owned # NoOne => owned \in Clients BY Numbers DEF McpInv, Fields, Whose, Clients
  <2> QED BY <1>1, <1>2, <2>1 DEF McpInv, Registered, Chosen, Candidate
<1>7. Owned' BY <1>1, <1>2 DEF McpInv, Owned, Accounted
<1>8. CatalogIsCurrent' /\ ToggleHolds' BY <1>1 DEF McpInv, CatalogIsCurrent, ToggleHolds
<1>9. Fresh' BY <1>1 DEF McpInv, Fresh, Candidate
<1> QED BY <1>1, <1>4, <1>5, <1>6, <1>7, <1>8, <1>9 DEF McpInv, ReadyIsNotReplaced

(* Where the clients stay, so does what the events say of them.            *)
LEMMA EventsKeep == ASSUME McpInv, UNCHANGED <<client, queue, batch>> PROVE EventsFit'
<1>1. \A e \in Events : Tame(e.who) BY EventsAre, Untouched
<1>2. client' \in [Clients -> ClientRecord] BY DEF McpInv, Fields
<1> QED BY <1>1, <1>2, SameEvents

(* A transaction fences the server's tasks off and takes its client away,  *)
(* to be closed; the change of another server, only one in its handshake.  *)
LEMMA ApplyKeeps == ASSUME McpInv, ApplyConfigs PROVE McpInv' /\ ReadyIsNotReplaced
<1>1. /\ apply.at = "none" /\ apply.closing = {}
      /\ UNCHANGED <<transport, client, inits, restart, call, dispatcher>>
      /\ left' \in Budget /\ left'.reloads = left.reloads - 1 /\ left.reloads > 0
  BY DEF McpInv, Fields, ApplyConfigs, Uses, May, Budget
<1>2. EventsFit' BY <1>1, EventsKeep DEF dispatcher
<1> USE DEF dispatcher
<1>3. owned \in Whose /\ (owned # NoOne => owned \in Clients)
  BY Numbers DEF McpInv, Fields, Whose, Clients
<1>4. CASE \E on \in BOOLEAN : Change(on)
  <2>1. PICK on \in BOOLEAN : Change(on) BY <1>4
  <2>2. /\ version' = version + 1 /\ generation' = generation + 1 /\ enabled' = on
        /\ catalog' = NoTools /\ handshaking' = on /\ owned' = NoOne
        /\ apply' = [at |-> "closing", start |-> on, closing |-> {owned} \ {NoOne}]
        /\ UNCHANGED <<hidden, abandoned, stale>>
    BY <2>1 DEF Change
  <2>3. NoTools \in [version : Nat, shows : BOOLEAN] BY DEF NoTools
  <2>4. /\ apply' \in [at : {"none", "closing"}, start : BOOLEAN,
             closing : SUBSET Clients]
        /\ apply'.at = "closing" /\ apply'.closing = {owned} \ {NoOne}
    BY <1>3, <2>2
  <2>5. Fields'
    <3>1. version' <= generation' /\ generation' + left'.reloads <= MaxReloads
          /\ version' \in Nat /\ generation' \in Nat
      BY <1>1, <2>2, McpAssumption DEF McpInv, Fields, Budget
    <3> QED BY <1>1, <2>2, <2>3, <2>4, <3>1, Numbers DEF McpInv, Fields
  <2>6. Registered'
    <3>1. Registered /\ (Chosen' <=> Chosen) /\ (Candidate' <=> Candidate)
      BY <1>1 DEF McpInv, Chosen, Candidate
    <3>2. enabled' = handshaking' /\ owned' = NoOne BY <2>2
    <3>3. Candidate' => restart'.who # owned' /\ restart'.who \notin apply'.closing
      <4>1. Candidate => restart.who \in Clients /\ restart.who # owned
        BY <3>1 DEF Registered, Candidate, Chosen
      <4> QED BY <1>1, <2>4, <3>1, <3>2, <4>1, Numbers
    <3>4. Chosen' => restart'.who \in Clients BY <1>1, <3>1 DEF Registered
    <3>5. restart'.at = "closeold" => restart'.old = NoOne \/ restart'.old # owned'
      BY <3>2
    <3> QED BY <3>2, <3>3, <3>4, <3>5 DEF Registered
  <2>7. Owned' BY <1>1, <1>3, <2>2, <2>4, Numbers DEF McpInv, Owned, Accounted
  <2>8. CatalogIsCurrent' /\ ToggleHolds' BY <2>2 DEF CatalogIsCurrent, ToggleHolds
  <2>9. Fresh' BY <1>1, <2>2 DEF McpInv, Fresh, Candidate
  <2>10. ReadyIsNotReplaced
    <3>1. version' # version BY <2>2 DEF McpInv, Fields
    <3> QED BY <3>1 DEF ReadyIsNotReplaced
  <2> QED BY <1>2, <2>5, <2>6, <2>7, <2>8, <2>9, <2>10 DEF McpInv
<1>5. CASE OtherChanges
  <2> DEFINE again == Phase(owned) = "init"
  <2>1. /\ generation' = generation + 1
        /\ owned' = IF again THEN NoOne ELSE owned
        /\ handshaking' = (handshaking \/ again)
        /\ apply' = [at |-> "closing", start |-> again,
             closing |-> IF again THEN {owned} ELSE {}]
        /\ abandoned' = (abandoned \/ (handshaking /\ ~again))
        /\ UNCHANGED <<enabled, hidden, version, catalog, stale>>
    BY <1>5 DEF OtherChanges, Retained
  <2>2. again => owned \in Clients /\ owned # NoOne /\ client[owned].phase = "init"
    BY <1>3 DEF Phase
  <2>3. again \in BOOLEAN OBVIOUS
  <2> HIDE DEF again
  <2>4. /\ apply' \in [at : {"none", "closing"}, start : BOOLEAN,
             closing : SUBSET Clients]
        /\ apply'.at = "closing" /\ apply'.closing = IF again THEN {owned} ELSE {}
    BY <2>1, <2>2, <2>3
  <2>5. Fields'
    <3>1. version' <= generation' /\ generation' + left'.reloads <= MaxReloads
          /\ version' \in Nat /\ generation' \in Nat
      BY <1>1, <2>1, McpAssumption DEF McpInv, Fields, Budget
    <3>2. handshaking' \in BOOLEAN /\ abandoned' \in BOOLEAN
      BY <2>1, <2>3 DEF McpInv, Fields
    <3> QED BY <1>1, <2>1, <2>4, <3>1, <3>2, Numbers DEF McpInv, Fields
  <2>6. Registered'
    <3>1. Registered /\ (Chosen' <=> Chosen) /\ (Candidate' <=> Candidate)
      BY <1>1, <2>1 DEF McpInv, Chosen, Candidate
    <3>2. owned' = owned \/ owned' = NoOne BY <2>1
    <3>3. Candidate' => restart'.who # owned' /\ restart'.who \notin apply'.closing
      <4>1. Candidate => restart.who \in Clients /\ restart.who # owned
        BY <3>1 DEF Registered, Candidate, Chosen
      <4> QED BY <1>1, <2>4, <3>1, <3>2, <4>1, Numbers
    <3>4. Chosen' => restart'.who \in Clients BY <1>1, <3>1 DEF Registered
    <3>5. restart'.at = "closeold" => restart'.old = NoOne \/ restart'.old # owned'
      BY <1>1, <3>1, <3>2 DEF Registered
    <3>6. owned' # NoOne => /\ owned' = owned /\ ~again /\ apply'.closing = {}
                            /\ enabled' /\ client' = client
      BY <1>1, <2>1, <2>4, <3>1 DEF Registered
    <3>7. again => enabled BY <2>2, <3>1 DEF Registered
    <3>8. handshaking' => enabled' BY <2>1, <3>1, <3>7 DEF Registered
    <3> QED BY <3>1, <3>3, <3>4, <3>5, <3>6, <3>8 DEF Registered
  <2>7. Owned' BY <1>1, <1>3, <2>1, <2>2, <2>4, Numbers DEF McpInv, Owned, Accounted
  <2>8. CatalogIsCurrent' /\ ToggleHolds'
    BY <2>1 DEF McpInv, CatalogIsCurrent, ToggleHolds
  <2>9. Fresh' BY <1>1, <2>1 DEF McpInv, Fresh, Candidate
  <2>10. ReadyIsNotReplaced BY <2>1, <2>2 DEF ReadyIsNotReplaced, Ready, Phase
  <2> QED BY <1>2, <2>5, <2>6, <2>7, <2>8, <2>9, <2>10 DEF McpInv
<1>6. CASE Toggle
  <2>1. /\ enabled /\ hidden' = ~hidden /\ stale' = (stale \/ restart.at # "none")
        /\ UNCHANGED <<enabled, version, generation, handshaking, owned, apply,
                       abandoned>>
        /\ catalog' = IF catalog = NoTools THEN catalog
                       ELSE [catalog EXCEPT !.shows = hidden]
    BY <1>6 DEF Toggle
  <2>2. hidden \in BOOLEAN /\ stale \in BOOLEAN
          /\ catalog \in [version : Nat, shows : BOOLEAN]
    BY DEF McpInv, Fields
  <2>3. /\ catalog' \in [version : Nat, shows : BOOLEAN]
        /\ catalog' # NoTools =>
             catalog # NoTools /\ catalog'.version = catalog.version
               /\ catalog'.shows = hidden
    BY <2>1, <2>2
  <2>4. Fields'
    <3>1. version' <= generation' /\ generation' + left'.reloads <= MaxReloads
      BY <1>1, <2>1, McpAssumption DEF McpInv, Fields, Budget
    <3>2. hidden' \in BOOLEAN /\ stale' \in BOOLEAN BY <2>1, <2>2
    <3> QED BY <1>1, <2>1, <2>3, <3>1, <3>2 DEF McpInv, Fields
  <2>5. Registered' BY <1>1, <2>1 DEF McpInv, Registered, Chosen, Candidate
  <2>6. Owned' BY <1>1, <2>1 DEF McpInv, Owned, Accounted
  <2>7. CatalogIsCurrent' /\ ToggleHolds'
    BY <2>1, <2>2, <2>3 DEF McpInv, CatalogIsCurrent, ToggleHolds
  <2>8. Fresh' BY <1>1, <2>1 DEF McpInv, Fresh, Candidate
  <2>9. ReadyIsNotReplaced BY <2>1 DEF ReadyIsNotReplaced
  <2> QED BY <1>2, <2>4, <2>5, <2>6, <2>7, <2>8, <2>9 DEF McpInv
<1> QED BY <1>4, <1>5, <1>6 DEF ApplyConfigs

(* The clients that were taken away are closed.                            *)
LEMMA ApplyEndKeeps == ASSUME McpInv, ApplyEnds PROVE McpInv' /\ ReadyIsNotReplaced
<1>1. /\ apply' = NoApply /\ client' = Closed(client, apply.closing)
      /\ UNCHANGED <<config, owned, catalog, handshaking, restart, call, dispatcher,
                     history>>
  BY DEF ApplyEnds
<1>2. apply.closing \in SUBSET Clients BY DEF McpInv, Fields
<1>3. /\ client' \in [Clients -> ClientRecord]
      /\ \A d \in Clients : d \notin apply.closing => client'[d] = client[d]
      /\ \A d \in apply.closing :
           client'[d].phase = "closed" /\ client'[d].conn = client[d].conn
  BY <1>1, <1>2, Closes DEF McpInv
<1>4. apply'.at = "none" /\ apply'.closing = {}
      /\ apply' \in [at : {"none", "closing"}, start : BOOLEAN, closing : SUBSET Clients]
  BY <1>1 DEF NoApply
<1>5. inits' \subseteq InitTask /\ \A j \in inits' : j.at # "spawned" => j \in inits
  <2> DEFINE task == [at |-> "spawned", who |-> NoOne, version |-> version,
                      generation |-> generation, conn |-> 0]
  <2>1. task \in InitTask /\ task.at = "spawned" BY Numbers DEF InitTask, McpInv, Fields
  <2>2. inits' = inits \/ inits' = inits \cup {task} BY DEF ApplyEnds
  <2> HIDE DEF task
  <2> QED BY <2>1, <2>2 DEF McpInv, Fields
<1> USE DEF config, dispatcher, history
<1>6. Fields' BY <1>1, <1>3, <1>4, <1>5 DEF McpInv, Fields
<1>7. Registered'
  <2>1. owned # NoOne => owned \in Clients BY Numbers DEF McpInv, Fields, Whose, Clients
  <2> QED BY <1>1, <1>3, <1>4, <2>1 DEF McpInv, Registered, Chosen, Candidate
<1>8. Owned' BY <1>1, <1>3 DEF McpInv, Owned, Accounted
<1>9. EventsFit'
  <2>1. \A e \in Events : Tame(e.who) BY <1>3, EventsAre DEF Tame
  <2> QED BY <1>1, <1>3, <2>1, SameEvents
<1>10. CatalogIsCurrent' /\ ToggleHolds' BY <1>1 DEF McpInv, CatalogIsCurrent, ToggleHolds
<1>11. Fresh' BY <1>1 DEF McpInv, Fresh, Candidate
<1> QED BY <1>1, <1>6, <1>7, <1>8, <1>9, <1>10, <1>11 DEF McpInv, ReadyIsNotReplaced

-----------------------------------------------------------------------------
(* Initialisations, refreshes and calls *)

(* Who needs the server's client shares it, or makes one: of an object     *)
(* that is nobody's, so that no task and no event is about it.             *)
LEMMA Acquires ==
    ASSUME McpInv, owned = NoOne => Free # {},
           owned' = IF owned = NoOne THEN NewClient ELSE owned,
           client' = Ensured(IF owned = NoOne THEN Made(TRUE) ELSE client, owned')
    PROVE  /\ client' \in [Clients -> ClientRecord] /\ owned' \in Clients
           /\ owned' # NoOne
           /\ \A d \in Clients : d # owned' => client'[d] = client[d]
           /\ client'[owned'].phase # "closed" /\ client'[owned'].public
           /\ owned # NoOne => owned' = owned
           /\ owned' \notin apply.closing
           /\ Candidate => restart.who # owned'
           /\ restart.at = "closeold" => restart.old = NoOne \/ restart.old # owned'
           /\ \A e \in Events : Tame(e.who)
<1>1. CASE owned = NoOne
  <2>1. Free # {} /\ owned' = NewClient /\ client' = Ensured(Made(TRUE), NewClient)
    BY <1>1
  <2>2. NewClient \in Clients /\ NewClient # NoOne /\ NewClient \notin Held
    BY <2>1, NewIsFree, Numbers
  <2>3. /\ Made(TRUE) \in [Clients -> ClientRecord]
        /\ \A d \in Clients : d # NewClient => Made(TRUE)[d] = client[d]
        /\ Made(TRUE)[NewClient].phase = "empty" /\ Made(TRUE)[NewClient].public = TRUE
    BY <2>1, Makes DEF McpInv
  <2> DEFINE made == Made(TRUE)
             new == NewClient
  <2>4. /\ Ensured(made, new) \in [Clients -> ClientRecord]
        /\ \A d \in Clients : d # new => Ensured(made, new)[d] = made[d]
        /\ Ensured(made, new)[new].public = made[new].public
        /\ Ensured(made, new)[new].phase = "closed" <=> made[new].phase = "closed"
    <3> HIDE DEF made, new
    <3>1. made \in [Clients -> ClientRecord] /\ new \in Clients
      BY <2>2, <2>3 DEF made, new
    <3> QED BY <3>1, Ensures
  <2>5. NewClient \notin apply.closing /\ restart.who # NewClient
          /\ restart.old # NewClient
    BY <2>2 DEF Held
  <2>6. \A e \in Events : e.who # NewClient BY <2>2 DEF Held, Events
  <2>7. \A e \in Events : Tame(e.who)
    <3> SUFFICES ASSUME NEW e \in Events PROVE Tame(e.who) OBVIOUS
    <3>1. e.who \in Clients /\ e.who # NewClient BY <2>6, EventsAre
    <3>2. client'[e.who] = client[e.who] BY <2>1, <2>3, <2>4, <3>1
    <3> QED BY <3>1, <3>2, Untouched
  <2> QED BY <1>1, <2>1, <2>2, <2>3, <2>4, <2>5, <2>7
<1>2. CASE owned # NoOne
  <2>1. owned' = owned /\ client' = Ensured(client, owned) BY <1>2
  <2>2. owned \in Clients BY <1>2, Numbers DEF McpInv, Fields, Whose, Clients
  <2>3. client \in [Clients -> ClientRecord] BY DEF McpInv, Fields
  <2>4. /\ client' \in [Clients -> ClientRecord]
        /\ \A d \in Clients : d # owned => client'[d] = client[d]
        /\ client'[owned].public = client[owned].public
        /\ client'[owned].phase = "closed" <=> client[owned].phase = "closed"
        /\ \/ client'[owned] = client[owned]
           \/ client'[owned].conn = client[owned].conn + 1
    <3>1. /\ Ensured(client, owned) \in [Clients -> ClientRecord]
          /\ \A d \in Clients : d # owned => Ensured(client, owned)[d] = client[d]
          /\ Ensured(client, owned)[owned].public = client[owned].public
          /\ Ensured(client, owned)[owned].phase = "closed" <=>
               client[owned].phase = "closed"
          /\ \/ Ensured(client, owned)[owned] = client[owned]
             \/ Ensured(client, owned)[owned].conn = client[owned].conn + 1
      BY <2>2, <2>3, Ensures
    <3> QED BY <2>1, <3>1
  <2>5. \A e \in Events : Tame(e.who)
    <3>1. client[owned].conn \in Nat BY <2>2, <2>3 DEF ClientRecord
    <3> SUFFICES ASSUME NEW e \in Events PROVE Tame(e.who) OBVIOUS
    <3>2. e.who \in Clients BY EventsAre
    <3>3. client'[e.who] = client[e.who] => Tame(e.who) BY <3>2, Untouched
    <3>4. client'[owned].conn = client[owned].conn + 1 =>
            client'[owned].conn > client[owned].conn
      <4> DEFINE n == client[owned].conn
      <4>1. n + 1 > n
        <5> HIDE DEF n
        <5> QED BY <3>1 DEF n
      <4> QED BY <4>1
    <3>5. e.who = owned /\ client'[owned].conn > client[owned].conn => Tame(e.who)
      BY DEF Tame
    <3> QED BY <2>4, <3>2, <3>3, <3>4, <3>5
  <2> QED BY <1>2, <2>1, <2>2, <2>4, <2>5 DEF McpInv, Registered
<1> QED BY <1>1, <1>2

(* A task that has the client in this way keeps the rest.                  *)
LEMMA AcquiringKeeps ==
    ASSUME McpInv, Fields', enabled, owned = NoOne => Free # {},
           owned' = IF owned = NoOne THEN NewClient ELSE owned,
           client' = Ensured(IF owned = NoOne THEN Made(TRUE) ELSE client, owned'),
           UNCHANGED <<config, catalog, handshaking, apply, restart, dispatcher, stale>>
    PROVE  McpInv' /\ ReadyIsNotReplaced
<1>1. /\ client' \in [Clients -> ClientRecord] /\ owned' \in Clients /\ owned' # NoOne
      /\ \A d \in Clients : d # owned' => client'[d] = client[d]
      /\ client'[owned'].phase # "closed" /\ client'[owned'].public
      /\ owned # NoOne => owned' = owned
      /\ owned' \notin apply.closing
      /\ Candidate => restart.who # owned'
      /\ restart.at = "closeold" => restart.old = NoOne \/ restart.old # owned'
      /\ \A e \in Events : Tame(e.who)
  BY Acquires
<1> USE DEF config, dispatcher
<1>2. Registered' BY <1>1 DEF McpInv, Registered, Chosen, Candidate
<1>3. Owned' BY <1>1, Numbers DEF McpInv, Owned, Accounted
<1>4. EventsFit' BY <1>1, SameEvents
<1>5. CatalogIsCurrent' /\ ToggleHolds' BY DEF McpInv, CatalogIsCurrent, ToggleHolds
<1>6. Fresh' BY DEF McpInv, Fresh, Candidate
<1> QED BY <1>1, <1>2, <1>3, <1>4, <1>5, <1>6 DEF McpInv, ReadyIsNotReplaced

(* An initialisation takes a client, connects it, lists its tools for the  *)
(* configuration it was spawned under, or gives up.                        *)
LEMMA InitKeeps ==
    ASSUME McpInv, NEW i \in inits,
           InitStarts(i) \/ InitConnected(i) \/ InitLists(i) \/ InitFails(i)
    PROVE  McpInv' /\ ReadyIsNotReplaced
<1>1. i \in InitTask /\ (i.at # "spawned" => i.who \in Clients) BY DEF McpInv, Fields
<1>2. CatalogIsCurrent /\ ToggleHolds BY DEF McpInv
<1> USE DEF config, dispatcher, history
<1>3. CASE InitStarts(i)
  <2>1. UNCHANGED <<config, catalog, handshaking, apply, restart, call, dispatcher,
                    history>>
    BY <1>3 DEF InitStarts
  <2>2. CASE Fenced(i) \/ ~enabled
    <3>1. inits' = inits \ {i} /\ UNCHANGED <<client, owned>> BY <1>3, <2>2 DEF InitStarts
    <3>2. Fields' BY <2>1, <3>1 DEF McpInv, Fields
    <3>3. CatalogIsCurrent' /\ ToggleHolds'
      BY <1>2, <2>1 DEF CatalogIsCurrent, ToggleHolds
    <3> QED BY <2>1, <3>1, <3>2, <3>3, TasksKeep
  <2>3. CASE ~(Fenced(i) \/ ~enabled)
    <3>1. /\ owned = NoOne => Free # {}
          /\ owned' = IF owned = NoOne THEN NewClient ELSE owned
          /\ client' = Ensured(IF owned = NoOne THEN Made(TRUE) ELSE client, owned')
          /\ inits' = (inits \ {i}) \cup {On(i, "shake", client', owned')}
          /\ enabled
      BY <1>3, <2>3 DEF InitStarts, Step
    <3>2. client' \in [Clients -> ClientRecord] /\ owned' \in Clients BY <3>1, Acquires
    <3>3. /\ On(i, "shake", client', owned') \in InitTask
          /\ On(i, "shake", client', owned').who = owned'
      BY <1>1, <3>2, Follows DEF McpInv
    <3>4. /\ inits' \subseteq InitTask
          /\ \A j \in inits' : j.at # "spawned" => j.who \in Clients
      BY <3>1, <3>2, <3>3 DEF McpInv, Fields
    <3>5. Fields' BY <2>1, <3>2, <3>4, Numbers DEF McpInv, Fields
    <3> QED BY <2>1, <3>1, <3>5, AcquiringKeeps
  <2> QED BY <2>2, <2>3
<1>4. CASE InitConnected(i)
  <2>1. /\ i.at = "shake" /\ inits' = (inits \ {i}) \cup {[i EXCEPT !.at = "list"]}
        /\ UNCHANGED <<config, client, owned, catalog, handshaking, apply, restart, call,
                       dispatcher, history>>
    BY <1>4 DEF InitConnected, Step
  <2>2. [i EXCEPT !.at = "list"] \in InitTask /\ [i EXCEPT !.at = "list"].who = i.who
    BY <1>1 DEF InitTask
  <2>3. /\ inits' \subseteq InitTask
        /\ \A j \in inits' : j.at # "spawned" => j.who \in Clients
    BY <1>1, <2>1, <2>2 DEF McpInv, Fields
  <2>4. Fields' BY <2>1, <2>3 DEF McpInv, Fields
  <2>5. CatalogIsCurrent' /\ ToggleHolds' BY <1>2, <2>1 DEF CatalogIsCurrent, ToggleHolds
  <2> QED BY <2>1, <2>4, <2>5, TasksKeep
<1>5. CASE InitLists(i)
  <2>1. /\ i.at = "list" /\ inits' = inits \ {i} /\ handshaking' = Leaves(i)
        /\ catalog' = IF ~Fenced(i) /\ Same(i) THEN Catalog(hidden) ELSE catalog
        /\ UNCHANGED <<config, client, owned, apply, restart, call, dispatcher, history>>
    BY <1>5 DEF InitLists
  <2>2. handshaking' \in BOOLEAN /\ (handshaking' => handshaking)
    BY <2>1 DEF Leaves, McpInv, Fields
  <2>3. CASE ~Fenced(i) /\ Same(i)
    <3>1. owned # NoOne /\ enabled
      BY <1>1, <2>1, <2>3, Numbers DEF Same, McpInv, Registered
    <3>2. /\ catalog' = [version |-> version, shows |-> ~hidden]
          /\ catalog' \in [version : Nat, shows : BOOLEAN]
          /\ catalog'.version = version /\ catalog'.shows = ~hidden
      BY <2>1, <2>3 DEF Catalog, McpInv, Fields
    <3>3. Fields' BY <2>1, <2>2, <3>2 DEF McpInv, Fields
    <3>4. CatalogIsCurrent' /\ ToggleHolds'
      BY <2>1, <3>1, <3>2 DEF CatalogIsCurrent, ToggleHolds
    <3> QED BY <2>1, <2>2, <3>3, <3>4, TasksKeep
  <2>4. CASE ~(~Fenced(i) /\ Same(i))
    <3>1. UNCHANGED catalog BY <2>1, <2>4
    <3>2. Fields' BY <2>1, <2>2, <3>1 DEF McpInv, Fields
    <3>3. CatalogIsCurrent' /\ ToggleHolds'
      BY <1>2, <2>1, <3>1 DEF CatalogIsCurrent, ToggleHolds
    <3> QED BY <2>1, <2>2, <3>2, <3>3, TasksKeep
  <2> QED BY <2>3, <2>4
<1>6. CASE InitFails(i)
  <2>1. /\ inits' = inits \ {i} /\ handshaking' = Leaves(i)
        /\ UNCHANGED <<config, client, owned, catalog, apply, restart, call, dispatcher,
                       abandoned, stale>>
    BY <1>6 DEF InitFails
  <2>2. handshaking' \in BOOLEAN /\ (handshaking' => handshaking)
    BY <2>1 DEF Leaves, McpInv, Fields
  <2>3. left' \in Budget /\ left'.reloads = left.reloads
    BY <1>6, Spends DEF InitFails, McpInv, Fields
  <2>4. Fields' BY <2>1, <2>2, <2>3 DEF McpInv, Fields
  <2>5. CatalogIsCurrent' /\ ToggleHolds' BY <1>2, <2>1 DEF CatalogIsCurrent, ToggleHolds
  <2> QED BY <2>1, <2>2, <2>4, <2>5, TasksKeep
<1> QED BY <1>3, <1>4, <1>5, <1>6

(* The dispatcher's refresh commits for the client that is registered.     *)
LEMMA RefreshedKeeps == ASSUME McpInv, Refreshed PROVE McpInv' /\ ReadyIsNotReplaced
<1> USE DEF config, dispatcher, tasks
<1>1. /\ handling.at = "list" /\ handling' = Idle
      /\ UNCHANGED <<config, client, owned, handshaking, tasks, queue, batch, abandoned,
                     stale>>
  BY DEF Refreshed
<1>2. Idle \in Watch /\ Idle.at = "none" BY Numbers DEF Idle, Watch
<1>3. left' \in Budget /\ left'.reloads = left.reloads
  BY Spends DEF Refreshed, McpInv, Fields
<1>4. /\ catalog' \in [version : Nat, shows : BOOLEAN]
      /\ CatalogIsCurrent' /\ ToggleHolds'
  <2>1. CASE UNCHANGED catalog
    BY <1>1, <2>1 DEF McpInv, Fields, CatalogIsCurrent, ToggleHolds
  <2>2. CASE enabled /\ catalog' = Catalog(hidden)
    <3>1. /\ catalog' = [version |-> version, shows |-> ~hidden]
          /\ catalog' \in [version : Nat, shows : BOOLEAN]
          /\ catalog'.version = version /\ catalog'.shows = ~hidden
      BY <2>2 DEF Catalog, McpInv, Fields
    <3> QED BY <1>1, <2>2, <3>1 DEF CatalogIsCurrent, ToggleHolds
  <2> QED BY <2>1, <2>2 DEF Refreshed
<1>5. Fields' BY <1>1, <1>2, <1>3, <1>4 DEF McpInv, Fields
<1> QED BY <1>1, <1>4, <1>5, TasksKeep

(* A call takes a client, and waits for its connection.                    *)
LEMMA CallKeeps ==
    ASSUME McpInv, CallStarts \/ CallConnected
    PROVE  McpInv' /\ ReadyIsNotReplaced
<1> USE DEF config, dispatcher, history
<1>1. Idle \in Watch /\ Idle.at = "none" BY Numbers DEF Idle, Watch
<1>2. CASE CallStarts
  <2>1. /\ enabled /\ Uses("uses") /\ (owned = NoOne => Free # {})
        /\ owned' = IF owned = NoOne THEN NewClient ELSE owned
        /\ client' = Ensured(IF owned = NoOne THEN Made(TRUE) ELSE client, owned')
        /\ call' = On(Idle, "shake", client', owned')
        /\ UNCHANGED <<config, catalog, handshaking, apply, inits, restart, dispatcher,
                       abandoned, stale>>
    BY <1>2 DEF CallStarts
  <2>2. left' \in Budget /\ left'.reloads = left.reloads BY <2>1, Spends DEF McpInv
  <2>3. client' \in [Clients -> ClientRecord] /\ owned' \in Clients BY <2>1, Acquires
  <2>4. call' \in Watch /\ call'.who = owned'
    <3> DEFINE cs == client'
               c == owned'
    <3>1. \A w \in Watch :
            On(w, "shake", cs, c) \in Watch /\ On(w, "shake", cs, c).who = c
      <4> HIDE DEF cs, c
      <4>1. cs \in [Clients -> ClientRecord] /\ c \in Clients BY <2>3 DEF cs, c
      <4> QED BY ZenonT(60), <4>1, Follows DEF McpInv
    <3> QED BY <1>1, <2>1, <3>1
  <2>5. Fields' BY <2>1, <2>2, <2>3, <2>4, Numbers DEF McpInv, Fields
  <2> QED BY <2>1, <2>5, AcquiringKeeps
<1>3. CASE CallConnected
  <2>1. /\ call.at \in {"shake", "shake again"}
        /\ UNCHANGED <<config, client, owned, catalog, handshaking, apply, inits, restart,
                       dispatcher, history>>
    BY <1>3 DEF CallConnected
  <2>2. call \in Watch /\ call.who \in Clients BY <2>1 DEF McpInv, Fields
  <2>3. call' \in Watch /\ (call'.at # "none" => call'.who \in Clients)
    <3>1. CASE call' = Idle BY <1>1, <3>1
    <3>2. CASE call' = [call EXCEPT !.at = IF @ = "shake" THEN "calling" ELSE "retrying"]
      <4>1. PICK at \in {"calling", "retrying"} : call' = [call EXCEPT !.at = at] BY <3>2
      <4> QED BY <2>2, <4>1 DEF Watch
    <3> QED BY <1>3, <3>1, <3>2 DEF CallConnected
  <2>4. Fields' BY ZenonT(60), <2>1, <2>3 DEF McpInv, Fields
  <2>5. CatalogIsCurrent' /\ ToggleHolds'
    BY <2>1 DEF McpInv, CatalogIsCurrent, ToggleHolds
  <2> QED BY <2>1, <2>4, <2>5, TasksKeep
<1> QED BY <1>2, <1>3

-----------------------------------------------------------------------------
(* The dispatcher *)

(* The recovery task goes on with the candidate it has, if it has one.     *)
RestartGoesOn ==
    /\ restart'.at = "sleep" /\ transport = "http" => restart'.who \in Clients
    /\ restart'.at \in {"shake", "list", "failing"} =>
         restart.at \in {"shake", "list", "failing"} /\ restart'.who = restart.who
    /\ restart'.at \in {"shake", "list"} =>
         restart.at \in {"shake", "list"} /\ restart'.hidden = restart.hidden
    /\ Candidate => restart'.at \in {"shake", "list", "failing"}
    /\ restart'.at = "closeold" <=> restart.at = "closeold"
    /\ restart.at = "closeold" => restart'.old = restart.old

(* A step that closes, makes and registers nobody can only break what it   *)
(* writes itself.                                                          *)
LEMMA OthersKeep ==
    ASSUME McpInv, Fields', EventsFit', CatalogIsCurrent', ToggleHolds', RestartGoesOn,
           handshaking' => handshaking,
           UNCHANGED <<transport, enabled, hidden, owned, apply, stale>>,
           \A c \in Clients :
             /\ client'[c].phase = "closed" <=> client[c].phase = "closed"
             /\ client'[c].public = client[c].public
    PROVE  McpInv' /\ ReadyIsNotReplaced
<1>1. Registered'
  <2>1. owned # NoOne => owned \in Clients BY Numbers DEF McpInv, Fields, Whose, Clients
  <2>2. Registered BY DEF McpInv
  <2>3. owned' # NoOne => /\ enabled' /\ client'[owned'].phase # "closed"
                          /\ client'[owned'].public /\ owned' \notin apply'.closing
    BY <2>1, <2>2 DEF Registered
  <2>4. Chosen' => restart'.who \in Clients BY <2>2 DEF RestartGoesOn, Registered, Chosen
  <2>5. Candidate' => restart'.who # owned' /\ restart'.who \notin apply'.closing
    BY <2>2 DEF RestartGoesOn, Registered, Candidate
  <2>6. restart'.at = "closeold" => restart'.old = NoOne \/ restart'.old # owned'
    BY <2>2 DEF RestartGoesOn, Registered
  <2> QED BY <2>2, <2>3, <2>4, <2>5, <2>6 DEF Registered
<1>2. Owned'
  <2> SUFFICES ASSUME NEW c \in Clients, client'[c].phase # "closed" PROVE Accounted(c)'
    BY DEF Owned
  <2>1. Accounted(c) BY DEF McpInv, Owned
  <2> QED BY <2>1 DEF Accounted, RestartGoesOn, Candidate
<1>3. Fresh'
  <2>1. Candidate' /\ restart'.at # "failing" =>
          /\ restart.at \in {"shake", "list"} /\ transport = "stdio"
          /\ restart'.hidden = restart.hidden
    BY DEF Candidate, RestartGoesOn
  <2> QED BY <2>1 DEF McpInv, Fresh, Candidate
<1> QED BY <1>1, <1>2, <1>3 DEF McpInv, ReadyIsNotReplaced

(* What follows a window's events, or the first of them, is of the same    *)
(* events.                                                                 *)
LEMMA CollectKeeps == ASSUME McpInv, Collect PROVE McpInv' /\ ReadyIsNotReplaced
<1>1. PICK n \in 1 .. Len(queue), size \in 0 .. Cardinality(Kinds) :
        /\ batch' \in [1 .. size -> ToSet(SubSeq(queue, 1, n))]
        /\ queue' = SubSeq(queue, n + 1, Len(queue))
  BY DEF Collect
<1>2. UNCHANGED <<config, client, owned, catalog, handshaking, tasks, handling, history>>
  BY DEF Collect
<1> USE DEF config, tasks, history
<1>3. queue \in Seq(Event) /\ Len(queue) \in Nat /\ n \in Nat /\ n <= Len(queue)
  BY <1>1 DEF McpInv, EventsFit
<1>4. /\ ToSet(SubSeq(queue, 1, n)) \subseteq ToSet(queue)
  <2>1. /\ DOMAIN SubSeq(queue, 1, n) = 1 .. n
        /\ \A k \in 1 .. n : SubSeq(queue, 1, n)[k] = queue[k]
    BY <1>3
  <2>2. 1 .. n \subseteq DOMAIN queue BY <1>3
  <2> QED BY <2>1, <2>2 DEF ToSet
<1>5. queue' \in Seq(Event) /\ ToSet(queue') \subseteq ToSet(queue)
  <2>1. queue' \in Seq(Event) BY <1>1, <1>3
  <2>2. /\ DOMAIN queue' = 1 .. (Len(queue) - n)
        /\ \A k \in 1 .. (Len(queue) - n) : queue'[k] = queue[k + n]
    BY <1>1, <1>3
  <2>3. \A k \in 1 .. (Len(queue) - n) : k + n \in DOMAIN queue BY <1>3
  <2> QED BY <2>1, <2>2, <2>3 DEF ToSet
<1>6. \A x \in ToSet(queue) : x \in Event BY <1>3 DEF ToSet
<1>7. batch' \in Seq(Event) /\ ToSet(batch') \subseteq ToSet(queue)
  <2>1. size \in Nat /\ batch' \in [1 .. size -> Event]
    <3>1. Cardinality(Kinds) \in Nat
      <4> DEFINE two == {"handshake_failed"} \cup {"transport_closed"}
      <4>1. Kinds = two \cup {"tools_list_changed"} BY DEF Kinds
      <4>2. IsFiniteSet(two) BY FS_Singleton, FS_AddElement
      <4> HIDE DEF two
      <4>3. IsFiniteSet(Kinds) BY <4>1, <4>2, FS_AddElement
      <4> QED BY <4>3, FS_CardinalityType
    <3> QED BY <1>1, <1>4, <1>6, <3>1
  <2>2. batch' \in Seq(Event) BY <2>1
  <2>3. DOMAIN batch' = 1 .. size /\ \A k \in 1 .. size : batch'[k] \in ToSet(queue)
    BY <1>1, <1>4
  <2> QED BY <2>2, <2>3 DEF ToSet
<1>8. Events' \subseteq Events BY <1>5, <1>7 DEF Events, ToSet
<1>9. EventsFit'
  <2>1. \A e \in Events : Tame(e.who) BY <1>2, EventsAre, Untouched
  <2>2. client' \in [Clients -> ClientRecord] BY <1>2 DEF McpInv, Fields
  <2> QED BY <1>5, <1>7, <1>8, <2>1, <2>2, EventsStay
<1>10. Fields' BY <1>2 DEF McpInv, Fields
<1>11. CatalogIsCurrent' /\ ToggleHolds' BY <1>2 DEF McpInv, CatalogIsCurrent, ToggleHolds
<1>12. RestartGoesOn BY <1>2 DEF RestartGoesOn, Candidate, McpInv, Registered, Chosen
<1> QED BY <1>2, <1>9, <1>10, <1>11, <1>12, OthersKeep

(* A recovery is scheduled where none is.                                  *)
LEMMA Schedules ==
    ASSUME McpInv, NEW closed \in BOOLEAN, Schedule(closed)
    PROVE  /\ restart' \in RestartTask
           /\ \/ restart' = restart
              \/ /\ restart.at = "none" /\ restart'.at = "sleep"
                 /\ restart'.tries \in Nat \ {0}
                 /\ transport = "http" => restart'.who \in Clients
<1>1. restart \in RestartTask /\ transport \in {"stdio", "http"} /\ version \in Nat
      /\ (owned # NoOne => owned \in Clients)
  BY Numbers DEF McpInv, Fields, Whose, Clients
<1>2. CASE ~enabled \/ restart.at # "none"
           \/ (transport = "http" /\ (~closed \/ owned = NoOne))
  BY <1>1, <1>2 DEF Schedule
<1>3. CASE ~(~enabled \/ restart.at # "none"
             \/ (transport = "http" /\ (~closed \/ owned = NoOne)))
  <2>1. PICK who \in {owned, NoOne} :
          /\ restart' = [NoRestart EXCEPT !.at = "sleep", !.version = version,
                                          !.tries = Attempts, !.who = who]
          /\ transport = "http" => who = owned /\ owned # NoOne
    BY <1>3 DEF Schedule
  <2>2. who \in Whose BY <1>1, Numbers
  <2>3. NoRestart \in RestartTask BY Numbers DEF NoRestart, RestartTask
  <2>4. Attempts \in Nat \ {0} BY McpAssumption
  <2>5. /\ restart' \in RestartTask /\ restart'.at = "sleep" /\ restart'.tries = Attempts
        /\ restart'.who = who
    BY <1>1, <2>1, <2>2, <2>3, <2>4 DEF RestartTask
  <2> QED BY <1>1, <1>3, <2>1, <2>4, <2>5
<1> QED BY <1>2, <1>3

(* The window loses its first event.                                       *)
LEMMA TailFits ==
    ASSUME McpInv, batch # <<>>, batch' = Tail(batch), UNCHANGED queue
    PROVE  /\ Head(batch) \in Events /\ Head(batch).who \in Clients
           /\ batch' \in Seq(Event) /\ queue' \in Seq(Event) /\ Events' \subseteq Events
<1>1. /\ batch \in Seq(Event) /\ queue \in Seq(Event)
      /\ batch' \in Seq(Event) /\ queue' \in Seq(Event)
  BY DEF McpInv, EventsFit
<1>2. 1 \in DOMAIN batch /\ Head(batch) = batch[1] BY <1>1
<1>3. Head(batch) \in Events BY <1>2 DEF Events, ToSet
<1>4. \A k \in DOMAIN batch' : k + 1 \in DOMAIN batch /\ batch'[k] = batch[k + 1]
  <2>1. /\ DOMAIN batch = 1 .. Len(batch) /\ DOMAIN batch' = 1 .. Len(batch) - 1
        /\ \A k \in 1 .. Len(batch) - 1 : batch'[k] = batch[k + 1]
    BY <1>1
  <2> QED BY <1>1, <2>1
<1>5. Events' \subseteq Events BY <1>4 DEF Events, ToSet
<1> QED BY <1>1, <1>3, <1>5, EventsAre

(* An event about the current connection shares it, gives it up or         *)
(* schedules a recovery; one about an older connection changes nothing.    *)
LEMMA HandleKeeps == ASSUME McpInv, Handle PROVE McpInv' /\ ReadyIsNotReplaced
<1> DEFINE e == Head(batch)
<1>1. /\ batch # <<>> /\ batch' = Tail(batch) /\ handling.at = "none"
      /\ UNCHANGED <<config, catalog, handshaking, apply, inits, call, queue, history>>
  BY DEF Handle
<1>2. /\ e \in Events /\ e.who \in Clients
      /\ batch' \in Seq(Event) /\ queue' \in Seq(Event) /\ Events' \subseteq Events
  BY <1>1, TailFits
<1>3. CatalogIsCurrent' /\ ToggleHolds'
  BY <1>1 DEF McpInv, CatalogIsCurrent, ToggleHolds, config, history
<1>4. Idle \in Watch BY Numbers DEF Idle, Watch
<1>5. IsCurrent(e) => owned = e.who /\ client[e.who].conn = e.conn BY DEF IsCurrent, Conn
<1>6. \/ ~IsCurrent(e) /\ UNCHANGED <<client, owned, handling, restart>>
      \/ /\ IsCurrent(e) /\ client' = Ensured(client, e.who)
         /\ handling' = On(Idle, "list", client', e.who) /\ UNCHANGED <<owned, restart>>
      \/ /\ IsCurrent(e) /\ e.kind = "transport_closed"
         /\ owned' = NoOne /\ client' = Closed(client, {e.who})
         /\ handling' = [Idle EXCEPT !.at = "evict"] /\ UNCHANGED restart
      \/ Schedule(e.kind = "transport_closed") /\ UNCHANGED <<client, owned, handling>>
  BY DEF Handle
<1> HIDE DEF e
<1> USE DEF config, history
<1>7. CASE UNCHANGED <<client, owned, handling>>
           /\ (UNCHANGED restart \/ \E closed \in BOOLEAN : Schedule(closed))
  <2>1. /\ restart' \in RestartTask
        /\ \/ restart' = restart
           \/ /\ restart.at = "none" /\ restart'.at = "sleep"
              /\ restart'.tries \in Nat \ {0}
              /\ transport = "http" => restart'.who \in Clients
    BY <1>7, Schedules DEF McpInv, Fields
  <2>2. Fields' BY <1>1, <1>7, <2>1 DEF McpInv, Fields
  <2>3. RestartGoesOn
    BY <1>1, <1>7, <2>1 DEF RestartGoesOn, Candidate, McpInv, Registered, Chosen
  <2>4. EventsFit'
    <3>1. \A x \in Events : Tame(x.who) BY <1>7, EventsAre, Untouched
    <3>2. client' \in [Clients -> ClientRecord] BY <1>7 DEF McpInv, Fields
    <3> QED BY <1>2, <3>1, <3>2, EventsStay
  <2> QED BY <1>1, <1>3, <1>7, <2>2, <2>3, <2>4, OthersKeep
<1>8. CASE /\ IsCurrent(e) /\ client' = Ensured(client, e.who)
           /\ handling' = On(Idle, "list", client', e.who) /\ UNCHANGED <<owned, restart>>
  <2> DEFINE c == e.who
             cs == client'
  <2>1. client \in [Clients -> ClientRecord] /\ c \in Clients BY <1>2 DEF McpInv, Fields
  <2>2. cs = Ensured(client, c) BY <1>8
  <2>3. handling' = On(Idle, "list", cs, c) BY <1>8
  <2>4. /\ cs \in [Clients -> ClientRecord]
        /\ \A d \in Clients : d # c => cs[d] = client[d]
        /\ cs[c].public = client[c].public
        /\ cs[c].phase = "closed" <=> client[c].phase = "closed"
        /\ cs[c] = client[c] \/ cs[c].conn = client[c].conn + 1
    <3> HIDE DEF c, cs
    <3> QED BY <2>1, <2>2, Ensures
  <2>5. handling' \in Watch /\ handling'.who = c
    <3> HIDE DEF c, cs
    <3> QED BY <1>4, <2>1, <2>3, <2>4, Follows DEF McpInv
  <2>6. Fields' BY <1>1, <1>8, <2>1, <2>4, <2>5 DEF McpInv, Fields
  <2>7. EventsFit'
    <3>1. client[c].conn \in Nat BY <2>1 DEF ClientRecord
    <3>2. client[c].conn + 1 > client[c].conn
      <4> DEFINE n == client[c].conn
      <4>1. n + 1 > n
        <5> HIDE DEF n
        <5> QED BY <3>1 DEF n
      <4> QED BY <4>1
    <3>3. \A x \in Events : Tame(x.who)
      <4> SUFFICES ASSUME NEW x \in Events PROVE Tame(x.who) OBVIOUS
      <4>1. x.who \in Clients BY EventsAre
      <4>2. client'[x.who] = client[x.who] => Tame(x.who) BY <4>1, Untouched
      <4>3. x.who = c /\ client'[c].conn > client[c].conn => Tame(x.who) BY DEF Tame
      <4> QED BY <2>4, <3>2, <4>1, <4>2, <4>3
    <3> QED BY <1>2, <2>4, <3>3, EventsStay
  <2>8. RestartGoesOn
    BY <1>1, <1>8 DEF RestartGoesOn, Candidate, McpInv, Registered, Chosen
  <2>9. \A d \in Clients : /\ client'[d].phase = "closed" <=> client[d].phase = "closed"
                           /\ client'[d].public = client[d].public
    BY <2>4
  <2> QED BY <1>1, <1>3, <1>8, <2>6, <2>7, <2>8, <2>9, OthersKeep
<1>9. CASE /\ IsCurrent(e) /\ e.kind = "transport_closed"
           /\ owned' = NoOne /\ client' = Closed(client, {e.who})
           /\ handling' = [Idle EXCEPT !.at = "evict"] /\ UNCHANGED restart
  <2>1. /\ client' \in [Clients -> ClientRecord]
        /\ \A d \in Clients : d # owned => client'[d] = client[d]
        /\ client'[owned].phase = "closed" /\ client'[owned].conn = client[owned].conn
    BY <1>2, <1>5, <1>9, Closes DEF McpInv
  <2>2. ~Ready(owned)
    <3>1. e.conn = client[e.who].conn /\ e.kind # "tools_list_changed" BY <1>5, <1>9
    <3>2. client[e.who].phase \notin {"init", "ready"}
      BY <1>2, <3>1 DEF McpInv, EventsFit, Conn, Alive
    <3> QED BY <1>2, <1>5, <1>9, <3>2, Numbers DEF Ready, Phase
  <2>3. handling' \in Watch /\ handling'.at = "evict" BY <1>4, <1>9 DEF Watch
  <2>4. Fields' BY ZenonT(60), <1>1, <1>9, <2>1, <2>3, Numbers DEF McpInv, Fields
  <2>5. Registered'
    <3>1. Registered /\ (Chosen' <=> Chosen) /\ (Candidate' <=> Candidate)
      BY <1>1, <1>9 DEF McpInv, Chosen, Candidate
    <3>2. Candidate' => restart'.who # owned' /\ restart'.who \notin apply'.closing
      BY <1>1, <1>9, <3>1, Numbers DEF Registered, Candidate, Chosen
    <3> QED BY <1>1, <1>9, <3>1, <3>2 DEF Registered
  <2>6. Owned' BY <1>1, <1>9, <2>1 DEF McpInv, Owned, Accounted
  <2>7. EventsFit'
    <3>1. \A x \in Events : Tame(x.who) BY <2>1, EventsAre DEF Tame
    <3> QED BY <1>2, <2>1, <3>1, EventsStay
  <2>8. Fresh' BY <1>1, <1>9 DEF McpInv, Fresh, Candidate
  <2> QED BY <1>3, <2>2, <2>4, <2>5, <2>6, <2>7, <2>8 DEF McpInv, ReadyIsNotReplaced
<1> QED BY <1>6, <1>7, <1>8, <1>9

(* The dead client's tools go.                                             *)
LEMMA EvictedKeeps == ASSUME McpInv, Evicted PROVE McpInv' /\ ReadyIsNotReplaced
<1> USE DEF config, history
<1>1. /\ handling' = Idle /\ catalog' = NoTools /\ Schedule(TRUE)
      /\ UNCHANGED <<config, client, owned, handshaking, apply, inits, call, queue, batch,
                     history>>
  BY DEF Evicted
<1>2. Idle \in Watch /\ Idle.at = "none" BY Numbers DEF Idle, Watch
<1>3. NoTools \in [version : Nat, shows : BOOLEAN] BY DEF NoTools
<1>4. /\ restart' \in RestartTask
      /\ \/ restart' = restart
         \/ /\ restart.at = "none" /\ restart'.at = "sleep"
            /\ restart'.tries \in Nat \ {0}
            /\ transport = "http" => restart'.who \in Clients
  BY <1>1, Schedules
<1>5. Fields' BY <1>1, <1>2, <1>3, <1>4 DEF McpInv, Fields
<1>6. RestartGoesOn BY <1>1, <1>4 DEF RestartGoesOn, Candidate, McpInv, Registered, Chosen
<1>7. CatalogIsCurrent' /\ ToggleHolds' BY <1>1 DEF CatalogIsCurrent, ToggleHolds
<1>8. EventsFit' BY <1>1, EventsKeep
<1> QED BY <1>1, <1>5, <1>6, <1>7, <1>8, OthersKeep

-----------------------------------------------------------------------------
(* The recovery task, and a call's retry *)

(* A connection that is reset and opened again, unless it was closed.      *)
LEMMA Reopens ==
    ASSUME McpInv, NEW c \in Clients
    PROVE  /\ Ensured(Reset(client, c), c) \in [Clients -> ClientRecord]
           /\ \A d \in Clients : d # c => Ensured(Reset(client, c), c)[d] = client[d]
           /\ Ensured(Reset(client, c), c)[c].public = client[c].public
           /\ Ensured(Reset(client, c), c)[c].phase = "closed" <=>
                client[c].phase = "closed"
           /\ \/ Ensured(Reset(client, c), c)[c].conn = client[c].conn + 1
              \/ /\ Ensured(Reset(client, c), c)[c].conn = client[c].conn
                 /\ Ensured(Reset(client, c), c)[c].phase \notin {"init", "ready"}
<1> DEFINE cs == Reset(client, c)
<1>1. /\ cs \in [Clients -> ClientRecord]
      /\ \A d \in Clients : d # c => cs[d] = client[d]
      /\ cs[c].public = client[c].public /\ cs[c].conn = client[c].conn
      /\ cs[c].phase = "closed" <=> client[c].phase = "closed"
      /\ cs[c].phase \in {"closed", "empty"}
  BY Resets DEF McpInv
<1> HIDE DEF cs
<1>2. /\ Ensured(cs, c) \in [Clients -> ClientRecord]
      /\ \A d \in Clients : d # c => Ensured(cs, c)[d] = cs[d]
      /\ Ensured(cs, c)[c].public = cs[c].public
      /\ Ensured(cs, c)[c].phase = "closed" <=> cs[c].phase = "closed"
      /\ Ensured(cs, c)[c] = cs[c] \/ Ensured(cs, c)[c].conn = cs[c].conn + 1
  BY <1>1, Ensures
<1>3. Ensured(cs, c)[c] = cs[c] => Ensured(cs, c)[c].phase \notin {"init", "ready"}
  BY <1>1
<1> QED BY <1>1, <1>2, <1>3 DEF cs

(* A client with a newer connection, or the same one that is down, is no   *)
(* danger to what the events say.                                          *)
LEMMA TouchedFits ==
    ASSUME McpInv, NEW c \in Clients, UNCHANGED <<queue, batch>>,
           client' \in [Clients -> ClientRecord],
           \A d \in Clients : d # c => client'[d] = client[d],
           \/ client'[c].conn = client[c].conn + 1
           \/ client'[c].conn = client[c].conn
                /\ client'[c].phase \notin {"init", "ready"}
           \/ client'[c] = client[c]
    PROVE  EventsFit'
<1>1. client[c].conn \in Nat BY DEF McpInv, Fields, ClientRecord
<1>2. client[c].conn + 1 > client[c].conn
  <2> DEFINE n == client[c].conn
  <2>1. n + 1 > n
    <3> HIDE DEF n
    <3> QED BY <1>1 DEF n
  <2> QED BY <2>1
<1>3. \A x \in Events : Tame(x.who)
  <2> SUFFICES ASSUME NEW x \in Events PROVE Tame(x.who) OBVIOUS
  <2>1. x.who \in Clients BY EventsAre
  <2>2. client'[x.who] = client[x.who] => Tame(x.who) BY <2>1, Untouched
  <2>3. x.who = c /\ client'[c].conn > client[c].conn => Tame(x.who) BY DEF Tame
  <2>4. x.who = c /\ client'[c].conn = client[c].conn
          /\ client'[c].phase \notin {"init", "ready"}
          => Tame(x.who)
    BY DEF Tame
  <2> QED BY <1>2, <2>1, <2>2, <2>3, <2>4
<1> QED BY <1>3, SameEvents

(* The recovery's record changes where it is.                              *)
LEMMA RestartMoves ==
    ASSUME McpInv
    PROVE  /\ [restart EXCEPT !.at = "list"] \in RestartTask
           /\ [restart EXCEPT !.at = "list"].at = "list"
           /\ [restart EXCEPT !.at = "list"].who = restart.who
           /\ [restart EXCEPT !.at = "list"].tries = restart.tries
           /\ [restart EXCEPT !.at = "list"].hidden = restart.hidden
           /\ [restart EXCEPT !.at = "failing"] \in RestartTask
           /\ [restart EXCEPT !.at = "failing"].at = "failing"
           /\ [restart EXCEPT !.at = "failing"].who = restart.who
           /\ [restart EXCEPT !.at = "failing"].tries = restart.tries
           /\ [NoRestart EXCEPT !.at = "done"] \in RestartTask
           /\ [NoRestart EXCEPT !.at = "done"].at = "done"
           /\ NoRestart \in RestartTask /\ NoRestart.at = "none"
<1>1. restart \in RestartTask BY DEF McpInv, Fields
<1>2. NoRestart \in RestartTask /\ NoRestart.at = "none"
  BY Numbers DEF NoRestart, RestartTask
<1> QED BY <1>1, <1>2 DEF RestartTask

(* The steps of a recovery that leave the clients.                         *)
LEMMA QuietRestartKeeps ==
    ASSUME McpInv,
           \/ restart' = [restart EXCEPT !.at = "list"] /\ restart.at = "shake"
           \/ restart' = [restart EXCEPT !.at = "failing"]
                /\ restart.at \in {"shake", "list"}
           \/ restart' = [NoRestart EXCEPT !.at = "done"] /\ ~Candidate
                /\ restart.at # "closeold"
           \/ restart' = NoRestart /\ restart.at = "done",
           UNCHANGED <<config, client, owned, handshaking, apply, inits, call, dispatcher,
                       abandoned, stale>>,
           catalog' \in [version : Nat, shows : BOOLEAN], CatalogIsCurrent', ToggleHolds',
           left' \in Budget, left'.reloads = left.reloads
    PROVE  McpInv' /\ ReadyIsNotReplaced
<1> USE DEF config, dispatcher
<1>1. /\ restart' \in RestartTask
      /\ restart'.at \in {"sleep", "shake", "list", "failing"} => restart'.tries # 0
  BY RestartMoves DEF McpInv, Fields
<1>2. Fields' BY <1>1 DEF McpInv, Fields
<1>3. RestartGoesOn BY RestartMoves DEF RestartGoesOn, Candidate
<1>4. EventsFit' BY EventsKeep
<1> QED BY <1>2, <1>3, <1>4, OthersKeep

(* The recovery wakes up, connects and lists, or fails on the way.         *)
LEMMA RestartKeeps ==
    ASSUME McpInv, RestartDone \/ RestartConnected \/ HttpLists
    PROVE  McpInv' /\ ReadyIsNotReplaced
<1> USE DEF config, dispatcher, history
<1>1. catalog \in [version : Nat, shows : BOOLEAN] /\ left \in Budget /\ CatalogIsCurrent
        /\ ToggleHolds
      /\ transport \in {"stdio", "http"}
  BY DEF McpInv, Fields
<1>2. CASE RestartDone
  <2>1. /\ restart' = NoRestart /\ restart.at = "done"
        /\ UNCHANGED <<config, client, owned, catalog, handshaking, apply, inits, call,
                       dispatcher, history>>
    BY <1>2 DEF RestartDone
  <2>2. CatalogIsCurrent' /\ ToggleHolds' BY <1>1, <2>1 DEF CatalogIsCurrent, ToggleHolds
  <2> QED BY <1>1, <2>1, <2>2, QuietRestartKeeps
<1>3. CASE RestartConnected
  <2>1. /\ UNCHANGED <<config, client, owned, catalog, handshaking, apply, inits, call,
                       dispatcher, history>>
        /\ restart.at = "shake"
        /\ \/ restart' = [restart EXCEPT !.at = "list"]
           \/ restart' = [restart EXCEPT !.at = "failing"]
           \/ transport = "http" /\ restart' = [NoRestart EXCEPT !.at = "done"]
    BY <1>3 DEF RestartConnected, Failed, RestartEnds
  <2>2. CatalogIsCurrent' /\ ToggleHolds' BY <1>1, <2>1 DEF CatalogIsCurrent, ToggleHolds
  <2> QED BY <1>1, <2>1, <2>2, QuietRestartKeeps DEF Candidate
<1>4. CASE HttpLists
  <2>1. /\ restart.at = "list" /\ transport = "http"
        /\ UNCHANGED <<config, client, owned, handshaking, apply, inits, call, dispatcher,
                       abandoned, stale>>
        /\ \/ /\ StillConfigured /\ catalog' = Catalog(hidden)
              /\ restart' = [NoRestart EXCEPT !.at = "done"]
           \/ UNCHANGED catalog /\ restart' = [restart EXCEPT !.at = "failing"]
    BY <1>4 DEF HttpLists, Failed, RestartEnds
  <2>2. left' \in Budget /\ left'.reloads = left.reloads
    BY <1>1, <1>4, Spends DEF HttpLists, McpInv
  <2>3. /\ catalog' \in [version : Nat, shows : BOOLEAN]
        /\ CatalogIsCurrent' /\ ToggleHolds'
    <3>1. CASE UNCHANGED catalog BY <1>1, <2>1, <3>1 DEF CatalogIsCurrent, ToggleHolds
    <3>2. CASE StillConfigured /\ catalog' = Catalog(hidden)
      <4>1. /\ catalog' = [version |-> version, shows |-> ~hidden]
            /\ catalog' \in [version : Nat, shows : BOOLEAN]
            /\ catalog'.version = version /\ catalog'.shows = ~hidden
        BY <3>2 DEF Catalog, McpInv, Fields
      <4> QED BY <2>1, <3>2, <4>1 DEF CatalogIsCurrent, ToggleHolds, StillConfigured
    <3> QED BY <2>1, <3>1, <3>2
  <2> QED BY <2>1, <2>2, <2>3, QuietRestartKeeps DEF Candidate
<1> QED BY <1>2, <1>3, <1>4

(* A stdio recovery makes a private candidate, of an object that is        *)
(* nobody's; a http recovery opens the registered client again.            *)
LEMMA WakesKeeps == ASSUME McpInv, RestartWakes PROVE McpInv' /\ ReadyIsNotReplaced
<1> USE DEF config, dispatcher, history
<1>1. /\ restart.at = "sleep"
      /\ UNCHANGED <<config, owned, catalog, handshaking, apply, inits, call, dispatcher,
                     history>>
  BY DEF RestartWakes
<1>2. /\ catalog \in [version : Nat, shows : BOOLEAN] /\ left \in Budget
      /\ transport \in {"stdio", "http"} /\ restart \in RestartTask /\ restart.tries # 0
      /\ client \in [Clients -> ClientRecord]
  BY <1>1 DEF McpInv, Fields
<1>3. CatalogIsCurrent' /\ ToggleHolds' BY <1>1 DEF McpInv, CatalogIsCurrent, ToggleHolds
<1>4. CASE restart' = [NoRestart EXCEPT !.at = "done"] /\ UNCHANGED client
  BY <1>1, <1>2, <1>3, <1>4, QuietRestartKeeps DEF Candidate
<1>5. CASE /\ transport = "stdio" /\ Free # {}
           /\ client' = Ensured(Made(FALSE), NewClient)
           /\ restart' =
                [On(restart, "shake", client', NewClient) EXCEPT !.hidden = hidden]
  <2> DEFINE made == Made(FALSE)
             new == NewClient
             cs == client'
             told == On(restart, "shake", cs, new)
  <2>1. new \in Clients /\ new # NoOne /\ new \notin Held BY <1>5, NewIsFree, Numbers
  <2>2. /\ made \in [Clients -> ClientRecord]
        /\ \A d \in Clients : d # new => made[d] = client[d]
        /\ made[new].phase = "empty"
    BY <1>5, Makes DEF McpInv
  <2>3. cs = Ensured(made, new) BY <1>5
  <2>4. /\ cs \in [Clients -> ClientRecord]
        /\ \A d \in Clients : d # new => cs[d] = client[d]
        /\ cs[new].phase # "closed"
    <3>1. /\ Ensured(made, new) \in [Clients -> ClientRecord]
          /\ \A d \in Clients : d # new => Ensured(made, new)[d] = made[d]
          /\ Ensured(made, new)[new].phase = "closed" <=> made[new].phase = "closed"
      <4> HIDE DEF made, new
      <4> QED BY <2>1, <2>2, Ensures
    <3> HIDE DEF made, new, cs
    <3> QED BY <2>1, <2>2, <2>3, <3>1
  <2>5. /\ restart' \in RestartTask /\ restart'.at = "shake" /\ restart'.who = new
        /\ restart'.tries = restart.tries /\ restart'.hidden = hidden
    <3>1. told \in RestartTask /\ told.who = new /\ told.at = "shake"
      <4>1. Fields BY DEF McpInv
      <4> HIDE DEF cs, new
      <4>2. \A w \in RestartTask :
              /\ On(w, "shake", cs, new) \in RestartTask
              /\ On(w, "shake", cs, new).who = new /\ On(w, "shake", cs, new).at = "shake"
        BY ZenonT(60), <2>1, <2>4, <4>1, Follows
      <4> QED BY <1>2, <4>2
    <3>2. told.tries = restart.tries
      <4> DEFINE n == cs[new].conn
      <4>1. told = [restart EXCEPT !.at = "shake", !.who = new, !.conn = n] BY DEF On
      <4> HIDE DEF n, new, told
      <4> QED BY <1>2, <4>1 DEF RestartTask
    <3>3. restart' = [told EXCEPT !.hidden = hidden] BY <1>5
    <3>4. hidden \in BOOLEAN BY DEF McpInv, Fields
    <3> HIDE DEF told, new
    <3> QED BY <3>1, <3>2, <3>3, <3>4 DEF RestartTask
  <2>6. new # owned /\ new \notin apply.closing /\ \A x \in Events : x.who # new
    BY <2>1 DEF Held, Events
  <2>7. Fields'
    <3> HIDE DEF new, made, told
    <3> QED BY <1>1, <1>2, <2>4, <2>5 DEF McpInv, Fields
  <2> HIDE DEF new, made, told
  <2>8. Registered'
    <3>1. owned # NoOne => owned \in Clients BY Numbers DEF McpInv, Fields, Whose, Clients
    <3>2. Registered BY DEF McpInv
    <3>3. owned' # NoOne => /\ enabled' /\ client'[owned'].phase # "closed"
                            /\ client'[owned'].public /\ owned' \notin apply'.closing
      BY <1>1, <2>4, <2>6, <3>1, <3>2 DEF Registered
    <3> QED BY <1>1, <2>1, <2>5, <2>6, <3>2, <3>3 DEF Registered, Chosen, Candidate
  <2>9. Owned'
    <3> SUFFICES ASSUME NEW d \in Clients, client'[d].phase # "closed" PROVE Accounted(d)'
      BY DEF Owned
    <3>1. CASE d = new BY <1>1, <1>5, <2>5, <3>1 DEF Accounted
    <3>2. CASE d # new
      <4>1. Accounted(d) BY <2>4, <3>2 DEF McpInv, Owned
      <4> QED BY <1>1, <4>1 DEF Accounted
    <3> QED BY <3>1, <3>2
  <2>10. EventsFit'
    <3>1. \A x \in Events : Tame(x.who)
      <4> SUFFICES ASSUME NEW x \in Events PROVE Tame(x.who) OBVIOUS
      <4>1. x.who \in Clients /\ x.who # new BY <2>6, EventsAre
      <4> QED BY <2>4, <4>1, Untouched
    <3> QED BY <1>1, <2>4, <3>1, SameEvents
  <2>11. Fresh' BY <1>1, <2>5 DEF Fresh
  <2>12. ReadyIsNotReplaced BY <1>1 DEF ReadyIsNotReplaced
  <2> QED BY <1>3, <2>7, <2>8, <2>9, <2>10, <2>11, <2>12 DEF McpInv
<1>6. CASE /\ transport = "http" /\ owned = restart.who
           /\ client' = Ensured(IF Phase(owned) = "init" THEN client
                                ELSE Reset(client, owned), owned)
           /\ restart' = On(restart, "shake", client', owned)
  <2> DEFINE c == owned
             cs == client'
  <2>1. c \in Clients BY <1>1, <1>6 DEF McpInv, Registered, Chosen
  <2>2. /\ cs \in [Clients -> ClientRecord]
        /\ \A d \in Clients : d # c => cs[d] = client[d]
        /\ cs[c].public = client[c].public
        /\ cs[c].phase = "closed" <=> client[c].phase = "closed"
        /\ \/ cs[c].conn = client[c].conn + 1
           \/ cs[c].conn = client[c].conn /\ cs[c].phase \notin {"init", "ready"}
           \/ cs[c] = client[c]
    <3>1. CASE Phase(owned) = "init"
      <4>1. cs = Ensured(client, c) BY <1>6, <3>1
      <4> HIDE DEF c, cs
      <4> QED BY <1>2, <2>1, <4>1, Ensures
    <3>2. CASE Phase(owned) # "init"
      <4>1. cs = Ensured(Reset(client, c), c) BY <1>6, <3>2
      <4> HIDE DEF c, cs
      <4> QED BY <2>1, <4>1, Reopens
    <3> QED BY <3>1, <3>2
  <2>3. /\ restart' \in RestartTask /\ restart'.who = owned /\ restart'.at = "shake"
        /\ restart'.tries = restart.tries
    <3>1. restart' = On(restart, "shake", cs, c) BY <1>6
    <3>2. restart'.tries = restart.tries
      <4> DEFINE n == cs[c].conn
      <4>1. restart' = [restart EXCEPT !.at = "shake", !.who = c, !.conn = n]
        BY <3>1 DEF On
      <4> HIDE DEF n, c
      <4> QED BY <1>2, <4>1 DEF RestartTask
    <3>3. restart' \in RestartTask /\ restart'.who = c /\ restart'.at = "shake"
      <4>1. Fields BY DEF McpInv
      <4> HIDE DEF c, cs
      <4>2. \A w \in RestartTask :
              /\ On(w, "shake", cs, c) \in RestartTask
              /\ On(w, "shake", cs, c).who = c /\ On(w, "shake", cs, c).at = "shake"
        BY <2>1, <2>2, <4>1, Follows
      <4> QED BY <1>2, <3>1, <4>2
    <3> QED BY <3>2, <3>3
  <2>4. Fields' BY <1>1, <1>2, <2>2, <2>3 DEF McpInv, Fields
  <2>5. EventsFit' BY <1>1, <2>1, <2>2, TouchedFits
  <2>6. Registered'
    <3>1. Registered /\ ~Candidate' BY <1>1, <1>6 DEF McpInv, Candidate
    <3>2. owned' # NoOne => /\ enabled' /\ client'[owned'].phase # "closed"
                            /\ client'[owned'].public /\ owned' \notin apply'.closing
      BY <1>1, <2>1, <2>2, <3>1 DEF Registered
    <3> QED BY <1>1, <2>1, <2>3, <3>1, <3>2 DEF Registered, Chosen
  <2>7. Owned'
    <3> SUFFICES ASSUME NEW d \in Clients, client'[d].phase # "closed" PROVE Accounted(d)'
      BY DEF Owned
    <3>1. client[d].phase # "closed" BY <2>2
    <3>2. Accounted(d) BY <3>1 DEF McpInv, Owned
    <3> QED BY <1>1, <3>2 DEF Accounted
  <2>8. Fresh' BY <1>1, <1>6 DEF Fresh, Candidate
  <2>9. ReadyIsNotReplaced BY <1>1 DEF ReadyIsNotReplaced
  <2> QED BY <1>3, <2>4, <2>5, <2>6, <2>7, <2>8, <2>9 DEF McpInv
<1> QED BY <1>4, <1>5, <1>6 DEF RestartWakes, RestartEnds

(* A candidate that listed its tools replaces the registered client, which *)
(* is closed next; or it is what is closed, or tried once more.            *)
LEMMA RespawnKeeps == ASSUME McpInv, RespawnLists PROVE McpInv' /\ ReadyIsNotReplaced
<1> USE DEF config, dispatcher
<1>1. /\ restart.at = "list" /\ transport = "stdio"
      /\ UNCHANGED <<config, handshaking, apply, inits, call, dispatcher, abandoned,
                     stale>>
      /\ left' \in Budget /\ left'.reloads = left.reloads
  BY Spends DEF RespawnLists, McpInv, Fields
<1>2. /\ catalog \in [version : Nat, shows : BOOLEAN] /\ restart \in RestartTask
      /\ client \in [Clients -> ClientRecord] /\ version \in Nat /\ owned \in Whose
      /\ Candidate /\ restart.who \in Clients /\ restart.who # NoOne
      /\ restart.who # owned
      /\ restart.who \notin apply.closing
  BY <1>1, Numbers DEF McpInv, Fields, Candidate, Registered, Chosen
<1>3. CASE UNCHANGED <<owned, catalog, client>>
        /\ restart' = [restart EXCEPT !.at = "failing"]
  <2>1. CatalogIsCurrent' /\ ToggleHolds'
    BY <1>1, <1>3 DEF McpInv, CatalogIsCurrent, ToggleHolds
  <2> QED BY <1>1, <1>2, <1>3, <2>1, QuietRestartKeeps
<1>4. CASE /\ UNCHANGED <<owned, catalog, client>>
           /\ restart' = [restart EXCEPT !.at = "closeold", !.old = restart.who]
  <2>1. /\ restart' \in RestartTask /\ restart'.at = "closeold"
        /\ restart'.old = restart.who
    BY <1>2, <1>4, Numbers DEF RestartTask
  <2>2. Fields' BY <1>1, <1>4, <2>1 DEF McpInv, Fields
  <2>3. Registered' BY <1>1, <1>2, <1>4, <2>1 DEF McpInv, Registered, Chosen, Candidate
  <2>4. Owned' BY <1>1, <1>4, <2>1 DEF McpInv, Owned, Accounted
  <2>5. EventsFit' BY <1>1, <1>4, EventsKeep
  <2>6. CatalogIsCurrent' /\ ToggleHolds'
    BY <1>1, <1>4 DEF McpInv, CatalogIsCurrent, ToggleHolds
  <2>7. Fresh' BY <2>1 DEF Fresh, Candidate
  <2> QED BY <1>4, <2>2, <2>3, <2>4, <2>5, <2>6, <2>7 DEF McpInv, ReadyIsNotReplaced
<1>5. CASE Ready(restart.who) /\ StillConfigured /\ ~Ready(owned) /\ Publish
  <2> DEFINE r == [client[restart.who] EXCEPT !.public = TRUE]
  <2>1. /\ owned' = restart.who
        /\ catalog' = [version |-> version, shows |-> ~restart.hidden]
        /\ client' = [client EXCEPT ![restart.who] = r]
        /\ restart' = [restart EXCEPT !.at = "closeold", !.old = owned]
        /\ enabled /\ client[restart.who].phase = "ready"
    BY <1>2, <1>5 DEF Publish, Catalog, StillConfigured, Ready, Phase
  <2>2. /\ restart' \in RestartTask /\ restart'.at = "closeold" /\ restart'.old = owned
    BY <1>2, <2>1 DEF RestartTask
  <2>3. /\ r \in ClientRecord /\ r.phase = client[restart.who].phase
        /\ r.conn = client[restart.who].conn /\ r.public = TRUE
    BY <1>2 DEF ClientRecord
  <2>4. /\ client' \in [Clients -> ClientRecord]
        /\ \A d \in Clients : d # restart.who => client'[d] = client[d]
        /\ client'[restart.who].phase = "ready" /\ client'[restart.who].public
        /\ client'[restart.who].conn = client[restart.who].conn
    <3> HIDE DEF r
    <3> QED BY <1>2, <2>1, <2>3
  <2>5. /\ catalog' \in [version : Nat, shows : BOOLEAN]
        /\ catalog'.version = version /\ catalog'.shows = ~restart.hidden
    <3>1. restart.hidden \in BOOLEAN BY <1>2 DEF RestartTask
    <3> QED BY <1>2, <2>1, <3>1
  <2> HIDE DEF r
  <2>6. Fields' BY <1>1, <1>2, <2>1, <2>2, <2>4, <2>5, Numbers DEF McpInv, Fields
  <2>7. Registered'
    BY <1>1, <1>2, <2>1, <2>2, <2>4 DEF McpInv, Registered, Chosen, Candidate
  <2>8. Owned'
    <3> SUFFICES ASSUME NEW d \in Clients, client'[d].phase # "closed" PROVE Accounted(d)'
      BY DEF Owned
    <3>1. CASE d = restart.who BY <2>1, <3>1 DEF Accounted
    <3>2. CASE d # restart.who
      <4>1. Accounted(d) BY <2>4, <3>2 DEF McpInv, Owned
      <4> QED BY <1>1, <2>2, <3>2, <4>1 DEF Accounted
    <3> QED BY <3>1, <3>2
  <2>9. EventsFit'
    <3>1. \A x \in Events : Tame(x.who) BY <2>1, <2>4, EventsAre DEF Tame
    <3> QED BY <1>1, <2>4, <3>1, SameEvents
  <2>10. CatalogIsCurrent' BY <1>1, <2>1, <2>5 DEF CatalogIsCurrent
  <2>11. ToggleHolds'
    <3>1. restart.hidden = hidden \/ stale BY <1>1, <1>2 DEF McpInv, Fresh
    <3> QED BY <1>1, <2>5, <3>1 DEF ToggleHolds
  <2>12. Fresh' BY <2>2 DEF Fresh, Candidate
  <2>13. ReadyIsNotReplaced BY <1>5 DEF ReadyIsNotReplaced
  <2> QED BY <2>6, <2>7, <2>8, <2>9, <2>10, <2>11, <2>12, <2>13 DEF McpInv
<1> QED BY <1>3, <1>4, <1>5 DEF RespawnLists, Failed, MayPublish

(* The client that was replaced is closed.                                 *)
LEMMA ClosesOldKeeps ==
    ASSUME McpInv, RespawnClosesOld
    PROVE  McpInv' /\ ReadyIsNotReplaced
<1> USE DEF config, dispatcher, history
<1>1. /\ restart.at = "closeold" /\ restart' = [NoRestart EXCEPT !.at = "done"]
      /\ client' = Closed(client, {restart.old} \ {NoOne})
      /\ UNCHANGED <<config, owned, catalog, handshaking, apply, inits, call, dispatcher,
                     history>>
  BY DEF RespawnClosesOld, RestartEnds
<1>2. restart \in RestartTask /\ (restart.old # NoOne => restart.old \in Clients)
      /\ (restart.old # NoOne => restart.old # owned)
  <2>1. restart \in RestartTask BY DEF McpInv, Fields
  <2>2. restart.old \in Whose BY <2>1 DEF RestartTask
  <2> QED BY <1>1, <2>1, <2>2, Numbers DEF McpInv, Registered, Whose, Clients
<1> DEFINE dead == {restart.old} \ {NoOne}
<1>3. /\ client' \in [Clients -> ClientRecord]
      /\ \A d \in Clients : d \notin dead => client'[d] = client[d]
      /\ \A d \in dead : client'[d].phase = "closed" /\ client'[d].conn = client[d].conn
  <2>1. dead \in SUBSET Clients BY <1>2
  <2>2. client' = Closed(client, dead) BY <1>1
  <2> HIDE DEF dead
  <2> QED BY <2>1, <2>2, Closes DEF McpInv
<1>4. restart' \in RestartTask /\ restart'.at = "done" BY <1>1, RestartMoves
<1>5. Fields' BY ZenonT(60), <1>1, <1>3, <1>4 DEF McpInv, Fields
<1>6. Registered'
  <2>1. owned # NoOne => owned \in Clients BY Numbers DEF McpInv, Fields, Whose, Clients
  <2> QED BY <1>1, <1>2, <1>3, <1>4, <2>1 DEF McpInv, Registered, Chosen, Candidate
<1>7. Owned'
  <2> SUFFICES ASSUME NEW d \in Clients, client'[d].phase # "closed" PROVE Accounted(d)'
    BY DEF Owned
  <2>1. d \notin dead /\ client'[d] = client[d] BY <1>3
  <2>2. d # restart.old BY <2>1, Numbers
  <2>3. Accounted(d) BY <2>1 DEF McpInv, Owned
  <2> QED BY <1>1, <2>2, <2>3 DEF Accounted
<1>8. EventsFit'
  <2>1. \A x \in Events : Tame(x.who) BY <1>3, EventsAre DEF Tame
  <2> QED BY <1>1, <1>3, <2>1, SameEvents
<1>9. CatalogIsCurrent' /\ ToggleHolds' BY <1>1 DEF McpInv, CatalogIsCurrent, ToggleHolds
<1>10. Fresh' BY <1>4 DEF Fresh, Candidate
<1> QED BY <1>1, <1>5, <1>6, <1>7, <1>8, <1>9, <1>10 DEF McpInv, ReadyIsNotReplaced

(* A failed attempt closes its candidate.                                  *)
LEMMA FailedKeeps == ASSUME McpInv, RestartFailed PROVE McpInv' /\ ReadyIsNotReplaced
<1> USE DEF config, dispatcher, history
<1>1. /\ restart.at = "failing"
      /\ client' = IF transport = "stdio" THEN Closed(client, {restart.who}) ELSE client
      /\ restart' = IF Exhausted THEN [NoRestart EXCEPT !.at = "done"]
                    ELSE [restart EXCEPT !.at = "sleep", !.tries = @ - 1]
      /\ catalog' = IF Exhausted /\ transport = "stdio" THEN NoTools ELSE catalog
      /\ UNCHANGED <<config, owned, handshaking, apply, inits, call, dispatcher, history>>
  BY DEF RestartFailed, RestartEnds
<1>2. /\ restart \in RestartTask /\ restart.tries # 0 /\ restart.who \in Clients
      /\ transport = "stdio" => restart.who # owned
      /\ transport \in {"stdio", "http"} /\ client \in [Clients -> ClientRecord]
  BY <1>1 DEF McpInv, Fields, Registered, Chosen, Candidate
<1>3. /\ client' \in [Clients -> ClientRecord]
      /\ \A d \in Clients : d # restart.who => client'[d] = client[d]
      /\ transport = "stdio" => client'[restart.who].phase = "closed"
      /\ transport # "stdio" => client' = client
      /\ client'[restart.who].conn = client[restart.who].conn
  <2>1. {restart.who} \in SUBSET Clients BY <1>2
  <2> QED BY <1>1, <1>2, <2>1, Closes DEF McpInv
<1>4. /\ restart' \in RestartTask
      /\ \/ restart'.at = "done"
         \/ restart'.at = "sleep" /\ restart'.tries # 0 /\ restart'.who = restart.who
  <2>1. CASE Exhausted BY <1>1, <2>1, RestartMoves
  <2>2. CASE ~Exhausted
    <3> DEFINE n == restart.tries - 1
    <3>1. restart.tries \in Nat /\ restart.tries # 0 /\ restart.tries # 1
      BY <1>1, <1>2, <2>2 DEF RestartTask, Exhausted
    <3>2. n \in Nat /\ n # 0 BY <3>1
    <3>3. restart' = [restart EXCEPT !.at = "sleep", !.tries = n] BY <1>1, <2>2
    <3> HIDE DEF n
    <3> QED BY <1>2, <3>2, <3>3 DEF RestartTask
  <2> QED BY <2>1, <2>2
<1>5. /\ catalog' \in [version : Nat, shows : BOOLEAN]
      /\ CatalogIsCurrent' /\ ToggleHolds'
  <2>1. CASE catalog' = NoTools BY <2>1 DEF NoTools, CatalogIsCurrent, ToggleHolds
  <2>2. CASE UNCHANGED catalog
    BY <1>1, <2>2 DEF McpInv, Fields, CatalogIsCurrent, ToggleHolds
  <2> QED BY <1>1, <2>1, <2>2
<1>6. Fields' BY ZenonT(60), <1>1, <1>3, <1>4, <1>5 DEF McpInv, Fields
<1>7. Registered'
  <2>1. owned # NoOne => owned \in Clients BY Numbers DEF McpInv, Fields, Whose, Clients
  <2>2. Registered /\ ~Candidate' BY <1>4 DEF McpInv, Candidate
  <2>3. owned' # NoOne => /\ enabled' /\ client'[owned'].phase # "closed"
                          /\ client'[owned'].public /\ owned' \notin apply'.closing
    BY <1>1, <1>2, <1>3, <2>1, <2>2 DEF Registered
  <2>4. Chosen' => restart'.who \in Clients BY <1>2, <1>4 DEF Chosen
  <2> QED BY <1>1, <1>4, <2>2, <2>3, <2>4 DEF Registered
<1>8. Owned'
  <2> SUFFICES ASSUME NEW d \in Clients, client'[d].phase # "closed" PROVE Accounted(d)'
    BY DEF Owned
  <2>1. client[d].phase # "closed" BY <1>2, <1>3
  <2>2. Accounted(d) BY <2>1 DEF McpInv, Owned
  <2>3. transport = "stdio" => d # restart.who BY <1>3
  <2> QED BY <1>1, <2>2, <2>3 DEF Accounted
<1>9. EventsFit'
  <2>1. \A x \in Events : Tame(x.who)
    <3> SUFFICES ASSUME NEW x \in Events PROVE Tame(x.who) OBVIOUS
    <3>1. x.who \in Clients BY EventsAre
    <3>2. client'[x.who] = client[x.who] \/ client'[x.who].phase = "closed"
      BY <1>2, <1>3, <3>1
    <3>3. client'[x.who].conn = client[x.who].conn BY <1>3, <3>1
    <3> QED BY <3>2, <3>3 DEF Tame
  <2> QED BY <1>1, <1>3, <2>1, SameEvents
<1>10. Fresh' BY <1>4 DEF Fresh, Candidate
<1> QED BY <1>1, <1>5, <1>6, <1>7, <1>8, <1>9, <1>10 DEF McpInv, ReadyIsNotReplaced

(* A call that timed out or found its connection broken opens it again.    *)
LEMMA CallEndKeeps == ASSUME McpInv, CallEnds PROVE McpInv' /\ ReadyIsNotReplaced
<1> USE DEF config, dispatcher, history
<1> DEFINE c == call.who
           cs == client'
<1>1. /\ call.at \in {"calling", "retrying"}
      /\ UNCHANGED <<config, owned, catalog, handshaking, apply, inits, restart,
                     dispatcher, history>>
  BY DEF CallEnds
<1>2. c \in Clients /\ call \in Watch /\ client \in [Clients -> ClientRecord]
  BY <1>1 DEF McpInv, Fields
<1>3. Idle \in Watch /\ Idle.at = "none" BY Numbers DEF Idle, Watch
<1>4. /\ cs \in [Clients -> ClientRecord]
      /\ \A d \in Clients : d # c => cs[d] = client[d]
      /\ cs[c].public = client[c].public
      /\ cs[c].phase = "closed" <=> client[c].phase = "closed"
      /\ \/ cs[c].conn = client[c].conn + 1
         \/ cs[c].conn = client[c].conn /\ cs[c].phase \notin {"init", "ready"}
         \/ cs[c] = client[c]
  <2>1. cs = client \/ cs = Reset(client, c) \/ cs = Ensured(Reset(client, c), c)
    BY DEF CallEnds
  <2>2. Fields BY DEF McpInv
  <2> HIDE DEF c, cs
  <2>3. CASE cs = client BY <1>2, <2>3
  <2>4. CASE cs = Reset(client, c) BY <1>2, <2>2, <2>4, Resets
  <2>5. CASE cs = Ensured(Reset(client, c), c) BY <1>2, <2>5, Reopens
  <2> QED BY <2>1, <2>3, <2>4, <2>5
<1>5. call' \in Watch /\ (call'.at # "none" => call'.who \in Clients)
  <2>1. CASE call' = Idle BY <1>3, <2>1
  <2>2. CASE call' = On(call, "shake again", cs, c)
    <3>1. Fields BY DEF McpInv
    <3> HIDE DEF c, cs
    <3>2. \A w \in Watch : /\ On(w, "shake again", cs, c) \in Watch
                           /\ On(w, "shake again", cs, c).who = c
      BY ZenonT(60), <1>2, <1>4, <3>1, Follows
    <3> QED BY <1>2, <2>2, <3>2
  <2> QED BY <2>1, <2>2 DEF CallEnds
<1>6. Fields' BY <1>1, <1>4, <1>5 DEF McpInv, Fields
<1>7. EventsFit' BY <1>1, <1>2, <1>4, TouchedFits
<1>8. CatalogIsCurrent' /\ ToggleHolds' BY <1>1 DEF McpInv, CatalogIsCurrent, ToggleHolds
<1>9. RestartGoesOn BY <1>1 DEF RestartGoesOn, Candidate, McpInv, Registered, Chosen
<1>10. \A d \in Clients : /\ client'[d].phase = "closed" <=> client[d].phase = "closed"
                          /\ client'[d].public = client[d].public
  BY <1>4
<1> QED BY <1>1, <1>6, <1>7, <1>8, <1>9, <1>10, OthersKeep

-----------------------------------------------------------------------------
(* The server *)

(* A session starts without clients, tools and tasks.                      *)
LEMMA McpStarts == ASSUME Init PROVE McpInv
<1>1. /\ Unmade \in ClientRecord /\ Unmade.phase = "closed"
      /\ Idle \in Watch /\ Idle.at = "none" /\ NoRestart \in RestartTask
      /\ NoRestart.at = "none"
      /\ NoTools \in [version : Nat, shows : BOOLEAN]
      /\ NoApply \in [at : {"none", "closing"}, start : BOOLEAN, closing : SUBSET Clients]
      /\ NoApply.at = "none" /\ NoApply.closing = {}
  BY Numbers DEF Unmade, ClientRecord, Phases, Idle, Watch, NoRestart, RestartTask,
     NoTools, NoApply
<1>2. /\ {MaxReloads, MaxDeaths, MaxFailures, MaxUses} \subseteq Nat
      /\ Transports \subseteq {"stdio", "http"}
  BY McpAssumption
<1>3. left \in Budget /\ left.reloads = MaxReloads BY <1>2 DEF Init, Budget
<1>4. /\ version = 0 /\ generation = 0 /\ inits = {} /\ enabled = FALSE /\ hidden = FALSE
      /\ handshaking = FALSE /\ abandoned = FALSE /\ stale = FALSE /\ owned = NoOne
      /\ queue = <<>> /\ batch = <<>> /\ catalog = NoTools /\ apply = NoApply
      /\ restart = NoRestart /\ handling = Idle /\ call = Idle
      /\ client = [c \in Clients |-> Unmade] /\ transport \in Transports
  BY DEF Init
<1>5. Fields
  <2>1. client \in [Clients -> ClientRecord] /\ owned \in Whose BY <1>1, <1>4, Numbers
  <2>2. /\ transport \in Transports /\ transport \in {"stdio", "http"}
        /\ enabled \in BOOLEAN /\ hidden \in BOOLEAN /\ handshaking \in BOOLEAN
        /\ abandoned \in BOOLEAN /\ stale \in BOOLEAN
    BY <1>2, <1>4
  <2>3. /\ version \in Nat /\ generation \in Nat /\ version <= generation
        /\ generation + left.reloads <= MaxReloads
    BY <1>2, <1>3, <1>4
  <2>4. /\ catalog \in [version : Nat, shows : BOOLEAN]
        /\ apply \in [at : {"none", "closing"}, start : BOOLEAN, closing : SUBSET Clients]
        /\ apply.at = "none" => apply.closing = {}
        /\ inits \subseteq InitTask
        /\ \A i \in inits : i.at # "spawned" => i.who \in Clients
    BY <1>1, <1>4
  <2>5. /\ handling \in Watch /\ call \in Watch /\ restart \in RestartTask
        /\ handling.at = "list" => handling.who \in Clients
        /\ call.at # "none" => call.who \in Clients
        /\ restart.at \in {"sleep", "shake", "list", "failing"} => restart.tries # 0
    BY <1>1, <1>4
  <2> QED BY <1>3, <2>1, <2>2, <2>3, <2>4, <2>5 DEF Fields
<1>6. Registered BY <1>1, <1>4 DEF Registered, Chosen, Candidate
<1>7. Owned BY <1>1, <1>4 DEF Owned
<1>8. EventsFit
  <2>1. ToSet(queue) = {} /\ ToSet(batch) = {} /\ queue \in Seq(Event)
          /\ batch \in Seq(Event)
    BY <1>4 DEF ToSet
  <2> QED BY <2>1 DEF EventsFit, Events
<1>9. CatalogIsCurrent /\ ToggleHolds BY <1>4 DEF CatalogIsCurrent, ToggleHolds
<1>10. Fresh BY <1>1, <1>4 DEF Fresh, Candidate
<1> QED BY <1>5, <1>6, <1>7, <1>8, <1>9, <1>10 DEF McpInv

(* Every step keeps the invariant and no good connection is taken away.    *)
LEMMA McpStep == ASSUME McpInv, [Next]_vars PROVE McpInv' /\ ReadyIsNotReplaced
<1>1. CASE UNCHANGED vars
  <2> USE DEF vars, config, dispatcher, tasks, history
  <2>1. Fields' BY <1>1 DEF McpInv, Fields
  <2>2. CatalogIsCurrent' /\ ToggleHolds'
    BY <1>1 DEF McpInv, CatalogIsCurrent, ToggleHolds
  <2>3. UNCHANGED <<transport, enabled, hidden, version, client, owned, apply, restart,
                    queue, batch, stale, handshaking>>
    BY <1>1
  <2> QED BY <2>1, <2>2, <2>3, TasksKeep
<1>2. CASE Connections \/ \E c \in Clients : TransportCloses(c) \/ ToolListChanged(c)
  BY <1>2, ConnectionKeeps DEF Connections
<1>3. CASE ApplyConfigs BY <1>3, ApplyKeeps
<1>4. CASE ApplyEnds BY <1>4, ApplyEndKeeps
<1>5. CASE Initialisers BY <1>5, InitKeeps DEF Initialisers
<1>6. CASE Dispatcher
  BY <1>6, CollectKeeps, HandleKeeps, EvictedKeeps, RefreshedKeeps DEF Dispatcher
<1>7. CASE Recovery
  BY <1>7, RestartKeeps, WakesKeeps, RespawnKeeps, ClosesOldKeeps, FailedKeeps
     DEF Recovery
<1>8. CASE CallStarts \/ CallConnected \/ CallEnds BY <1>8, CallKeeps, CallEndKeeps
<1> QED BY <1>1, <1>2, <1>3, <1>4, <1>5, <1>6, <1>7, <1>8 DEF Next

(* The invariant says what the run checks.                                 *)
LEMMA McpInvSaysIt == ASSUME McpInv PROVE CatalogIsRight /\ NoOrphanConnection
<1>1. Fields /\ Registered /\ CatalogIsCurrent /\ ToggleHolds BY DEF McpInv
<1>2. version \in 0 .. MaxReloads /\ generation \in version .. MaxReloads
  <2>1. left.reloads \in Nat /\ MaxReloads \in Nat
    BY <1>1, McpAssumption DEF Fields, Budget
  <2> QED BY <1>1, <2>1 DEF Fields
<1>3. \A c \in Clients :
        client[c].phase \in {"empty", "init", "ready", "failed", "closed"}
  BY <1>1 DEF Fields, ClientRecord, Phases
<1>4. {handling.who, call.who, restart.who, restart.old} \subseteq 0 .. MaxClients
  BY <1>1 DEF Fields, Watch, RestartTask, Whose
<1>5. TypeOK
  <2>1. transport \in Transports
          /\ {enabled, hidden, handshaking, abandoned, stale} \subseteq BOOLEAN
        /\ owned \in 0 .. MaxClients
    BY <1>1 DEF Fields, Whose
  <2>2. /\ handshaking => enabled
        /\ owned # NoOne => client[owned].phase # "closed" /\ client[owned].public
    BY <1>1 DEF Registered
  <2> QED BY <1>2, <1>3, <1>4, <2>1, <2>2 DEF TypeOK
<1>6. NoOrphanConnection BY DEF McpInv, Owned, NoOrphanConnection, Alive
<1> QED BY <1>1, <1>5, <1>6 DEF CatalogIsRight

(* Whatever the tasks were doing when the configuration changed, every     *)
(* object that was not closed has its owner, and the events speak of       *)
(* connections that are down or were replaced.                             *)
THEOREM McpIsSound == Spec => []McpInv
<1>1. Init => McpInv BY McpStarts
<1>2. McpInv /\ [Next]_vars => McpInv' BY McpStep
<1> QED BY <1>1, <1>2, PTL DEF Spec

(* The tools on offer are those of the configuration and of the switch     *)
(* (the fences of refresh_server_tools and respawn_stdio).                 *)
THEOREM CatalogHolds == Spec => []CatalogIsRight
<1>1. McpInv => CatalogIsRight BY McpInvSaysIt
<1> QED BY <1>1, McpIsSound, PTL

(* No connection is left without an owner, and a ready client is replaced  *)
(* only by a change of its own configuration (respawn_stdio, apply_configs,*)
(* event_is_current).                                                      *)
THEOREM ConnectionsHold == Spec => ConnectionsAreOwned
<1>1. McpInv /\ [Next]_vars => ReadyIsNotReplaced BY McpStep
<1>2. McpInv => NoOrphanConnection BY McpInvSaysIt
<1> QED BY <1>1, <1>2, McpIsSound, PTL DEF Spec, ConnectionsAreOwned

=============================================================================
