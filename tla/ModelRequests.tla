----------------------------- MODULE ModelRequests -----------------------------
(***************************************************************************)
(* Abandonable model requests (src/src/codedoggy/model/stream_cancel.py,   *)
(* run_cancellable_request).                                               *)
(*                                                                         *)
(* A blocking request runs in an owner thread that holds one of a fixed    *)
(* number of slots.  The caller waits for the result or for its            *)
(* cancellation; a cancelled caller leaves, and its owner keeps the slot   *)
(* until the transport lets go of it.                                      *)
(***************************************************************************)
EXTENDS Naturals, FiniteSets

CONSTANTS Callers,     \* turns: the main agent's and its children's
          Slots,       \* _REQUEST_SLOTS
          Requests     \* bound: how many requests a caller makes

ASSUME RequestAssumption ==
    Slots \in Nat \ {0} /\ Requests \in Nat /\ IsFiniteSet(Callers)

Ids == Callers \X (1 .. Requests)
NoAnswer == "none"
Answers == {"value", "error"}

VARIABLES
    nth,         \* per caller: the request it is in, or did last
    at,          \* per caller: where in run_cancellable_request it is
    free,        \* the semaphore
    owner,       \* per request: its owner thread
    abandoned,   \* requests whose event `abandoned` is set
    box,         \* per request: the queue of size one
    cancelled,   \* callers whose cancel_event is set
    got          \* per caller: what the last request gave it

requests == <<nth, at, free, owner, abandoned, box, cancelled, got>>

Id(c) == <<c, nth[c]>>
Live == {r \in Ids : owner[r] \in {"running", "answering"}}
InCall(c) == at[c] \in {"acquiring", "acquired", "waiting", "answered"}

RequestInit ==
    /\ nth = [c \in Callers |-> 0] /\ at = [c \in Callers |-> "out"]
    /\ free = Slots /\ owner = [r \in Ids |-> "none"]
    /\ abandoned = {} /\ box = [r \in Ids |-> NoAnswer]
    /\ cancelled = {} /\ got = [c \in Callers |-> NoAnswer]

Leave(c, answer) ==
    /\ at' = [at EXCEPT ![c] = "out"] /\ got' = [got EXCEPT ![c] = answer]

-----------------------------------------------------------------------------
(* The caller *)

Begin(c) ==                      \* raise_if_cancelled before anything else
    /\ at[c] = "out" /\ nth[c] < Requests /\ c \notin cancelled
    /\ nth' = [nth EXCEPT ![c] = @ + 1]
    /\ at' = [at EXCEPT ![c] = "acquiring"]
    /\ got' = [got EXCEPT ![c] = NoAnswer]
    /\ UNCHANGED <<free, owner, abandoned, box, cancelled>>

Acquire(c) ==
    /\ at[c] = "acquiring" /\ free > 0
    /\ free' = free - 1 /\ at' = [at EXCEPT ![c] = "acquired"]
    /\ UNCHANGED <<nth, owner, abandoned, box, cancelled, got>>

GiveUpNever(c) == at[c] = "acquiring" /\ free = 0 /\ UNCHANGED requests
GiveUpAcquiring(c) ==            \* acquire timed out, the signal is set
    /\ at[c] = "acquiring" /\ free = 0 /\ c \in cancelled
    /\ Leave(c, "cancelled")
    /\ UNCHANGED <<nth, free, owner, abandoned, box, cancelled>>

StartOwnerAnyway(c) ==
    /\ at[c] = "acquired"
    /\ \/ /\ at' = [at EXCEPT ![c] = "waiting"]
          /\ owner' = [owner EXCEPT ![Id(c)] = "running"] /\ UNCHANGED <<free, got>>
       \/ Leave(c, "error") /\ UNCHANGED <<free, owner>>
    /\ UNCHANGED <<nth, abandoned, box, cancelled>>
StartOwner(c) ==                 \* or start() raises
    /\ at[c] = "acquired" /\ c \notin cancelled
    /\ \/ /\ at' = [at EXCEPT ![c] = "waiting"]
          /\ owner' = [owner EXCEPT ![Id(c)] = "running"] /\ UNCHANGED <<free, got>>
       \/ Leave(c, "error") /\ free' = free + 1 /\ UNCHANGED owner
    /\ UNCHANGED <<nth, abandoned, box, cancelled>>

CancelledAcquired(c) ==          \* cancelled after the loop's last test
    /\ at[c] = "acquired" /\ c \in cancelled
    /\ free' = free + 1 /\ Leave(c, "cancelled")
    /\ UNCHANGED <<nth, owner, abandoned, box, cancelled>>

TakeAnswer(c) ==                 \* result.get within 0.05 s
    /\ at[c] = "waiting" /\ box[Id(c)] # NoAnswer
    /\ at' = [at EXCEPT ![c] = "answered"]
    /\ UNCHANGED <<nth, free, owner, abandoned, box, cancelled, got>>

ReturnAnyway(c) ==
    /\ at[c] = "answered" /\ Leave(c, box[Id(c)])
    /\ UNCHANGED <<nth, free, owner, abandoned, box, cancelled>>
Return(c) ==
    /\ at[c] = "answered" /\ c \notin cancelled
    /\ Leave(c, box[Id(c)])
    /\ UNCHANGED <<nth, free, owner, abandoned, box, cancelled>>

AbandonSilently(c) ==
    /\ at[c] \in {"waiting", "answered"} /\ c \in cancelled /\ Leave(c, "cancelled")
    /\ UNCHANGED <<nth, free, owner, abandoned, box, cancelled>>
Abandon(c) ==                    \* tested before and after the wait for the result
    /\ at[c] \in {"waiting", "answered"} /\ c \in cancelled
    /\ abandoned' = abandoned \cup {Id(c)} /\ Leave(c, "cancelled")
    /\ UNCHANGED <<nth, free, owner, box, cancelled>>

-----------------------------------------------------------------------------
(* The owner thread, the turn's signal *)

OperationEnds(r) ==              \* reads `abandoned`, then puts the payload
    /\ owner[r] = "running"
    /\ owner' = [owner EXCEPT ![r] = "answering"]
    /\ \/ r \in abandoned /\ UNCHANGED box
       \/ r \notin abandoned /\ \E a \in Answers : box' = [box EXCEPT ![r] = a]
    /\ UNCHANGED <<nth, at, free, abandoned, cancelled, got>>

OwnerEndsUnlessAbandoned(r) ==
    /\ owner[r] = "answering" /\ owner' = [owner EXCEPT ![r] = "ended"]
    /\ free' = IF r \in abandoned THEN free ELSE free + 1
    /\ UNCHANGED <<nth, at, abandoned, box, cancelled, got>>
OwnerEnds(r) ==                  \* finally: the slot is released
    /\ owner[r] = "answering"
    /\ owner' = [owner EXCEPT ![r] = "ended"] /\ free' = free + 1
    /\ UNCHANGED <<nth, at, abandoned, box, cancelled, got>>

CancelTurn(c) ==
    /\ c \notin cancelled /\ nth[c] > 0 /\ cancelled' = cancelled \cup {c}
    /\ UNCHANGED <<nth, at, free, owner, abandoned, box, got>>

NextTurn(c) ==                   \* a new turn clears the event
    /\ at[c] = "out" /\ c \in cancelled /\ cancelled' = cancelled \ {c}
    /\ UNCHANGED <<nth, at, free, owner, abandoned, box, got>>

CallerStep(c) ==
    \/ Acquire(c) \/ GiveUpAcquiring(c) \/ StartOwner(c) \/ CancelledAcquired(c)
    \/ TakeAnswer(c) \/ Return(c) \/ Abandon(c)

RequestNext ==
    \/ \E c \in Callers : Begin(c) \/ CallerStep(c) \/ CancelTurn(c) \/ NextTurn(c)
    \/ \E r \in Ids : OperationEnds(r) \/ OwnerEnds(r)

(* Threads run.  Nothing makes an operation end: a server may hang.        *)
RequestFairness ==
    /\ \A c \in Callers : WF_requests(CallerStep(c))
    /\ \A r \in Ids : WF_requests(OwnerEnds(r))

RequestSpec == RequestInit /\ [][RequestNext]_requests /\ RequestFairness

-----------------------------------------------------------------------------
(* Every slot is free, held by a caller about to start its owner, or held  *)
(* by an owner that still runs, abandoned or not: the semaphore neither    *)
(* leaks a slot nor frees one twice on any of the exits.                   *)
SlotsAreConserved ==
    /\ free \in 0 .. Slots
    /\ free + Cardinality({c \in Callers : at[c] = "acquired"}) + Cardinality(Live) = Slots

(* A request that is still on the wire is awaited by its caller or has     *)
(* been abandoned: no exit of the call forgets an owner it started.        *)
NoForgottenRequest ==
    \A r \in Ids : owner[r] = "running" /\ r \notin abandoned
                     => r = Id(r[1]) /\ at[r[1]] = "waiting"

(* A turn that is cancelled while it samples gets no answer, however the   *)
(* result and the signal race.                                             *)
NoAnswerAfterCancel ==
    \A c \in cancelled : InCall(c) /\ ~InCall(c)' => got'[c] = "cancelled"

(* A cancelled caller comes back even if every slot is held by a request   *)
(* that never ends.                                                        *)
CancelledReturns == \A c \in Callers : c \in cancelled /\ InCall(c) ~> ~InCall(c)

(* A cancelled request takes nothing with it but the slot of its owner.    *)
CancelIsClean ==
    [][SlotsAreConserved' /\ NoForgottenRequest' /\ NoAnswerAfterCancel]_requests

=============================================================================
