------------------------------- MODULE MemorySync -------------------------------
(***************************************************************************)
(* What memory providers are told (src/src/codedoggy/memory/manager.py,    *)
(* MemoryManager; memory/hermes_seam.py; RuntimeKernel.new_session and     *)
(* close; the end of AgentTurnRunner.run).                                 *)
(*                                                                         *)
(* Completed turns and session boundaries reach the providers through one  *)
(* background worker; a fold and the close call them from the host's       *)
(* thread.  A hook of a provider may hang.  There is one external          *)
(* provider; the built-in ones are called beside it, in the same order.    *)
(***************************************************************************)
EXTENDS Naturals, Sequences, FiniteSets, SequencesExt

CONSTANTS Turns,     \* bounds: turns,
          MaxSessions,   \* sessions (ids are 1, 2, ...)
          Folds          \* and folds of the context

ASSUME SyncAssumption == {Turns, MaxSessions, Folds} \subseteq Nat /\ MaxSessions > 0

VARIABLES
    kernelSid,      \* RuntimeKernel.session_id
    sid,            \* _session_id of the manager
    completedMsgs,  \* _completed_external_messages, per session the turns in it
    queued,          \* the executor's queue; an executor exists once it was used
    doing,        \* what the worker is at
    shutdown,       \* _shutdown
    closer,         \* where kernel.close is
    bound,          \* the session the provider thinks it is in
    provider,       \* "open" or "closed"
    folds           \* folds so far

(* History: read by the properties only. *)
VARIABLES
    turnsDone,      \* per turn: its session and whether it completed
    taught,         \* turns given to sync_turn, in order
    handed,         \* per turn, how often on_session_end was given it
    rewound,        \* turns a fold took out of the transcript
    overtaken       \* the host called the provider ahead of a boundary

syncs == <<kernelSid, sid, completedMsgs, queued, doing, shutdown, closer, bound,
           provider, folds, turnsDone, taught, handed, rewound, overtaken>>
host == <<kernelSid, shutdown, closer, folds, turnsDone, rewound, overtaken>>

SessionIds == 1 .. MaxSessions
Idle == [kind |-> "none"]
Sync(n, s) == [kind |-> "sync", turn |-> n, sid |-> s]
Boundary(s) == [kind |-> "boundary", new |-> s]
BoundaryIsPending == doing.kind \in {"boundary", "popping"}
                     \/ \E i \in DOMAIN queued : queued[i].kind = "boundary"

SyncInit ==
    /\ kernelSid = 1 /\ sid = 1 /\ bound = 1           \* bind_session
    /\ completedMsgs = [s \in SessionIds |-> <<>>]
    /\ queued = <<>> /\ doing = Idle
    /\ shutdown = FALSE /\ closer = "none" /\ provider = "open" /\ folds = 0
    /\ turnsDone = <<>> /\ taught = <<>> /\ handed = [n \in 1 .. Turns |-> 0]
    /\ rewound = {} /\ overtaken = FALSE

(* Under the manager's lock; a closed manager drops the job. *)
SubmitBackground(j) == queued' = IF shutdown THEN queued ELSE Append(queued, j)
Hand(turns) == handed' = [n \in DOMAIN handed |-> IF Contains(turns, n) THEN handed[n] + 1
                                                  ELSE handed[n]]

-----------------------------------------------------------------------------
(* The host's thread, between two turns or at the end of one *)

SyncsAnyOutcome(completed) == TRUE
(* on_turn_end: any other outcome is not learned. *)
Learns(completed) == completed

EndTurn(completed) ==
    /\ closer = "none" /\ Len(turnsDone) < Turns
    /\ LET n == Len(turnsDone) + 1 IN
         /\ turnsDone' = Append(turnsDone, [sid |-> kernelSid, completed |-> completed])
         /\ IF Learns(completed)
            THEN /\ completedMsgs' = [completedMsgs EXCEPT ![kernelSid] = Append(@, n)]
                 /\ SubmitBackground(Sync(n, kernelSid))
            ELSE UNCHANGED <<completedMsgs, queued>>
    /\ UNCHANGED <<kernelSid, sid, doing, shutdown, closer, bound, provider, folds,
                   taught, handed, rewound, overtaken>>

(* on_transcript_rewound, from a turn: a switch to the id it is in.        *)
FoldRebinds ==
    /\ closer = "none" /\ folds < Folds
    /\ folds' = folds + 1
    /\ sid' = kernelSid /\ bound' = kernelSid
    /\ rewound' = rewound \cup ToSet(completedMsgs[kernelSid])
    /\ completedMsgs' = [completedMsgs EXCEPT ![kernelSid] = <<>>]
    /\ overtaken' = (overtaken \/ BoundaryIsPending)
    /\ UNCHANGED <<kernelSid, queued, doing, shutdown, closer, provider, turnsDone,
                   taught, handed>>

SwitchAtOnce ==
    /\ closer = "none" /\ kernelSid < MaxSessions /\ kernelSid' = kernelSid + 1
    /\ Hand(completedMsgs[sid]) /\ completedMsgs' = [completedMsgs EXCEPT ![sid] = <<>>]
    /\ sid' = kernelSid' /\ bound' = kernelSid'
    /\ UNCHANGED <<queued, doing, shutdown, closer, provider, folds, turnsDone,
                   taught, rewound, overtaken>>
NewSession ==                    \* commit_session_boundary_async
    /\ closer = "none" /\ kernelSid < MaxSessions
    /\ kernelSid' = kernelSid + 1
    /\ SubmitBackground(Boundary(kernelSid'))
    /\ UNCHANGED <<sid, completedMsgs, doing, shutdown, closer, bound, provider, folds,
                   turnsDone, taught, handed, rewound, overtaken>>

-----------------------------------------------------------------------------
(* on_session_close, once no turn runs *)

CloseEnds ==                     \* on_session_end: the snapshot and the hook
    /\ closer = "none" /\ closer' = "popping"
    /\ Hand(completedMsgs[sid])
    /\ overtaken' = (overtaken \/ BoundaryIsPending)
    /\ UNCHANGED <<kernelSid, sid, completedMsgs, queued, doing, shutdown, bound,
                   provider, folds, turnsDone, taught, rewound>>

CloseFlushes ==                  \* the pop; flush_pending enqueues a job that does nothing
    /\ closer = "popping" /\ closer' = "flushing"
    /\ completedMsgs' = [completedMsgs EXCEPT ![sid] = <<>>]
    /\ UNCHANGED <<kernelSid, sid, queued, doing, shutdown, bound, provider, folds,
                   turnsDone, taught, handed, rewound, overtaken>>

FlushReturns ==                  \* that job was done, or 5 s
    /\ closer = "flushing" /\ closer' = "shutting"
    /\ UNCHANGED <<kernelSid, sid, completedMsgs, queued, doing, shutdown, bound,
                   provider, folds, turnsDone, taught, handed, rewound, overtaken>>

ShutdownClosesNow ==
    /\ closer = "shutting" /\ closer' = "draining" /\ shutdown' = TRUE /\ provider' = "closed"
    /\ UNCHANGED <<kernelSid, sid, completedMsgs, queued, doing, bound, folds,
                   turnsDone, taught, handed, rewound, overtaken>>
ShutdownAll ==                   \* _shutdown under the lock; the drainer starts
    /\ closer = "shutting" /\ closer' = "draining"
    /\ shutdown' = TRUE
    /\ UNCHANGED <<kernelSid, sid, completedMsgs, queued, doing, bound, provider, folds,
                   turnsDone, taught, handed, rewound, overtaken>>

CloseWaitsForDrain ==
    /\ closer = "draining" /\ provider = "closed" /\ closer' = "closed"
    /\ UNCHANGED <<kernelSid, sid, completedMsgs, queued, doing, shutdown, bound,
                   provider, folds, turnsDone, taught, handed, rewound, overtaken>>
CloseGoesOn ==              \* the drainer is done, or 5 s
    /\ closer = "draining" /\ closer' = "closed"
    /\ UNCHANGED <<kernelSid, sid, completedMsgs, queued, doing, shutdown, bound,
                   provider, folds, turnsDone, taught, handed, rewound, overtaken>>

DrainThenClose ==                \* _drain_executor_and_close, a daemon thread
    /\ shutdown /\ provider = "open" /\ queued = <<>> /\ doing = Idle
    /\ provider' = "closed"
    /\ UNCHANGED <<sid, completedMsgs, queued, doing, bound, taught, handed, host>>

-----------------------------------------------------------------------------
(* The worker *)

WorkerTakes ==
    /\ doing = Idle /\ queued # <<>>
    /\ queued' = Tail(queued)
    /\ doing' = Head(queued)
    /\ UNCHANGED <<sid, completedMsgs, bound, provider, taught, handed, host>>

SyncTurn ==
    /\ doing.kind = "sync"
    /\ taught' = Append(taught, doing.turn) /\ doing' = Idle
    /\ UNCHANGED <<sid, completedMsgs, queued, bound, provider, handed, host>>

BoundaryEnds ==                 \* the session is whichever the manager is in by now
    /\ doing.kind = "boundary"
    /\ Hand(completedMsgs[sid])
    /\ doing' = [kind |-> "popping", new |-> doing.new, ended |-> sid]
    /\ UNCHANGED <<sid, completedMsgs, queued, bound, provider, taught, host>>

BoundarySwitches ==               \* the pop, then the switch
    /\ doing.kind = "popping"
    /\ completedMsgs' = [completedMsgs EXCEPT ![doing.ended] = <<>>]
    /\ sid' = doing.new /\ bound' = doing.new
    /\ doing' = Idle
    /\ UNCHANGED <<queued, provider, taught, handed, host>>

SyncNext ==
    \/ \E completed \in BOOLEAN : EndTurn(completed)
    \/ FoldRebinds \/ NewSession
    \/ CloseEnds \/ CloseFlushes \/ FlushReturns \/ ShutdownAll \/ CloseGoesOn \/ DrainThenClose
    \/ WorkerTakes \/ SyncTurn \/ BoundaryEnds \/ BoundarySwitches

(* kernel.close goes on; of the worker nothing is assumed.                 *)
CloserFairness == /\ WF_syncs(CloseFlushes) /\ WF_syncs(FlushReturns)
                  /\ WF_syncs(ShutdownAll) /\ WF_syncs(CloseGoesOn)

-----------------------------------------------------------------------------
SyncTypeOK ==
    /\ {kernelSid, sid, bound} \subseteq SessionIds
    /\ doing.kind \in {"none", "sync", "boundary", "popping"}
    /\ \A i \in DOMAIN queued : queued[i].kind \in {"sync", "boundary"}
    /\ closer \in {"none", "popping", "flushing", "shutting", "draining", "closed"}
    /\ provider \in {"open", "closed"} /\ \A s \in SessionIds : ToSet(completedMsgs[s]) \subseteq DOMAIN handed

Syncs == {i \in DOMAIN queued : queued[i].kind = "sync"}
InWork == IF doing.kind = "sync" THEN {doing.turn} ELSE {}
Accepted == ToSet(taught) \cup InWork \cup {queued[i].turn : i \in Syncs}
OldestFirst ==
    /\ \A i, k \in DOMAIN taught : i < k => taught[i] < taught[k]
    /\ \A i, k \in Syncs : i < k => queued[i].turn < queued[k].turn
    /\ \A n \in ToSet(taught) : \A m \in InWork : n < m
    /\ \A n \in ToSet(taught) \cup InWork : \A i \in Syncs : n < queued[i].turn

(* Every completed turn is taught once and in order, and no other turn is: *)
(* a timeout of the close neither drops nor repeats what was accepted.     *)
TaughtOnce ==
    Accepted = {n \in DOMAIN turnsDone : turnsDone[n].completed} /\ OldestFirst

(* A provider is torn down after everything it was owed: a worker that is  *)
(* slower than the timeout of the close still finds it open.               *)
ClosedIsLast == provider = "closed" => queued = <<>> /\ doing = Idle

(* A turn is taught while the provider is bound to the turn's session, for *)
(* the boundary waits its turn behind it, and a session that ended handed  *)
(* over each of its turns once, but those a fold took.  Both hold only as  *)
(* long as no fold or close calls the provider ahead of a boundary.        *)
BoundToItsSession ==
    doing.kind = "sync" => bound = turnsDone[doing.turn].sid \/ overtaken
EndHandsOnce ==
    ~overtaken => \A n \in DOMAIN turnsDone :
        /\ handed[n] <= 1
        /\ (turnsDone[n].completed /\ turnsDone[n].sid < bound) => handed[n] = 1 \/ n \in rewound

TurnsAreTaught ==
    SyncTypeOK /\ TaughtOnce /\ ClosedIsLast /\ BoundToItsSession /\ EndHandsOnce

(* kernel.close does not hang on a provider that hangs.                    *)
CloseIsOpen == closer \notin {"none", "closed"}
MemoryCloseReturns == CloseIsOpen ~> ~CloseIsOpen
=============================================================================
