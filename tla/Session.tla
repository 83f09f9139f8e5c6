------------------------------- MODULE Session -------------------------------
(***************************************************************************)
(* The lifecycle of one CodeDoggy session                                  *)
(* (src/src/codedoggy/session/session.py, class Session).                  *)
(*                                                                         *)
(* Host threads -- the CLI or TUI worker, the scheduler's tick thread, the *)
(* thread that closes the session -- call the session's methods            *)
(* concurrently.  The session has ONE turn slot (phase), a queue of full   *)
(* prompts driven by at most one drainer, a buffer of interjections for    *)
(* the running turn, one cancellation token per turn, and a teardown that  *)
(* must wait for the running turn.                                         *)
(*                                                                         *)
(* A step is one critical section of Session._lock, or one unlocked access *)
(* to a shared field: the code checks _closed/_closing outside the lock in *)
(* enqueue_prompt and interject, and reads _cancel_requested and           *)
(* _prompt_drain_active unlocked in _run_started_turn.                     *)
(*                                                                         *)
(* A prompt is a model value.  Every prompt reserves the turn slot at most *)
(* once, so the fresh threading.Event of a turn is named by its prompt.    *)
(***************************************************************************)
EXTENDS Naturals, Sequences, FiniteSets, SequencesExt

CONSTANTS Threads,            \* the host threads that call the session
          Prompts,            \* the prompts they present, each one once
          NoPrompt,           \* "no prompt"; also the token made by __init__
          NoThread,           \* _turn_thread_id is None
          Outcomes,           \* how runner.run may end, a subset of RunnerOutcomes
          DrainAfterCancel,   \* CODEDOGGY_DRAIN_AFTER_CANCEL
          MaxRotations        \* bound on new_session calls

RunnerOutcomes == {"completed", "cancelled", "error", "interrupted"}

ASSUME SessionAssumption ==
    /\ NoPrompt \notin Prompts
    /\ NoThread \notin Threads
    /\ Outcomes \subseteq RunnerOutcomes
    /\ DrainAfterCancel \in BOOLEAN
    /\ MaxRotations \in Nat

VARIABLES
    phase,             \* SessionPhase
    turnThread,        \* _turn_thread_id
    turnDone,          \* _turn_done.is_set()
    cancelRequested,   \* _cancel_requested
    cancelEvent,       \* _cancel_event: the token of the latest turn
    firedTokens,       \* the tokens whose Event is set
    drainActive,       \* _prompt_drain_active
    ingressStopped,    \* _prompt_ingress_stopped
    closing,           \* _closing
    closed,            \* _closed
    closeFinalizing,   \* _close_finalizing
    closeDone,         \* _close_done.is_set()
    elected,           \* finalizer threads created, not yet in kernel.close()
    tearing,           \* finalizer threads inside kernel.close()
    torn,              \* finalizer threads that have finished
    queue,             \* kernel.prompt_queue
    interjections,     \* kernel.interjection_buffer
    rotations,         \* number of new_session calls: names the session id
    pc,                \* where each thread is
    cur,               \* the prompt of each thread's current call or turn
    inDrain,           \* the thread is inside its own _drain_prompt_queue loop
    result             \* status of the latest turn the thread ran

(* History: read by the properties only. *)
VARIABLES
    fresh,             \* prompts nobody has presented yet
    accepted,          \* every prompt pushed on the queue, in order
    submitted,         \* the accepted prompts that came through submit_prompt
    cleared,           \* prompts discarded by stop_prompt_ingress
    started,           \* prompts whose turn reserved the slot, in order
    ended,             \* prompts whose turn released the slot
    toldQueued,        \* prompts handle_prompt answered with TurnStatus.QUEUED
    delivered          \* interjections the agent loop put into its transcript

slot      == <<phase, turnThread, turnDone>>
token     == <<cancelRequested, cancelEvent, firedTokens>>
lifecycle == <<closing, closed, closeFinalizing, closeDone, elected, tearing, torn>>
mail      == <<queue, interjections>>
ledger    == <<fresh, accepted, submitted, cleared, started, ended, toldQueued, delivered>>
locals    == <<pc, cur, inDrain, result>>
vars == <<slot, token, drainActive, ingressStopped, lifecycle, mail, rotations,
          locals, ledger>>

-----------------------------------------------------------------------------
(* Vocabulary *)

Labels == {"idle",       \* no session call in progress
           "enqueue",    \* enqueue_prompt, past its unlocked _ensure_open
           "interject",  \* interject, past its unlocked _ensure_open
           "start",      \* slot reserved, runner not started
           "run",        \* inside runner.run
           "exit",       \* runner left, before the locked block of finally
           "finalize",   \* the turn saw _closing: elects the finalizer
           "settled",    \* the turn saw no close: reads _prompt_drain_active
           "permit",     \* decides whether a finished turn may drain
           "drain",      \* about to enter _drain_prompt_queue
           "loop",       \* head of the drain loop
           "leave",      \* finally of the drain loop
           "await_turn", \* close waits for _turn_done
           "elect",      \* close is about to call _start_close_finalizer
           "await_close"} \* close waits for _close_done

Phases == {"idle", "turn_running", "closed"}
Open == ~closed /\ ~closing                      \* _ensure_open does not raise
InTurn(t) == pc[t] \in {"start", "run", "exit"}
AllIdle == \A t \in Threads : pc[t] = "idle"
Goto(t, label) == pc' = [pc EXCEPT ![t] = label]
Forget(t) == cur' = [cur EXCEPT ![t] = NoPrompt]

FlagTypes ==
    /\ turnDone \in BOOLEAN /\ cancelRequested \in BOOLEAN
    /\ drainActive \in BOOLEAN /\ ingressStopped \in BOOLEAN
    /\ closing \in BOOLEAN /\ closed \in BOOLEAN
    /\ closeFinalizing \in BOOLEAN /\ closeDone \in BOOLEAN

CounterTypes ==
    /\ elected \in Nat /\ tearing \in Nat /\ torn \in Nat
    /\ rotations \in 0 .. MaxRotations

SlotTypes ==
    /\ phase \in Phases
    /\ turnThread \in Threads \cup {NoThread}
    /\ cancelEvent \in Prompts \cup {NoPrompt}
    /\ firedTokens \subseteq Prompts \cup {NoPrompt}

LocalTypes ==
    /\ pc \in [Threads -> Labels]
    /\ cur \in [Threads -> Prompts \cup {NoPrompt}]
    /\ inDrain \in [Threads -> BOOLEAN]
    /\ result \in [Threads -> RunnerOutcomes \cup {"none"}]

LedgerTypes ==
    /\ queue \in Seq(Prompts)
    /\ interjections \in Seq(Prompts)
    /\ accepted \in Seq(Prompts)
    /\ started \in Seq(Prompts)
    /\ fresh \subseteq Prompts
    /\ submitted \subseteq Prompts
    /\ cleared \subseteq Prompts
    /\ ended \subseteq Prompts
    /\ toldQueued \subseteq Prompts
    /\ delivered \subseteq Prompts

TypeOK == FlagTypes /\ CounterTypes /\ SlotTypes /\ LocalTypes /\ LedgerTypes

(* A thread in a turn or past an unlocked check holds the prompt it is about. *)
InCall(t) == pc[t] \in {"enqueue", "interject"}
HasPrompt == \A t \in Threads : InTurn(t) \/ InCall(t) => cur[t] \in Prompts

Init ==
    /\ phase = "idle" /\ turnThread = NoThread /\ turnDone = TRUE
    /\ cancelRequested = FALSE /\ cancelEvent = NoPrompt /\ firedTokens = {}
    /\ drainActive = FALSE /\ ingressStopped = FALSE
    /\ closing = FALSE /\ closed = FALSE /\ closeFinalizing = FALSE
    /\ closeDone = FALSE /\ elected = 0 /\ tearing = 0 /\ torn = 0
    /\ queue = <<>> /\ interjections = <<>> /\ rotations = 0
    /\ pc = [t \in Threads |-> "idle"]
    /\ cur = [t \in Threads |-> NoPrompt]
    /\ inDrain = [t \in Threads |-> FALSE]
    /\ result = [t \in Threads |-> "none"]
    /\ fresh = Prompts /\ accepted = <<>> /\ submitted = {} /\ cleared = {}
    /\ started = <<>> /\ ended = {} /\ toldQueued = {} /\ delivered = {}

-----------------------------------------------------------------------------
(* The turn slot *)

(* Mutants: a turn keeps its predecessor's Event, set or cleared (ABA).      *)
KeepToken(p) ==
    cancelRequested' = FALSE /\ UNCHANGED <<cancelEvent, firedTokens>>
ReuseToken(p) ==
    /\ cancelRequested' = FALSE
    /\ firedTokens' = firedTokens \ {cancelEvent}
    /\ UNCHANGED cancelEvent

(* A turn gets an Event of its own; a late cancel of an earlier turn is      *)
(* forgotten.                                                                *)
NewToken(p) ==
    /\ cancelRequested' = FALSE
    /\ cancelEvent' = p
    /\ UNCHANGED firedTokens

(* Mutant: nobody looks at the phase. *)
SlotAssumedFree == TRUE

(* The turn slot may be reserved, or the session id rotated. *)
SlotFree == phase # "turn_running"

(* _begin_turn_locked: reserve the slot and hand the turn a token of its own. *)
BeginTurn(t, p) ==
    /\ phase' = "turn_running"
    /\ turnThread' = t
    /\ turnDone' = FALSE
    /\ NewToken(p)
    /\ cur' = [cur EXCEPT ![t] = p]
    /\ started' = Append(started, p)
    /\ Goto(t, "start")

(* handle_prompt on a free slot: reserve it for this caller. *)
HandlePrompt(t, p) ==
    /\ pc[t] = "idle" /\ p \in fresh
    /\ Open /\ ~ingressStopped
    /\ SlotFree
    /\ BeginTurn(t, p)
    /\ fresh' = fresh \ {p}
    /\ UNCHANGED <<drainActive, ingressStopped, lifecycle, mail, rotations,
                   inDrain, result, accepted, submitted, cleared, ended,
                   toldQueued, delivered>>

(* Mutant: the interjection is also parked for a turn of its own.            *)
InterjectAndPark(p) ==
    /\ interjections' = Append(interjections, p)
    /\ queue' = Append(queue, p)

(* kernel.interject: the buffer only. *)
Interject(p) ==
    /\ interjections' = Append(interjections, p)
    /\ UNCHANGED queue

(* handle_prompt while a turn runs: an interjection, answered QUEUED. *)
HandlePromptBusy(t, p) ==
    /\ pc[t] = "idle" /\ p \in fresh
    /\ Open /\ ~ingressStopped
    /\ ~SlotFree
    /\ Interject(p)
    /\ toldQueued' = toldQueued \cup {p}
    /\ fresh' = fresh \ {p}
    /\ UNCHANGED <<slot, token, drainActive, ingressStopped, lifecycle,
                   rotations, locals, accepted, submitted, cleared, started,
                   ended, delivered>>

(* Mutant: a turn cancelled before its runner leaves without its finally.    *)
SkipFinally(t) == Goto(t, "idle")

(* The early return inside the try: finally still runs. *)
SkipRunner(t) == Goto(t, "exit")

(* _run_started_turn, before the runner: a turn already cancelled runs nothing. *)
StartTurn(t) ==
    /\ pc[t] = "start"
    /\ \/ /\ cancelRequested
          /\ result' = [result EXCEPT ![t] = "cancelled"]
          /\ SkipRunner(t)
       \/ /\ ~cancelRequested
          /\ result' = [result EXCEPT ![t] = "none"]
          /\ Goto(t, "run")
    /\ UNCHANGED <<slot, token, drainActive, ingressStopped, lifecycle, mail,
                   rotations, cur, inDrain, ledger>>

(* The agent loop drains the buffer at a safe point (loop head, after tools). *)
DrainInterjections(t) ==
    /\ pc[t] = "run"
    /\ interjections # <<>>
    /\ delivered' = delivered \cup ToSet(interjections)
    /\ interjections' = <<>>
    /\ UNCHANGED <<slot, token, drainActive, ingressStopped, lifecycle, queue,
                   rotations, locals, fresh, accepted, submitted, cleared,
                   started, ended, toldQueued>>

(* runner.run returns a result, raises Exception ("error") or raises        *)
(* BaseException ("interrupted": finally runs with result None).            *)
RunnerReturns(t) ==
    /\ pc[t] = "run"
    /\ \E o \in Outcomes : result' = [result EXCEPT ![t] = o]
    /\ Goto(t, "exit")
    /\ UNCHANGED <<slot, token, drainActive, ingressStopped, lifecycle, mail,
                   rotations, cur, inDrain, ledger>>

(* Mutant: the finished turn does not look at _closing.                      *)
IgnoreClose == "settled"

(* What the finished turn does next. *)
AfterRelease == IF closing THEN "finalize" ELSE "settled"

(* The locked block of _run_started_turn's finally. *)
ReleaseTurn(t) ==
    /\ pc[t] = "exit"
    /\ phase' = IF Open THEN "idle" ELSE phase
    /\ turnThread' = NoThread
    /\ turnDone' = TRUE
    /\ ended' = ended \cup {cur[t]}
    /\ Forget(t)
    /\ Goto(t, AfterRelease)
    /\ UNCHANGED <<token, drainActive, ingressStopped, lifecycle, mail,
                   rotations, inDrain, result, fresh, accepted, submitted,
                   cleared, started, toldQueued, delivered>>

(* Where a turn's thread goes when _run_started_turn is over: back to its    *)
(* drain loop (past it, when a BaseException propagates) or to its host.     *)
AfterTurn(t) ==
    IF ~inDrain[t] THEN "idle"
    ELSE IF result[t] = "interrupted" THEN "leave" ELSE "loop"

-----------------------------------------------------------------------------
(* The prompt queue and its drainer *)

(* Mutants: appendleft for every prompt; a push that loses its item.         *)
PushNothing(p) ==
    /\ queue' = Append(queue, NoPrompt)
    /\ accepted' = Append(accepted, p)
PushLeft(p) ==
    /\ queue' = <<p>> \o queue
    /\ accepted' = Append(accepted, p)

(* The queue push shared by enqueue_prompt and submit_prompt. *)
Push(p) ==
    /\ queue' = Append(queue, p)
    /\ accepted' = Append(accepted, p)

(* submit_prompt: check, push and decide who drives in one critical section. *)
SubmitPrompt(t, p) ==
    /\ pc[t] = "idle" /\ p \in fresh
    /\ Open /\ ~ingressStopped
    /\ Push(p)
    /\ submitted' = submitted \cup {p}
    /\ fresh' = fresh \ {p}
    /\ Goto(t, IF phase = "idle" /\ ~drainActive THEN "drain" ELSE "idle")
    /\ UNCHANGED <<slot, token, drainActive, ingressStopped, lifecycle,
                   interjections, rotations, cur, inDrain, result, cleared,
                   started, ended, toldQueued, delivered>>

(* enqueue_prompt, first half: _ensure_open before the lock is taken. *)
EnqueueCheck(t, p) ==
    /\ pc[t] = "idle" /\ p \in fresh
    /\ Open
    /\ cur' = [cur EXCEPT ![t] = p]
    /\ fresh' = fresh \ {p}
    /\ Goto(t, "enqueue")
    /\ UNCHANGED <<slot, token, drainActive, ingressStopped, lifecycle, mail,
                   rotations, inDrain, result, accepted, submitted, cleared,
                   started, ended, toldQueued, delivered>>

(* enqueue_prompt, second half, locked: only the ingress flag is re-read;    *)
(* a refused prompt stays with the caller.                                   *)
EnqueuePush(t) ==
    /\ pc[t] = "enqueue"
    /\ \/ /\ ~ingressStopped
          /\ Push(cur[t])
          /\ UNCHANGED fresh
       \/ /\ ingressStopped
          /\ fresh' = fresh \cup {cur[t]}
          /\ UNCHANGED <<queue, accepted>>
    /\ Forget(t)
    /\ Goto(t, "idle")
    /\ UNCHANGED <<slot, token, drainActive, ingressStopped, lifecycle,
                   interjections, rotations, inDrain, result, submitted,
                   cleared, started, ended, toldQueued, delivered>>

(* interject, first half: _ensure_open without the lock. *)
InterjectCheck(t, p) ==
    /\ pc[t] = "idle" /\ p \in fresh
    /\ Open
    /\ cur' = [cur EXCEPT ![t] = p]
    /\ fresh' = fresh \ {p}
    /\ Goto(t, "interject")
    /\ UNCHANGED <<slot, token, drainActive, ingressStopped, lifecycle, mail,
                   rotations, inDrain, result, accepted, submitted, cleared,
                   started, ended, toldQueued, delivered>>

(* interject, second half: kernel.interject pushes on the buffer. *)
InterjectPush(t) ==
    /\ pc[t] = "interject"
    /\ Interject(cur[t])
    /\ Forget(t)
    /\ Goto(t, "idle")
    /\ UNCHANGED <<slot, token, drainActive, ingressStopped, lifecycle,
                   rotations, inDrain, result, ledger>>

(* After a turn with no close pending: somebody else drains, or we may. *)
ReadDrainActive(t) ==
    /\ pc[t] = "settled"
    /\ Goto(t, IF drainActive THEN AfterTurn(t) ELSE "permit")
    /\ UNCHANGED <<slot, token, drainActive, ingressStopped, lifecycle, mail,
                   rotations, cur, inDrain, result, ledger>>

(* drain_allowed: not after the ingress stopped, nor after a cancelled turn. *)
PermitDrain(t) ==
    /\ pc[t] = "permit"
    /\ Goto(t, IF /\ ~ingressStopped
                  /\ result[t] = "cancelled" => DrainAfterCancel
               THEN "drain" ELSE AfterTurn(t))
    /\ UNCHANGED <<slot, token, drainActive, ingressStopped, lifecycle, mail,
                   rotations, cur, inDrain, result, ledger>>

(* Mutants: the loop head forgets the ingress barrier, or the turn slot.     *)
MayDrainStopped == Open /\ phase = "idle"
MayDrainBusy == Open /\ ~ingressStopped

(* The tests shared by _drain_prompt_queue's entry and its loop head. *)
MayDrain == Open /\ ~ingressStopped /\ phase = "idle"

(* Mutant: a second drainer is let in.                                       *)
MayDrainToo == MayDrain

(* _drain_prompt_queue's entry also refuses a second drainer. *)
MayEnterDrain == MayDrain /\ ~drainActive

(* _drain_prompt_queue, entry: become the one drainer. *)
EnterDrain(t) ==
    /\ pc[t] = "drain"
    /\ \/ /\ MayEnterDrain
          /\ drainActive' = TRUE
          /\ inDrain' = [inDrain EXCEPT ![t] = TRUE]
          /\ result' = [result EXCEPT ![t] = "none"]
          /\ Goto(t, "loop")
       \/ /\ ~MayEnterDrain
          /\ Goto(t, AfterTurn(t))
          /\ UNCHANGED <<drainActive, inDrain, result>>
    /\ UNCHANGED <<slot, token, ingressStopped, lifecycle, mail, rotations,
                   cur, ledger>>

(* _drain_prompt_queue, loop head: pop the next prompt and reserve the slot. *)
DrainNext(t) ==
    /\ pc[t] = "loop"
    /\ MayDrain
    /\ queue # <<>>
    /\ queue' = Tail(queue)
    /\ BeginTurn(t, Head(queue))
    /\ UNCHANGED <<drainActive, ingressStopped, lifecycle, interjections,
                   rotations, inDrain, result, fresh, accepted, submitted,
                   cleared, ended, toldQueued, delivered>>

(* _drain_prompt_queue, loop head: nothing to pop, or not ours any more. *)
DrainStops(t) ==
    /\ pc[t] = "loop"
    /\ ~MayDrain \/ queue = <<>>
    /\ Goto(t, "leave")
    /\ UNCHANGED <<slot, token, drainActive, ingressStopped, lifecycle, mail,
                   rotations, cur, inDrain, result, ledger>>

(* _drain_prompt_queue, finally: a critical section of its own. *)
LeaveDrain(t) ==
    /\ pc[t] = "leave"
    /\ drainActive' = FALSE
    /\ inDrain' = [inDrain EXCEPT ![t] = FALSE]
    /\ Goto(t, "idle")
    /\ UNCHANGED <<slot, token, ingressStopped, lifecycle, mail, rotations,
                   cur, result, ledger>>

-----------------------------------------------------------------------------
(* Cancellation, rotation and the ingress barrier *)

(* Set the flag and the current token together. *)
FireToken ==
    /\ cancelRequested' = TRUE
    /\ firedTokens' = firedTokens \cup {cancelEvent}
    /\ UNCHANGED cancelEvent

(* cancel(): any thread, at any time. *)
Cancel ==
    /\ FireToken
    /\ UNCHANGED <<slot, drainActive, ingressStopped, lifecycle, mail,
                   rotations, locals, ledger>>

(* stop_prompt_ingress(clear_queue=...). *)
StopPromptIngress ==
    /\ ingressStopped' = TRUE
    /\ \E clear \in BOOLEAN :
          /\ queue' = IF clear THEN <<>> ELSE queue
          /\ cleared' = IF clear THEN cleared \cup ToSet(queue) ELSE cleared
    /\ UNCHANGED <<slot, token, drainActive, lifecycle, interjections,
                   rotations, locals, fresh, accepted, submitted, started,
                   ended, toldQueued, delivered>>

(* new_session: refused while a turn runs; the lock is held throughout.      *)
(* Neither the queue nor the interjection buffer is touched.                 *)
NewSession(t) ==
    /\ pc[t] = "idle"
    /\ Open
    /\ SlotFree
    /\ rotations < MaxRotations
    /\ rotations' = rotations + 1
    /\ UNCHANGED <<slot, token, drainActive, ingressStopped, lifecycle, mail,
                   locals, ledger>>

-----------------------------------------------------------------------------
(* Close *)

(* Mutant: the close does not cancel the running turn.                       *)
MarkClosingOnly ==
    /\ closing' = TRUE
    /\ UNCHANGED token

(* close(), the locked block: the first caller starts the close and fires    *)
(* the current token.                                                        *)
MarkClosing ==
    IF closing
    THEN UNCHANGED <<closing, token>>
    ELSE closing' = TRUE /\ FireToken

(* Mutant: the close does not wait for the running turn.                     *)
NeverWaits == FALSE

(* close() waits for _turn_done before it elects the finalizer. *)
MustWait == phase = "turn_running"

(* close() by a thread that is not running the turn. *)
Close(t) ==
    /\ pc[t] = "idle"
    /\ ~closed
    /\ MarkClosing
    /\ Goto(t, IF MustWait THEN "await_turn" ELSE "elect")
    /\ UNCHANGED <<slot, drainActive, ingressStopped, closed, closeFinalizing,
                   closeDone, elected, tearing, torn, mail, rotations, cur,
                   inDrain, result, ledger>>

(* close() from inside the turn (a tool, a hook, a turn listener): it only   *)
(* marks the close, the turn's finally owns the teardown.                    *)
CloseInTurn(t) ==
    /\ InTurn(t)
    /\ turnThread = t
    /\ ~closing
    /\ MarkClosing
    /\ UNCHANGED <<slot, drainActive, ingressStopped, closed, closeFinalizing,
                   closeDone, elected, tearing, torn, mail, rotations, locals,
                   ledger>>

(* close() waited for _turn_done. *)
TurnAwaited(t) ==
    /\ pc[t] = "await_turn"
    /\ turnDone
    /\ Goto(t, "elect")
    /\ UNCHANGED <<slot, token, drainActive, ingressStopped, lifecycle, mail,
                   rotations, cur, inDrain, result, ledger>>

(* close(timeout_s): either wait may run out; the close is only deferred. *)
CloseTimesOut(t) ==
    /\ pc[t] \in {"await_turn", "await_close"}
    /\ Goto(t, "idle")
    /\ UNCHANGED <<slot, token, drainActive, ingressStopped, lifecycle, mail,
                   rotations, cur, inDrain, result, ledger>>

(* Mutant: an owner is elected while another one is at work.                 *)
OwnerUnlessClosed == closed

(* The teardown has an owner already, or is over. *)
HasOwner == closed \/ closeFinalizing

(* _start_close_finalizer: elect one owner; the slot becomes CLOSED. *)
StartCloseFinalizer ==
    \/ /\ ~HasOwner
       /\ closeFinalizing' = TRUE
       /\ phase' = "closed"
       /\ elected' = elected + 1
    \/ /\ HasOwner
       /\ UNCHANGED <<closeFinalizing, phase, elected>>

(* close() elects and goes on to wait for _close_done. *)
ElectFromClose(t) ==
    /\ pc[t] = "elect"
    /\ StartCloseFinalizer
    /\ Goto(t, "await_close")
    /\ UNCHANGED <<turnThread, turnDone, token, drainActive, ingressStopped,
                   closing, closed, closeDone, tearing, torn, mail, rotations,
                   cur, inDrain, result, ledger>>

(* The turn that saw the close elects and goes its way. *)
ElectFromTurn(t) ==
    /\ pc[t] = "finalize"
    /\ StartCloseFinalizer
    /\ Goto(t, AfterTurn(t))
    /\ UNCHANGED <<turnThread, turnDone, token, drainActive, ingressStopped,
                   closing, closed, closeDone, tearing, torn, mail, rotations,
                   cur, inDrain, result, ledger>>

(* The finalizer thread starts and enters kernel.close(). *)
FinalizerBegins ==
    /\ elected > 0
    /\ elected' = elected - 1
    /\ tearing' = tearing + 1
    /\ UNCHANGED <<slot, token, drainActive, ingressStopped, closing, closed,
                   closeFinalizing, closeDone, torn, mail, rotations, locals,
                   ledger>>

(* Mutant: the callers that wait for _close_done are not woken.              *)
ClosedSilently == closed' = TRUE /\ UNCHANGED closeDone

(* Closed for good, and whoever waits for it is woken. *)
SignalClosed == closed' = TRUE /\ closeDone' = TRUE

(* kernel.close() is over: the locked block of _run_close_finalizer. *)
FinalizerEnds ==
    /\ tearing > 0
    /\ tearing' = tearing - 1
    /\ torn' = torn + 1
    /\ SignalClosed
    /\ closing' = TRUE
    /\ closeFinalizing' = FALSE
    /\ phase' = "closed"
    /\ UNCHANGED <<turnThread, turnDone, token, drainActive, ingressStopped,
                   elected, mail, rotations, locals, ledger>>

(* close() waited for _close_done. *)
CloseAwaited(t) ==
    /\ pc[t] = "await_close"
    /\ closeDone
    /\ Goto(t, "idle")
    /\ UNCHANGED <<slot, token, drainActive, ingressStopped, lifecycle, mail,
                   rotations, cur, inDrain, result, ledger>>

-----------------------------------------------------------------------------
(* What a thread does once it is inside a session call or a turn, except the *)
(* runner's own work.                                                        *)
ThreadStep(t) ==
    \/ StartTurn(t) \/ ReleaseTurn(t)
    \/ EnqueuePush(t) \/ InterjectPush(t)
    \/ ReadDrainActive(t) \/ PermitDrain(t)
    \/ EnterDrain(t) \/ DrainNext(t) \/ DrainStops(t) \/ LeaveDrain(t)
    \/ TurnAwaited(t) \/ ElectFromClose(t) \/ ElectFromTurn(t) \/ CloseAwaited(t)

(* What a host may ask for. *)
HostCall(t) ==
    \/ \E p \in Prompts :
          \/ HandlePrompt(t, p) \/ HandlePromptBusy(t, p)
          \/ SubmitPrompt(t, p) \/ EnqueueCheck(t, p) \/ InterjectCheck(t, p)
    \/ NewSession(t) \/ Close(t) \/ CloseInTurn(t)

Next ==
    \/ \E t \in Threads : \/ HostCall(t)
                          \/ ThreadStep(t)
                          \/ DrainInterjections(t)
                          \/ RunnerReturns(t)
                          \/ CloseTimesOut(t)
    \/ Cancel
    \/ StopPromptIngress
    \/ FinalizerBegins
    \/ FinalizerEnds

Spec == Init /\ [][Next]_vars

(* Threads are scheduled; a runner whose token fired returns (the agent loop *)
(* polls it at every safe point and the transport between chunks), while an  *)
(* uncancelled runner may work for ever; kernel.close() bounds every join.   *)
Fairness ==
    /\ \A t \in Threads :
          /\ WF_vars(ThreadStep(t))
          /\ WF_vars(RunnerReturns(t) /\ cancelEvent \in firedTokens)
    /\ WF_vars(FinalizerBegins)
    /\ WF_vars(FinalizerEnds)

FairSpec == Spec /\ Fairness
-----------------------------------------------------------------------------
(* Safety *)

(* At most one thread is in a turn, it is the one the session names as the   *)
(* turn's thread, the phase says so, and _turn_done is down: nobody who      *)
(* waits on the barrier (close, wait_for_turn) passes it under a turn.       *)
SingleTurn ==
    \A t \in Threads : InTurn(t) => /\ phase = "turn_running"
                                    /\ turnThread = t
                                    /\ ~turnDone

(* kernel.close() tears the runner's store, memory and MCP clients down only *)
(* while no thread is in a turn, whatever way the close was reached (idle,   *)
(* deferred by a timeout, from inside the turn).                             *)
TeardownBarrier ==
    tearing + torn > 0 => \A t \in Threads : ~InTurn(t)

(* However many threads close the session, kernel.close() has one owner.     *)
OneTeardown == elected + tearing + torn <= 1

(* Whoever closes, teardown is begun once and under no turn.                 *)
TeardownIsSafe == TeardownBarrier /\ OneTeardown

(* The drain flag is up exactly while one thread is in its drain loop.       *)
DrainOwnership ==
    /\ drainActive <=> \E t \in Threads : inDrain[t]
    /\ \A t, u \in Threads : inDrain[t] /\ inDrain[u] => t = u

(* The turn slot and the drain of the queue each have one owner.             *)
TurnsAreExclusive == SingleTurn /\ DrainOwnership

(* The two ways to ask "is this turn cancelled", the flag _run_started_turn  *)
(* reads and the token the runner and the transport read, never disagree.    *)
CancelFlagMatchesToken == cancelRequested <=> cancelEvent \in firedTokens

(* What waits is the end of what was accepted, and everything before it ran  *)
(* or was discarded by a stop_prompt_ingress, never both; what ran, ran once *)
(* and in the order it was accepted: no loss, duplicate or reordering,       *)
(* whichever threads pushed and drained.                                     *)
Taken == Len(accepted) - Len(queue)
QueueLedger ==
    /\ Taken >= 0 /\ \A i \in DOMAIN queue : queue[i] = accepted[Taken + i]
    /\ \A a \in 1 .. Taken : accepted[a] \in cleared <=> accepted[a] \notin ToSet(started)
    /\ \A i \in DOMAIN started, a \in DOMAIN accepted : started[i] = accepted[a] =>
          /\ a <= Taken
          /\ \A j \in 1 .. i - 1, b \in DOMAIN accepted : started[j] = accepted[b] => b < a

(* A prompt answered "queued as interjection" is never also run as a turn,   *)
(* nor parked for one ("would double-run").                                  *)
NoDoubleRun ==
    (toldQueued \cup ToSet(interjections) \cup delivered)
        \cap (ToSet(started) \cup ToSet(queue)) = {}

(* Every accepted prompt goes one way, once and in its order, to the model;  *)
(* every variable keeps its type on the way.                                 *)
PromptsGoOneWay == TypeOK /\ QueueLedger /\ NoDoubleRun

(* Once the host stopped the ingress or began to close, no prompt takes the  *)
(* turn slot any more, whichever thread had looked at the session before.    *)
NoTurnAfterBarrier == ingressStopped \/ closing => started' = started

(* Once a close began, no runner starts: a turn that had only reserved the   *)
(* slot ends without running.                                                *)
NoRunnerAfterClose ==
    closing => \A t \in Threads : pc'[t] = "run" => pc[t] = "run"

(* A fired token stays fired, so a transport worker that outlived its turn   *)
(* never sees its cancellation withdrawn; and no step fires a token other    *)
(* than the latest turn's.                                                   *)
TokensArePermanent ==
    /\ firedTokens \subseteq firedTokens'
    /\ firedTokens' \subseteq firedTokens \cup {cancelEvent}

(* A cancellation is seen by everybody who polls for it, and stays.          *)
CancelIsSeen == [][CancelFlagMatchesToken' /\ TokensArePermanent]_vars

(* The session id rotates only between turns and never after a close began:  *)
(* no runner archives half a turn under each id.                             *)
RotationBetweenTurns ==
    rotations' # rotations =>
        /\ elected + tearing + torn = 0
        /\ \A t \in Threads : ~InTurn(t)

(* What a stop of the ingress or a close forbids never happens after it.     *)
BarrierHolds == [][NoTurnAfterBarrier /\ NoRunnerAfterClose /\ RotationBetweenTurns]_vars

-----------------------------------------------------------------------------
(* Refinement: the session implements SerialSession *)

(* A prompt that a call looked at but has not placed is unseen, a turn runs  *)
(* from its reservation to its release, and the resources go with the first  *)
(* entry into kernel.close().                                                *)
Unseen == fresh \cup {cur[t] : t \in {u \in Threads : InCall(u)}}
Running == {cur[t] : t \in {u \in Threads : InTurn(u)}}
Life == IF tearing + torn > 0 THEN "torn" ELSE IF closing THEN "closing" ELSE "open"

Serial == INSTANCE SerialSession WITH
    unseen  <- Unseen,
    line    <- queue,
    running <- Running,
    done    <- ended,
    noted   <- ToSet(interjections),
    heard   <- delivered,
    life    <- Life

(* Every interleaving of the session's critical sections and unlocked reads  *)
(* looks to the host like the one-prompt-at-a-time session.                  *)
ImplementsSerialSession == Serial!Spec

(* Under FairSpec also its liveness: a closing session is torn down.         *)
ImplementsFairSerialSession == Serial!FairSpec

-----------------------------------------------------------------------------
(* Liveness, under FairSpec *)

(* Every caller of close() returns. *)
CloseReturns ==
    \A t \in Threads :
        pc[t] \in {"await_turn", "elect", "await_close"} ~> pc[t] = "idle"

(* A turn whose token fired ends. *)
CancelEndsTurn ==
    \A p \in Prompts : p \in firedTokens ~> p \in ended

(* Nobody waits for ever for a close or for a cancelled turn.                *)
WaitsEnd == CloseReturns /\ CancelEndsTurn

-----------------------------------------------------------------------------
(* What the documentation says, and the code does not do *)

(* submit_prompt's docstring: "a busy session parks the prompt for the next  *)
(* turn; an idle session consumes it immediately".  When every thread has    *)
(* left the session, nothing was cancelled and ingress is open, no submitted *)
(* prompt is still parked.                                                   *)
SubmittedPromptIsConsumed ==
    AllIdle /\ Open /\ ~ingressStopped /\ firedTokens = {} =>
        submitted \cap ToSet(queue) = {}

=============================================================================
