------------------------------- MODULE CodexTurn -------------------------------
(***************************************************************************)
(* One completion through a `codex app-server` process                     *)
(* (src/src/codedoggy/model/codex_app_server.py: CodexAppServerRpc,        *)
(* CodexAppServerSession.run_turn, CodexAppServerClient._complete_owned).  *)
(*                                                                         *)
(* The process is external: it answers calls late or never, streams        *)
(* notifications, asks for approvals, and may die at any point with output *)
(* of its still unread.  A call that finds the pipe broken raises past     *)
(* every handler of run_turn; the process must be gone all the same.       *)
(***************************************************************************)
EXTENDS Naturals, Sequences, SequencesExt

CONSTANTS Notes,      \* bound: notifications of the server
          Asks,       \* bound: its requests
          Drain       \* how many notifications are read before an answer

ASSUME CodexAssumption == Notes \in Nat /\ Asks \in Nat /\ Drain \in Nat \ {0}

Startup == <<"initialize", "thread/start", "turn/start">>
Silent == "none"

VARIABLES
    \* the server
    process,     \* none, up, dead
    served,      \* the turn on the server: none, running, or its status once over
    said,        \* the number of its last text
    notes,       \* _notifications: text, tool, or aborted with a number; over with a status
    asks,        \* _server_requests, by number
    reply,       \* to the call under way: none, ok, error
    \* run_turn
    step,        \* off, call, waiting, loop, ended, closing, done
    call,        \* the call to make or under way
    seen,        \* final_text, by number
    afterTool,   \* last_tool_completion_at is set
    over,        \* turn_complete
    completed, interrupted, failed,   \* TurnResult; failed: error is set
    late,        \* the deadline passed
    stopped,     \* cancel_event
    result       \* of complete: none, answer, cancelled, error, raised

(* History: read by the properties only. *)
VARIABLES asked, answered,     \* how many requests were made; which were answered
          lastText             \* the number of the server's last text

spoken == <<said, notes, lastText>>
asking == <<asks, asked, answered>>
flags == <<over, completed, interrupted, failed>>
env == <<late, stopped>>
codex == <<process, served, spoken, asking, reply, step, call, seen, afterTool, flags,
           result, env>>

CodexInit ==
    /\ process = "none" /\ served = "none" /\ said = 0 /\ notes = <<>> /\ asks = <<>>
    /\ reply = Silent /\ step = "off" /\ call = "initialize" /\ seen = 0
    /\ afterTool = FALSE /\ over = FALSE /\ completed = FALSE /\ interrupted = FALSE
    /\ failed = FALSE /\ late = FALSE /\ stopped = FALSE /\ result = Silent
    /\ asked = 0 /\ answered = <<>> /\ lastText = 0

-----------------------------------------------------------------------------
(* The server and the clock *)

ServerReplies(r) ==
    /\ process = "up" /\ step = "waiting" /\ reply = Silent
    /\ reply' = r
    /\ served' = IF call = "turn/start" /\ r = "ok" THEN "running" ELSE served
    /\ UNCHANGED <<process, spoken, asking, step, call, seen, afterTool, flags,
                   result, env>>

ServerSays(kind) ==
    /\ process = "up" /\ served = "running" /\ said < Notes
    /\ said' = said + 1
    /\ notes' = Append(notes, [kind |-> kind, n |-> said'])
    /\ lastText' = IF kind = "tool" THEN lastText ELSE said'
    /\ UNCHANGED <<process, served, asking, reply, step, call, seen, afterTool,
                   flags, result, env>>

ServerAsks ==
    /\ process = "up" /\ served = "running" /\ asked < Asks
    /\ asked' = asked + 1 /\ asks' = Append(asks, asked')
    /\ UNCHANGED <<process, served, spoken, answered, reply, step, call, seen,
                   afterTool, flags, result, env>>

ServerFinishes(status) ==
    /\ process = "up" /\ served = "running" /\ served' = status
    /\ notes' = Append(notes, [kind |-> "over", status |-> status])
    /\ UNCHANGED <<process, said, lastText, asking, reply, step, call, seen,
                   afterTool, flags, result, env>>

ServerDies ==                    \* what it wrote stays readable
    /\ process = "up" /\ process' = "dead"
    /\ UNCHANGED <<served, spoken, asking, reply, step, call, seen, afterTool, flags,
                   result, env>>

DeadlinePasses ==
    /\ step = "loop" /\ ~late /\ late' = TRUE
    /\ UNCHANGED <<process, served, spoken, asking, reply, step, call, seen,
                   afterTool, flags, result, stopped>>

CancelCompletion ==
    /\ step # "off" /\ ~stopped /\ stopped' = TRUE
    /\ UNCHANGED <<process, served, spoken, asking, reply, step, call, seen,
                   afterTool, flags, result, late>>

-----------------------------------------------------------------------------
(* Calls *)

Spawn ==
    /\ step = "off" /\ step' = "call" /\ process' = "up"
    /\ UNCHANGED <<served, spoken, asking, reply, call, seen, afterTool, flags,
                   result, env>>
SpawnFails ==                    \* no binary, or OSError: nothing to close
    /\ step = "off" /\ step' = "ended" /\ failed' = TRUE
    /\ UNCHANGED <<process, served, spoken, asking, reply, call, seen, afterTool,
                   over, completed, interrupted, result, env>>

Send ==
    /\ step = "call" /\ process = "up" /\ step' = "waiting"
    /\ UNCHANGED <<process, served, spoken, asking, reply, call, seen, afterTool,
                   flags, result, env>>

(* BrokenPipeError becomes a RuntimeError that nothing in run_turn handles. *)
SendRaises ==
    /\ step = "call" /\ process = "dead"
    /\ step' = "closing" /\ result' = "raised"
    /\ UNCHANGED <<process, served, spoken, asking, reply, call, seen, afterTool,
                   flags, env>>

Ahead == CASE call = "initialize" -> <<"call", "thread/start">>
           [] call = "thread/start" -> <<"call", "turn/start">>
           [] call = "turn/start" -> <<"loop", call>>
           [] OTHER -> <<"ended", call>>
Received ==
    /\ step = "waiting" /\ reply = "ok" /\ reply' = Silent
    /\ step' = Ahead[1] /\ call' = Ahead[2]
    /\ UNCHANGED <<process, served, spoken, asking, seen, afterTool, flags, result,
                   env>>

CallWaitsForever ==
    /\ step = "waiting" /\ (reply = "error" \/ process = "dead")
    /\ step' = "ended" /\ failed' = (failed \/ call \in ToSet(Startup)) /\ reply' = Silent
    /\ UNCHANGED <<process, served, spoken, asking, call, seen, afterTool, over,
                   completed, interrupted, result, env>>
CallFails ==                     \* an error, or queue.Empty; an interrupt's is only logged
    /\ step = "waiting" /\ reply # "ok"
    /\ step' = "ended" /\ failed' = (failed \/ call \in ToSet(Startup)) /\ reply' = Silent
    /\ UNCHANGED <<process, served, spoken, asking, call, seen, afterTool, over,
                   completed, interrupted, result, env>>

-----------------------------------------------------------------------------
(* The loop of run_turn: its tests in their order, one pass per step *)

Interrupt == step' = "call" /\ call' = "turn/interrupt"
InLoop == step = "loop" /\ ~over

LeaveLate ==
    /\ InLoop /\ late
    /\ Interrupt /\ interrupted' = TRUE /\ failed' = TRUE
    /\ UNCHANGED <<process, served, spoken, asking, reply, seen, afterTool, over,
                   completed, result, env>>
LeaveCancelled ==
    /\ InLoop /\ ~late /\ stopped
    /\ Interrupt /\ interrupted' = TRUE
    /\ UNCHANGED <<process, served, spoken, asking, reply, seen, afterTool, over,
                   completed, failed, result, env>>
LeaveDead ==                     \* the code behind the loop interrupts this turn too
    /\ InLoop /\ ~late /\ ~stopped /\ process = "dead"
    /\ Interrupt /\ interrupted' = TRUE /\ failed' = TRUE
    /\ UNCHANGED <<process, served, spoken, asking, reply, seen, afterTool, over,
                   completed, result, env>>
LeaveQuiet ==                    \* nothing for 90 s after a tool
    /\ InLoop /\ ~late /\ ~stopped /\ process = "up" /\ afterTool
    /\ Interrupt /\ interrupted' = TRUE /\ failed' = TRUE
    /\ UNCHANGED <<process, served, spoken, asking, reply, seen, afterTool, over,
                   completed, result, env>>

Working == InLoop /\ ~late /\ ~stopped /\ process = "up"
TextsIn(q) == {i \in DOMAIN q : q[i].kind \in {"text", "aborted"}}
LastText(q) == IF TextsIn(q) = {} THEN seen ELSE q[Max(TextsIn(q))].n
Status(m) == IF m.kind = "over" THEN m.status ELSE Silent
Aborts(q) == \E i \in DOMAIN q : q[i].kind = "aborted"
Some(n) == SubSeq(notes, 1, IF Len(notes) < n THEN Len(notes) ELSE n)

AnswerUnread ==
    /\ Working /\ asks # <<>>
    /\ LET drained == Some(Drain) IN
         /\ notes' = SubSeq(notes, Len(drained) + 1, Len(notes))
         /\ over' = Aborts(drained)
         /\ interrupted' = (interrupted \/ over') /\ failed' = (failed \/ over')
    /\ asks' = Tail(asks) /\ answered' = Append(answered, Head(asks))
    /\ afterTool' = FALSE
    /\ UNCHANGED <<process, served, said, lastText, asked, reply, step, call, seen,
                   completed, result, env>>
(* A request is answered behind the notifications that came before it; a   *)
(* status among them is read, and nothing is done about it.                *)
AnswerAsk ==
    /\ Working /\ asks # <<>>
    /\ LET drained == Some(Drain) IN
         /\ notes' = SubSeq(notes, Len(drained) + 1, Len(notes))
         /\ seen' = LastText(drained)
         /\ over' = Aborts(drained)
         /\ interrupted' = (interrupted \/ over') /\ failed' = (failed \/ over')
    /\ asks' = Tail(asks) /\ answered' = Append(answered, Head(asks))
    /\ afterTool' = FALSE
    /\ UNCHANGED <<process, served, said, lastText, asked, reply, step, call,
                   completed, result, env>>

AnswerRaises ==                  \* the pipe broke since is_alive was asked
    /\ Working /\ asks # <<>>
    /\ process' = "dead" /\ step' = "closing" /\ result' = "raised"
    /\ UNCHANGED <<served, spoken, asking, reply, call, seen, afterTool, flags, env>>

TakeNote ==
    /\ Working /\ asks = <<>> /\ notes # <<>>
    /\ LET m == Head(notes) IN
         /\ seen' = LastText(<<m>>)
         /\ afterTool' = (m.kind = "tool" \/ (afterTool /\ m.kind = "over"))
         /\ over' = (m.kind \in {"aborted", "over"})
         /\ completed' = (Status(m) = "completed")
         /\ interrupted' = (m.kind = "aborted" \/ Status(m) = "interrupted")
         /\ failed' = (m.kind = "aborted" \/ Status(m) = "failed")
    /\ notes' = Tail(notes)
    /\ UNCHANGED <<process, served, said, lastText, asking, reply, step, call,
                   result, env>>

TurnIsOver ==
    /\ step = "loop" /\ over /\ step' = "ended"
    /\ UNCHANGED <<process, served, spoken, asking, reply, call, seen, afterTool,
                   flags, result, env>>

-----------------------------------------------------------------------------
(* _complete_owned *)

Judge ==
    /\ step = "ended" /\ step' = "closing"
    /\ result' = CASE stopped -> "cancelled"
                   [] ~stopped /\ (failed \/ interrupted \/ ~completed) -> "error"
                   [] OTHER -> "answer"
    /\ UNCHANGED <<process, served, spoken, asking, reply, call, seen, afterTool,
                   flags, env>>

CloseUnlessFailed ==
    /\ step = "closing" /\ step' = "done"
    /\ process' = IF process = "up" /\ result # "error" THEN "dead" ELSE process
    /\ UNCHANGED <<served, spoken, asking, reply, call, seen, afterTool, flags,
                   result, env>>
CloseProcess ==                  \* session.close: terminate, 3 s, kill
    /\ step = "closing" /\ step' = "done"
    /\ process' = IF process = "up" THEN "dead" ELSE process
    /\ UNCHANGED <<served, spoken, asking, reply, call, seen, afterTool, flags,
                   result, env>>

CodexNext ==
    \/ \E r \in {"ok", "error"} : ServerReplies(r)
    \/ \E kind \in {"text", "tool", "aborted"} : ServerSays(kind)
    \/ \E status \in {"completed", "failed", "interrupted"} : ServerFinishes(status)
    \/ ServerAsks \/ ServerDies \/ DeadlinePasses \/ CancelCompletion
    \/ Spawn \/ SpawnFails \/ Send \/ SendRaises \/ Received \/ CallFails
    \/ LeaveLate \/ LeaveCancelled \/ LeaveDead \/ LeaveQuiet
    \/ AnswerAsk \/ AnswerRaises \/ TakeNote \/ TurnIsOver \/ Judge \/ CloseProcess

(* The client runs, its timeouts end, and the clock goes on; the server    *)
(* owes nothing.                                                           *)
CodexFairness ==
    /\ WF_codex(Send) /\ WF_codex(SendRaises) /\ WF_codex(Received) /\ WF_codex(CallFails)
    /\ WF_codex(DeadlinePasses) /\ WF_codex(LeaveLate)
    /\ WF_codex(TurnIsOver) /\ WF_codex(Judge) /\ WF_codex(CloseProcess)

-----------------------------------------------------------------------------
(* The queues hold what was sent and not taken, and a turn that runs knows *)
(* its id.                                                                 *)
CodexTypeOK ==
    /\ process \in {"none", "up", "dead"} /\ reply \in {Silent, "ok", "error"}
    /\ step \in {"off", "call", "waiting", "loop", "ended", "closing", "done"}
    /\ call \in ToSet(Startup) \cup {"turn/interrupt"}
    /\ seen <= said /\ Len(notes) <= said + 1
    /\ answered \o asks = [i \in 1 .. asked |-> i]
    /\ result = Silent <=> step \notin {"closing", "done"}

(* An answer is given only for a turn the server completed, and is its     *)
(* last text, wherever the notification that carried it was read; a turn   *)
(* that was aborted, cancelled or cut off is never passed off as one.      *)
AnswerIsEarned ==
    result = "answer" => served = "completed" /\ seen = lastText

(* However the completion ends, no app-server is left behind.              *)
NoServerIsLeft == step = "done" => process # "up"

(* A completion ends although the server hangs or floods it.               *)
CompletionEnds == step # "off" ~> step = "done"

CodexIsFaithful == CodexTypeOK /\ AnswerIsEarned /\ NoServerIsLeft
=============================================================================
