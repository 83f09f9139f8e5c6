------------------------------- MODULE AgentLoop -------------------------------
(***************************************************************************)
(* One turn of the agent loop (src/src/codedoggy/turn/loop.py,             *)
(* run_agent_loop) with its two-phase tool pipeline                        *)
(* (orchestration/tool_pipeline.py, path_lock.py) and the gate against a   *)
(* premature end (incomplete_work.py).                                     *)
(*                                                                         *)
(* The loop samples the model, prechecks all calls of the sample, runs the *)
(* approved ones on a thread pool under path locks, writes the results     *)
(* back in the model's order and samples again.  Cancellation,             *)
(* interjections and the end of background work arrive at any moment.      *)
(* messages is the end of the transcript, from the last assistant message  *)
(* on; what lies before it, folding and carrying over are LiveHistory's.   *)
(* An overflow's compaction either makes progress or does not.             *)
(***************************************************************************)
EXTENDS ToolPairs

CONSTANTS Calls,           \* tool call ids
          Batches,         \* lists of calls a sample may make
          LockOf,          \* path key of each call that writes; NoLock
          NoLock,
          Mutating,        \* calls is_mutating_action holds of
          Workers,         \* max_workers of the pool
          Limits,          \* the values of max_turns to try; NoLimit: None
          NoLimit,
          MaxResubmits,    \* MAX_OVERFLOW_RESUBMITS
          MaxInterjections,\* bound on interjections
          Todo,            \* the open work only tools close
          Elsewhere        \* children and shell tasks: they also end alone

ASSUME LoopAssumption ==
    /\ Batches \subseteq Seq(Calls) /\ DOMAIN LockOf = Calls
    /\ Mutating \subseteq Calls
    /\ Workers \in Nat \ {0} /\ MaxResubmits \in Nat
    /\ MaxInterjections \in Nat
    /\ NoLimit \notin Nat /\ Limits \subseteq Nat \cup {NoLimit}

VARIABLES
    pc, limit, rounds, resubmits,
    messages,    \* from the last assistant message on
    calls,       \* batch_calls
    verdicts,    \* phase1.prechecks, so far
    outcome,     \* phase1.outcome, so far
    job,         \* what the pool did with each call of the batch
    aborting,    \* abort_reason is not None
    paused,      \* extra["writes_paused"]
    cancelled,   \* the turn's cancellation token
    buffer,      \* interjection buffer: numbers in order of arrival
    open,        \* open work incomplete_work_reasons would report
    result       \* exit_reason; "none" while the turn runs

(* History: read by the properties only, except pushed. *)
VARIABLES pushed, heard           \* interjections made, and put in messages

batch == <<calls, verdicts, outcome, job, aborting>>
outside == <<cancelled, buffer, pushed, heard, open>>
vars == <<pc, limit, rounds, resubmits, messages, batch, paused, outside, result>>

Work == {Todo} \cup Elsewhere
Stopped == {"reject", "cancelled", "followup"}   \* hard outcomes of phase 1
Settled == {"none", "skipped", "ran"}
Judgements == {"approve", "deny", "missing", "reject"}

Init ==
    /\ pc = "head" /\ limit \in Limits /\ rounds = 0 /\ resubmits = 0
    /\ messages = <<User("prompt")>>
    /\ calls = <<>> /\ verdicts = <<>> /\ outcome = "continue" /\ job = <<>>
    /\ aborting = FALSE /\ paused = FALSE /\ cancelled = FALSE
    /\ buffer = <<>> /\ pushed = 0 /\ heard = <<>>
    /\ open \in SUBSET Work /\ result = "none"

-----------------------------------------------------------------------------
(* Pieces of the transcript *)

Framed(b) == [k \in DOMAIN b |-> User("interjection")]
ResultByVerdict(j) ==
    Tool(calls[j], IF verdicts[j] = "approve" THEN "ran" ELSE "refused")
ResultFor(j) ==
    Tool(calls[j], CASE job[j] = "ran" -> "ran"
                     [] job[j] = "skipped" -> "skipped"
                     [] OTHER -> "refused")
NoneUnrun == <<>>
Unrun == [j \in DOMAIN calls |-> Tool(calls[j], "did not run")]

(* _drain_interjections_into_messages, onto ms *)
DrainOne(ms) ==
    /\ messages' = ms \o Framed(buffer)
    /\ heard' = heard \o (IF buffer = <<>> THEN <<>> ELSE <<Head(buffer)>>)
    /\ buffer' = <<>>
Drain(ms) ==
    /\ messages' = ms \o Framed(buffer)
    /\ heard' = heard \o buffer
    /\ buffer' = <<>>

(* _finish; on_turn_end may leave notes *)
Finish(reason, ms) ==
    /\ pc' = "over" /\ result' = reason
    /\ \E notes \in BOOLEAN :
         messages' = IF notes THEN Append(ms, User("notes")) ELSE ms

-----------------------------------------------------------------------------
(* The head of the loop and the sample *)

Head_ ==
    /\ pc = "head"
    /\ IF cancelled
       THEN /\ Finish("cancelled", messages)
            /\ UNCHANGED <<buffer, heard>>
       ELSE IF limit # NoLimit /\ rounds >= limit
       THEN /\ Finish("max_turns", messages)
            /\ UNCHANGED <<buffer, heard>>
       ELSE /\ Drain(messages)
            /\ pc' = "sample" /\ UNCHANGED result
    /\ UNCHANGED <<limit, rounds, resubmits, batch, paused, cancelled, pushed, open>>

SampleFenced ==                  \* cancelled stream, late error or late sample
    /\ pc = "sample" /\ cancelled
    /\ Finish("cancelled", messages)
    /\ UNCHANGED <<limit, rounds, resubmits, batch, paused, outside>>

StreamStopped ==                 \* the host's on_sample_delta said stop
    /\ pc = "sample"
    /\ Finish("cancelled", messages)
    /\ UNCHANGED <<limit, rounds, resubmits, batch, paused, outside>>

SampleFails ==                   \* also an overflow without (further) remedy
    /\ pc = "sample" /\ ~cancelled
    /\ Finish("error", messages)
    /\ UNCHANGED <<limit, rounds, resubmits, batch, paused, outside>>

OverflowsAgain ==
    /\ pc = "sample" /\ ~cancelled
    /\ resubmits' = resubmits + 1
    /\ pc' = "head"
    /\ UNCHANGED <<limit, rounds, messages, batch, paused, outside, result>>
SampleOverflows ==               \* compact and resubmit
    /\ pc = "sample" /\ ~cancelled /\ resubmits < MaxResubmits
    /\ resubmits' = resubmits + 1
    /\ pc' = "head"
    /\ UNCHANGED <<limit, rounds, messages, batch, paused, outside, result>>

NotCounted == rounds
Counted == IF limit = NoLimit THEN 0 ELSE rounds + 1
SampleReturns(cs) ==             \* the assistant message, then after_sample
    /\ pc = "sample" /\ ~cancelled
    /\ rounds' = Counted
    /\ resubmits' = 0
    /\ LET ms == <<Assistant(cs, "prose")>>
       IN \/ /\ messages' = ms
             /\ pc' = IF cs = <<>> THEN "gate" ELSE "prepare"
             /\ UNCHANGED result
          \/ Finish("aborted", ms)
          \/ /\ pc' = "over" /\ result' = "raised" /\ messages' = ms
    /\ calls' = cs /\ verdicts' = <<>> /\ outcome' = "continue"
    /\ job' = [j \in DOMAIN cs |-> "none"] /\ aborting' = FALSE
    /\ UNCHANGED <<limit, paused, outside>>

GateOnTodos ==
    /\ pc = "gate" /\ Todo \notin open
    /\ Finish("completed", messages)
    /\ UNCHANGED <<limit, rounds, resubmits, batch, paused, outside>>
Gate ==                          \* sample-done is not task-done
    /\ pc = "gate"
    /\ IF open = {}
       THEN Finish("completed", messages)
       ELSE /\ messages' = Append(messages, User("nudge"))
            /\ pc' = "head" /\ UNCHANGED result
    /\ UNCHANGED <<limit, rounds, resubmits, batch, paused, outside>>

-----------------------------------------------------------------------------
(* Phase 1: precheck every call, one after the other *)

AlwaysMay(c) == TRUE
MayApprove(c) == ~(paused /\ c \in Mutating)
Precheck ==
    /\ pc = "prepare" /\ Len(verdicts) < Len(calls)
    /\ \E v \in Judgements \cup {"cancelled"} :
         /\ verdicts' = Append(verdicts, v)
         /\ \/ /\ outcome \in Stopped /\ v = "cancelled"
               /\ UNCHANGED outcome
            \/ /\ outcome = "continue" /\ buffer # <<>> /\ v = "cancelled"
               /\ outcome' = "followup"
            \/ /\ outcome = "continue" /\ buffer = <<>> /\ cancelled
               /\ v = "cancelled" /\ outcome' = "cancelled"
            \/ /\ outcome = "continue" /\ buffer = <<>> /\ ~cancelled
               /\ v \in Judgements
               /\ v = "approve" => MayApprove(calls[Len(verdicts) + 1])
               /\ outcome' = IF v = "reject" THEN "reject" ELSE "continue"
    /\ UNCHANGED <<pc, limit, rounds, resubmits, messages, calls, job, aborting,
                   paused, outside, result>>

PreparedAnyway ==
    /\ pc = "prepare" /\ Len(verdicts) = Len(calls)
    /\ pc' = "execute"
    /\ job' = [j \in DOMAIN calls |->
                 IF verdicts[j] = "approve" THEN "queued" ELSE "none"]
    /\ UNCHANGED <<limit, rounds, resubmits, messages, calls, verdicts, outcome,
                   aborting, paused, outside, result>>
Prepared ==
    /\ pc = "prepare" /\ Len(verdicts) = Len(calls)
    /\ IF cancelled
       THEN Finish("cancelled", messages \o Unrun) /\ UNCHANGED job
       ELSE /\ pc' = "execute"
            /\ job' = [j \in DOMAIN calls |->
                         IF verdicts[j] = "approve" THEN "queued" ELSE "none"]
            /\ UNCHANGED <<messages, result>>
    /\ UNCHANGED <<limit, rounds, resubmits, calls, verdicts, outcome, aborting,
                   paused, outside>>

-----------------------------------------------------------------------------
(* Phase 2: the pool *)

Busy == {j \in DOMAIN job : job[j] \in {"taken", "running"}}
Unlocked(j) == TRUE
LockFree(j) ==
    \/ LockOf[calls[j]] = NoLock
    \/ \A k \in DOMAIN job : job[k] = "running" => LockOf[calls[k]] # LockOf[calls[j]]

Step(j, to) ==
    /\ job' = [job EXCEPT ![j] = to]
    /\ UNCHANGED <<pc, limit, rounds, resubmits, messages, calls, verdicts, outcome,
                   aborting, paused, result>>

Take(j) ==                       \* a worker takes the oldest job
    /\ pc = "execute" /\ job[j] = "queued"
    /\ \A k \in 1 .. j - 1 : job[k] # "queued"
    /\ Cardinality(Busy) < Workers
    /\ Step(j, "taken") /\ UNCHANGED outside

EnterUnchecked(j) ==
    /\ pc = "execute" /\ job[j] = "taken" /\ LockFree(j)
    /\ Step(j, "running") /\ UNCHANGED outside
Enter(j) ==                      \* lock, then look at the token
    /\ pc = "execute" /\ job[j] = "taken" /\ LockFree(j)
    /\ Step(j, IF cancelled THEN "skipped" ELSE "running") /\ UNCHANGED outside

Return(j) ==                     \* the tool may open or close work
    /\ pc = "execute" /\ job[j] = "running"
    /\ Step(j, "ran")
    /\ open' \in SUBSET Work
    /\ UNCHANGED <<cancelled, buffer, pushed, heard>>

-----------------------------------------------------------------------------
(* Phase 3: results in the model's order, hooks, and what phase 1 decided *)

Writeback ==
    /\ pc = "execute" /\ \A j \in DOMAIN job : job[j] \in Settled
    /\ LET done == {j \in DOMAIN job : job[j] # "none"}
           wrote == {j \in done : job[j] = "ran" /\ calls[j] \in Mutating}
       IN /\ aborting' \in {FALSE, done # {}}
          /\ paused' \in {paused, paused \/ wrote # {}}
          /\ \/ /\ pc' = "settle"
                /\ messages' = messages \o [j \in DOMAIN calls |-> ResultFor(j)]
                /\ UNCHANGED result
             \/ /\ done # {} /\ pc' = "over" /\ result' = "raised"
                /\ \E n \in 0 .. Len(calls) - 1 :
                     messages' = messages \o [j \in 1 .. n |-> ResultFor(j)]
    /\ UNCHANGED <<limit, rounds, resubmits, calls, verdicts, outcome, job, outside>>

(* The exits after the batch.  outcome = "cancelled" does not get here: the *)
(* token stays set and Prepared has ended the turn.                         *)
Settle ==
    /\ pc = "settle"
    /\ IF aborting
       THEN Finish("aborted", messages) /\ UNCHANGED <<buffer, heard>>
       ELSE IF outcome = "reject"
       THEN Finish("permission_reject", messages) /\ UNCHANGED <<buffer, heard>>
       ELSE Drain(messages) /\ pc' = "head" /\ UNCHANGED result
    /\ UNCHANGED <<limit, rounds, resubmits, batch, paused, cancelled, pushed, open>>

-----------------------------------------------------------------------------
(* The rest of the program, while the turn runs *)

Cancel ==
    /\ pc # "over" /\ ~cancelled
    /\ cancelled' = TRUE
    /\ UNCHANGED <<pc, limit, rounds, resubmits, messages, batch, paused, buffer,
                   pushed, heard, open, result>>

Interject ==
    /\ pc # "over" /\ pushed < MaxInterjections
    /\ pushed' = pushed + 1
    /\ buffer' = Append(buffer, pushed + 1)
    /\ UNCHANGED <<pc, limit, rounds, resubmits, messages, batch, paused, cancelled,
                   heard, open, result>>

WorkEnds ==
    /\ pc # "over"
    /\ \E w \in open \cap Elsewhere : open' = open \ {w}
    /\ UNCHANGED <<pc, limit, rounds, resubmits, messages, batch, paused, cancelled,
                   buffer, pushed, heard, result>>

Loop ==
    \/ Head_ \/ SampleFenced \/ StreamStopped \/ SampleFails \/ SampleOverflows
    \/ \E cs \in Batches : SampleReturns(cs)
    \/ Gate \/ Precheck \/ Prepared \/ Writeback \/ Settle
Worker == \E j \in DOMAIN job : Take(j) \/ Enter(j) \/ Return(j)

Next == Loop \/ Worker \/ Cancel \/ Interject \/ WorkEnds

(* The loop's thread and the pool run; a tool returns.  Two jobs of one    *)
(* batch only wait for one another, so fairness of the pool as a whole is  *)
(* enough.  Nothing is assumed of cancels, interjections and other work.   *)
Spec == Init /\ [][Next]_vars /\ WF_vars(Loop) /\ WF_vars(Worker)
-----------------------------------------------------------------------------
(* Properties *)

TurnTexts == {"prompt", "prose", "interjection", "nudge", "notes",
              "ran", "refused", "skipped", "did not run"}
TurnMessages == [role : {"user", "assistant", "tool"}, calls : Seq(Calls),
                 id : Calls \cup {NoId}, text : TurnTexts]
TypeOK ==
    /\ pc \in {"head", "sample", "gate", "prepare", "execute", "settle", "over"}
    /\ limit \in Limits /\ rounds \in Nat /\ resubmits \in 0 .. MaxResubmits
    /\ messages \in Seq(TurnMessages)
    /\ calls \in Batches \cup {<<>>} /\ verdicts \in Seq(Judgements \cup {"cancelled"})
    /\ job \in [DOMAIN calls -> Settled \cup {"queued", "taken", "running"}]
    /\ outcome \in Stopped \cup {"continue"}
    /\ {aborting, paused, cancelled} \subseteq BOOLEAN
    /\ buffer \in Seq(Nat) /\ heard \in Seq(Nat) /\ pushed \in Nat /\ open \subseteq Work
    /\ result \in {"none", "cancelled", "max_turns", "error", "aborted", "raised",
                   "completed", "permission_reject"}

(* Every request and every transcript a turn leaves behind has one result  *)
(* for each tool call, next to it and in order, on every way through the   *)
(* loop.  The exceptions are two: an after_sample abort leaves before any  *)
(* call, and a hook that raises leaves in the middle of the writeback.     *)
CallsAnswered ==
    \/ pc \in {"gate", "prepare", "execute"}
    \/ result = "raised"
    \/ WellFormed(messages)
    \/ result = "aborted" /\ \A k \in DOMAIN messages : ~IsResult(messages[k])

(* The transcript tells the truth about effects: a call is reported as run *)
(* exactly when the pool ran it, whatever cancel, rejection or abort came  *)
(* meanwhile, and no tool is still running when the turn is over.          *)
ReportsWhatRan ==
    pc \in {"settle", "over", "head", "sample"} =>
        /\ Busy = {}
        /\ result # "raised" => \A c \in Calls :
              Contains(messages, Tool(c, "ran"))
              <=> \E j \in DOMAIN job : calls[j] = c /\ job[j] = "ran"

(* Two tools of a batch that write the same path never run together.       *)
WritersTakeTurns ==
    \A j, k \in DOMAIN job :
        /\ j # k /\ job[j] = "running" /\ job[k] = "running"
        /\ LockOf[calls[j]] # NoLock
        => LockOf[calls[j]] # LockOf[calls[k]]

(* No tool starts once the turn is cancelled, not even one that had been   *)
(* taken by a worker before and was waiting for its path lock.             *)
CancelStopsStarts ==
    cancelled => \A j \in DOMAIN job' :
        job'[j] = "running" => j \in DOMAIN job /\ job[j] = "running"

(* A turn reports completed only when no todo, child or shell task is open *)
(* at that moment, although all of them change while the loop works.       *)
CompletedMeansDone == result = "completed" => open = {}

(* Interjections reach the model in the order they were made, each once;   *)
(* the ones that came too late for this turn are still in the buffer.      *)
InterjectionsKept == heard \o buffer = [k \in 1 .. pushed |-> k]

(* What the model reads of a turn is what happened in it.                  *)
TranscriptIsTrue == TypeOK /\ CallsAnswered /\ ReportsWhatRan /\ InterjectionsKept

(* Once a mutation hook has paused writes, no mutating tool starts again   *)
(* in the turn, in whatever round.                                         *)
PauseHolds ==
    paused => \A j \in DOMAIN job' :
        job'[j] = "running" => calls'[j] \notin Mutating

(* A tool starts only while the turn lets it.                              *)
StartsAreAllowed == [][CancelStopsStarts /\ PauseHolds]_vars

(* With a turn limit every turn ends, also when the model keeps stopping   *)
(* while work that never ends is open, and when it keeps overflowing.      *)
TurnEnds == limit # NoLimit ~> pc = "over"

(* A cancel that comes while the loop samples or prechecks ends the turn   *)
(* as cancelled, with or without a turn limit; it is never reported as     *)
(* completed, rejected, aborted or as an error.                            *)
CancelWins == cancelled /\ pc \in {"head", "sample", "prepare"} ~> result = "cancelled"

(* Every turn comes to the end its limit or its cancellation asks for.     *)
TurnSettles == TurnEnds /\ CancelWins
=============================================================================
