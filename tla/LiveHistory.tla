------------------------------ MODULE LiveHistory ------------------------------
(***************************************************************************)
(* The life of a session's transcript: seeded from the live window of the  *)
(* last turn, extended by the agent loop, folded by the compactor, carried *)
(* over when the turn ends, archived row by row and saved as a snapshot,   *)
(* and loaded again after a restart (turn/runner.py, turn/loop.py,         *)
(* context/compactor.py, session/kernel.py hydrate_from_store).            *)
(*                                                                         *)
(* The loop is reduced to what it appends; AgentLoop has its control.  The *)
(* results of a round carry the round's name as their text, and the        *)
(* assistant message that asked for them carries it as its id.             *)
(***************************************************************************)
EXTENDS ToolPairs

CONSTANTS Batches,      \* the lists of call ids a sample may ask for; the
                        \* sampler makes up an id that is missing
          Texts,        \* names of the rounds, in order
          MaxTurns,     \* bound on the prompts
          Keep,         \* budget.keep_recent_messages
          Protect,      \* budget.protect_first_n
          Window,       \* messages that fit the trigger window
          Retain,       \* budget.retain_recent_tool_messages
          Tail_         \* rows hydrate_from_store asks for

ASSUME HistoryAssumption ==
    /\ Texts \in Seq(STRING) /\ Blank \notin ToSet(Texts)
    /\ \A cs \in Batches : cs \in Seq(STRING) /\ NoId \notin ToSet(cs)
    /\ MaxTurns \in Nat /\ Window \in Nat /\ Protect \in Nat
    /\ Keep \in Nat /\ Keep >= 2
    /\ Retain \in Nat \ {0} /\ Tail_ \in Nat \ {0}

VARIABLES
    pc,          \* "idle", "head" of the loop, "batch", process "down"
    turns,       \* prompts so far
    rounds,      \* samples so far
    live,        \* runner.live_messages
    messages,    \* the loop's messages
    rows,        \* the archive: session_store's messages table
    snapshot,    \* its context_snapshots row; <<>>: none
    compacted    \* compaction_count >= 1 or a previous summary

(* History: read by the properties only. *)
VARIABLE fromRows                 \* live was once rebuilt from the archive's rows

vars == <<pc, turns, rounds, live, messages, rows, snapshot, compacted, fromRows>>

Init ==
    /\ pc = "idle" /\ turns = 0 /\ rounds = 0
    /\ live = <<>> /\ messages = <<>> /\ rows = <<>> /\ snapshot = <<>>
    /\ compacted = FALSE /\ fromRows = FALSE

-----------------------------------------------------------------------------
(* ContextCompactor.ensure: off or suppressed, under the window, or over   *)
(* it, when old results are cleared and the middle is folded; a fold that  *)
(* saves nothing is rejected.                                              *)
ProtectNow == IF compacted THEN 0 ELSE Protect
Pruned(ms) == PruneRetained(ms, Retain)
Ensured(ms) ==
    {[ms |-> ms, fold |-> FALSE],
     [ms |-> SanitizeToolPairs(ms), fold |-> FALSE],
     [ms |-> SanitizeToolPairs(Pruned(ms)), fold |-> FALSE],
     [ms |-> FoldMiddle(Pruned(ms), ProtectNow, Keep, Window), fold |-> TRUE]}

Unanswered(ms) ==                 \* calls of the last round with no result yet
    LET a == SelectLastInSeq(ms, LAMBDA m : ~IsResult(m))
    IN SubSeq(ms[a].calls, Len(ms) - a + 1, Len(ms[a].calls))
Round(cs, text) ==                \* id names the round, for the properties
    [Assistant(cs, text) EXCEPT !.id = Texts[rounds + 1]]

StartTurn ==                      \* seed_messages, archive of the prompt
    /\ pc = "idle" /\ turns < MaxTurns
    /\ pc' = "head" /\ turns' = turns + 1
    /\ messages' = SeedMessages(<<System("system")>>, live, User("prompt"))
    /\ rows' = Append(rows, User("prompt"))
    /\ UNCHANGED <<rounds, live, snapshot, compacted, fromRows>>

Sample(cs, text) ==               \* ensure, sample, append, archive
    /\ pc = "head" /\ rounds < Len(Texts)
    /\ cs = <<>> => text # Blank                  \* _fallback_final_text
    /\ \E e \in Ensured(messages) :
         /\ messages' = Append(e.ms, Round(cs, text))
         /\ compacted' = (compacted \/ e.fold)
    /\ rows' = Append(rows, Round(cs, text))
    /\ rounds' = rounds + 1
    /\ pc' = IF cs = <<>> THEN "over" ELSE "batch"
    /\ UNCHANGED <<turns, live, snapshot, fromRows>>

Result ==                         \* writeback of the next result
    /\ pc = "batch" /\ Unanswered(messages) # <<>>
    /\ LET m == Tool(Head(Unanswered(messages)), Texts[rounds])
       IN /\ messages' = Append(messages, m)
          /\ rows' = Append(rows, m)
    /\ UNCHANGED <<pc, turns, rounds, live, snapshot, compacted, fromRows>>

BatchOver ==                      \* ensure after the tool batch
    /\ pc = "batch" /\ Unanswered(messages) = <<>>
    /\ \E e \in Ensured(messages) :
         /\ messages' = e.ms
         /\ compacted' = (compacted \/ e.fold)
    /\ pc' = "head"
    /\ UNCHANGED <<turns, rounds, live, rows, snapshot, fromRows>>

(* The loop returns: at its head, after a sample without calls, or after a *)
(* sample whose calls an after_sample hook aborts.  The snapshot's write   *)
(* may fail.                                                               *)
EndTurn(saved) ==
    /\ \/ pc \in {"head", "over"}
       \/ pc = "batch" /\ ~IsResult(Last(messages))
    /\ pc' = "idle"
    /\ live' = SanitizeToolPairs(messages)
    /\ snapshot' = IF saved THEN live' ELSE snapshot
    /\ messages' = <<>>
    /\ UNCHANGED <<turns, rounds, rows, compacted, fromRows>>

TurnRaises ==                     \* a hook's exception leaves the loop
    /\ pc \in {"over", "batch"}
    /\ pc' = "idle" /\ messages' = <<>>
    /\ UNCHANGED <<turns, rounds, live, rows, snapshot, compacted, fromRows>>

Crash ==
    /\ pc # "down"
    /\ pc' = "down" /\ live' = <<>> /\ messages' = <<>> /\ compacted' = FALSE
    /\ UNCHANGED <<turns, rounds, rows, snapshot, fromRows>>

Hydrate ==                        \* hydrate_from_store
    LET tail == SubSeq(rows, Len(rows) - Min({Tail_, Len(rows)}) + 1, Len(rows))
        stored == IF snapshot # <<>> THEN snapshot ELSE tail
    IN /\ pc = "down"
       /\ pc' = "idle"
       /\ live' = SanitizeToolPairs(NoSystem(stored))
       /\ fromRows' = (fromRows \/ snapshot = <<>>)
       /\ UNCHANGED <<turns, rounds, messages, rows, snapshot, compacted>>

Next ==
    \/ StartTurn \/ Result \/ BatchOver \/ TurnRaises \/ Crash \/ Hydrate
    \/ \E cs \in Batches, text \in {Blank, "prose"} : Sample(cs, text)
    \/ \E saved \in BOOLEAN : EndTurn(saved)

Spec == Init /\ [][Next]_vars
-----------------------------------------------------------------------------
(* Properties *)

Transcripts == {live, messages, rows}
TypeOK ==
    /\ pc \in {"idle", "head", "batch", "over", "down"}
    /\ turns \in 0 .. MaxTurns /\ rounds \in 0 .. Len(Texts)
    /\ compacted \in BOOLEAN /\ fromRows \in BOOLEAN
    /\ \A ms \in Transcripts \cup {snapshot} : \A i \in DOMAIN ms :
         /\ DOMAIN ms[i] = {"role", "calls", "id", "text"}
         /\ ms[i].role \in {"system", "user", "assistant", "tool"}
         /\ HasCalls(ms[i]) => ms[i].role = "assistant"

(* Every request a sample submits, and every window carried to the next    *)
(* prompt, keeps each tool call with its results: whatever was folded,     *)
(* trimmed, cut short by a hook, a crash or the tail limit before.         *)
SentWellFormed ==
    /\ pc = "head" => \A e \in Ensured(messages) : WellFormed(e.ms)
    /\ WellFormed(live)

(* A result stays with the call it answers, although ids are used again in *)
(* later rounds.  The pairing by id alone is wrong only for a transcript   *)
(* rebuilt from archive rows, where an unanswered round may be followed by *)
(* a round with the same ids.                                              *)
ResultsStayWithTheirCall ==
    ~fromRows => \A ms \in {messages, live} : \A i \in DOMAIN ms :
        \A j \in DOMAIN ms[i].calls :
            i + j \in DOMAIN ms
            => ms[i + j].text \in {ms[i].id, Cleared, Never(ms[i].calls[j]).text}

(* sanitize_tool_pairs leaves a transcript whose calls are answered as it  *)
(* is, and changes nothing when it runs twice.                             *)
SanitizeIsStable ==
    \A ms \in Transcripts :
        /\ WellFormed(ms) => SanitizeToolPairs(ms) = ms
        /\ LET s == SanitizeToolPairs(ms) IN SanitizeToolPairs(s) = s

(* snap_to_safe_boundary never separates a call from its results, whatever *)
(* cut is asked for, and never moves the cut back.                         *)
SplitIsSafe ==
    pc = "head" => \A i \in 0 .. Len(messages) :
        LET k == SnapToSafeBoundary(messages, i)
        IN /\ k >= i
           /\ WellFormed(SubSeq(messages, 1, k))
           /\ WellFormed(SubSeq(messages, k + 1, Len(messages)))

(* plan_fold_regions returns three whole pieces of the transcript, and     *)
(* finds nothing to fold exactly when the body is short or the recent      *)
(* messages it must keep lie inside the results of one batch.              *)
FoldRegionsAreExact ==
    pc = "head" =>
        LET rest == NoSystem(messages)
            plan == PlanFoldRegions(rest, ProtectNow, Keep)
            body == plan.middle \o plan.tail
            oneBatch == \A k \in 1 .. Keep :
                          IsResult(body[Len(body) - k + 1])
        IN /\ plan.head \o body = rest
           /\ \A ms \in {plan.head, plan.middle, plan.tail} : WellFormed(ms)
           /\ plan.middle = <<>> <=> Len(body) <= Keep + 1 \/ oneBatch

(* hard_trim_safe drops whole exchanges from the front: what is left is    *)
(* the end of the transcript, and it fits the window or has no more than   *)
(* two messages.                                                           *)
TrimKeepsTheEnd ==
    pc = "head" =>
        LET rest == NoSystem(messages)
            kept == HardTrimSafe(<<>>, rest, Window)
        IN /\ WellFormed(kept) /\ IsSuffix(kept, rest)
           /\ Len(kept) <= Window \/ Len(kept) <= 2

(* The helpers that cut a transcript cut between exchanges only.           *)
CutsAreExact ==
    /\ TypeOK /\ SanitizeIsStable
    /\ SplitIsSafe /\ FoldRegionsAreExact /\ TrimKeepsTheEnd

(* Ending a turn loses no result the loop had appended: the pairing may    *)
(* add a result for a call that never ran, it drops none that did run.     *)
EndKeepsResults ==
    (\E saved \in BOOLEAN : EndTurn(saved)) =>
        \A i \in DOMAIN messages :
            IsResult(messages[i]) /\ ~fromRows => Contains(live', messages[i])

(* A result is neither moved to another call nor lost.                     *)
ResultsAreKept == [][ResultsStayWithTheirCall' /\ EndKeepsResults]_vars
=============================================================================
