----------------------------- MODULE ModelStreams -----------------------------
(***************************************************************************)
(* How an answer of the model is read off the wire: the consumers of the   *)
(* four protocols (openai_compat.py, anthropic_messages.py,                *)
(* codex_responses.py and bedrock.py under src/src/codedoggy/model) and    *)
(* the sampler that turns the answer into the turn's tool calls            *)
(* (chat_sampler.py).                                                      *)
(*                                                                         *)
(* The server speaks blocks: text, an aside (reasoning), or a tool call    *)
(* whose arguments come in pieces.  Each event is handled as it is read.   *)
(* The connection may be cut, the server may report an error and the host  *)
(* may cancel between any two events.  One sampler reads several answers.  *)
(***************************************************************************)
EXTENDS Naturals, Sequences, SequencesExt, FiniteSets

CONSTANTS Wires,          \* a subset of the four protocols
          MaxBlocks,      \* bound on the blocks of an answer
          MaxPieces,      \* bound on the pieces of an answer
          MaxAnswers,     \* bound on the answers one sampler reads
          NoTool          \* converse: no tool block is open

ASSUME StreamAssumption ==
    /\ Wires \subseteq {"chat", "anthropic", "responses", "converse"}
    /\ {MaxBlocks, MaxPieces, MaxAnswers} \subseteq Nat

VARIABLES
    wire, manner,    \* manner: how much the server repeats at the end
    said,            \* the blocks as the server said them
    finish,          \* what the server ended with; "none" before
    got,             \* the consumer's accumulators
    shown,           \* pieces given to on_delta
    fate,            \* "reading", "value", "error" or "cancelled"
    answer,          \* SampleResult
    sampler          \* _call_seq, and every id it made up (history)

streams == <<wire, manner, said, finish, got, shown, fate, answer, sampler>>

(***************************************************************************)
(* What the server says.                                                   *)
(***************************************************************************)
Kinds == {"text", "aside", "call"}
(* <think> and </think> are pieces of their own among the words of a text. *)
Spellings(kind) == IF kind = "text" THEN {"word", "<think>", "</think>"} ELSE {"word"}
Piece(b, i, mark) == [of |-> b, i |-> i, mark |-> mark]
Block(kind, named) == [kind |-> kind, named |-> named, pieces |-> <<>>, open |-> TRUE, whole |-> FALSE]
Current == Len(said)
(* A body in one piece, a stream, or a responses stream whose end repeats  *)
(* all, whose items are sent when finished, or that sends no items.        *)
Manners(w) == {"body"} \cup (IF w = "responses" THEN {"full", "items", "bare"} ELSE {"stream"})
Streamed == manner # "body"
SaidPieces == Len(FlattenSeq([b \in DOMAIN said |-> said[b].pieces]))
SpeaksNow == fate = "reading" /\ finish = "none"

(***************************************************************************)
(* The consumers' accumulators: text, the text buffer of converse, the     *)
(* finished calls, the blocks or arguments that are still being filled,    *)
(* the open tool block of converse and has_tool_use, and whether a         *)
(* terminal event was read.                                                *)
(***************************************************************************)
NothingRead == [text |-> <<>>, buffer |-> <<>>, calls |-> <<>>, slots |-> <<>>,
                tool |-> NoTool, tooled |-> FALSE, terminal |-> FALSE]
Slot(b) == [of |-> b, pieces |-> <<>>, form |-> "none"]
Fill(slots, piece) ==
    [slots EXCEPT ![Len(slots)].pieces = Append(@, piece)]
HasSlot(slots, b) == slots # <<>> /\ slots[Len(slots)].of = b

(* json.loads of a call's joined arguments.                                *)
Parsed(block, pieces) ==
    IF pieces = <<>> THEN "none"
    ELSE IF block.whole /\ pieces = block.pieces THEN "whole" ELSE "raw"

(* scrub_model_content: closed thoughts go, then everything from the first *)
(* thought that is not closed.                                             *)
OfClosed(text) ==
    {text[i] : i \in {n \in DOMAIN text : \E j \in 1..n, k \in n..Len(text) :
       /\ text[j].mark = "<think>" /\ text[k].mark = "</think>"
       /\ \A l \in j..(k - 1) : text[l].mark # "</think>"}}
FromUnclosed(text) ==
    {text[i] : i \in {n \in DOMAIN text : \E j \in 1..n : text[j].mark = "<think>"}}
Without(text, gone) == SelectSeq(text, LAMBDA p : p \notin gone)
ScrubClosed(text) == Without(text, OfClosed(text))
Scrub(text) == Without(ScrubClosed(text), FromUnclosed(ScrubClosed(text)))

(***************************************************************************)
(* The consumers.  An event is the beginning of a block, a piece of it, or *)
(* its end; block is the block as it is after the event.                   *)
(***************************************************************************)
Event(at, b, block) == [at |-> at, of |-> b, block |-> block]
Is(event, at, kind) == event.at = at /\ event.block.kind = kind

ChatReads(read, event) ==
    CASE Is(event, "open", "call") -> [read EXCEPT !.calls = Append(@, Slot(event.of))]
      [] Is(event, "piece", "call") -> [read EXCEPT !.calls = Fill(@, Last(event.block.pieces))]
      [] Is(event, "piece", "text") -> [read EXCEPT !.text = Append(@, Last(event.block.pieces))]
      [] OTHER -> read

AnthropicReads(read, event) ==
    CASE event.at = "open" -> [read EXCEPT !.slots = Append(@, Slot(event.of))]
      [] event.at = "piece" -> [read EXCEPT !.slots = Fill(@, Last(event.block.pieces))]
      [] Is(event, "close", "call") ->
            [read EXCEPT !.slots[Len(read.slots)].form =
                           Parsed(event.block, read.slots[Len(read.slots)].pieces)]
      [] OTHER -> read

(* bare: the server sends no items, only the arguments.                    *)
Item(event) == [Slot(event.of) EXCEPT !.pieces = event.block.pieces]
Started(slots, b) == IF HasSlot(slots, b) THEN slots ELSE Append(slots, Slot(b))
ResponsesReads(read, event) ==
    CASE Is(event, "piece", "text") -> [read EXCEPT !.text = Append(@, Last(event.block.pieces))]
      [] Is(event, "piece", "call") ->
            [read EXCEPT !.slots = Fill(Started(@, event.of), Last(event.block.pieces))]
      [] Is(event, "close", "call") ->
            [read EXCEPT !.slots = Append(Front(Started(@, event.of)), Item(event)),
                         !.calls = IF manner = "bare" THEN @ ELSE Append(@, Item(event))]
      [] OTHER -> read

(* converse turns arguments it cannot parse into {}.                       *)
ParsedOrNothing(block, pieces) ==
    IF Parsed(block, pieces) = "raw" THEN "none" ELSE Parsed(block, pieces)
ConverseReads(read, event) ==
    CASE Is(event, "open", "call") ->
            [read EXCEPT !.text = @ \o read.buffer, !.buffer = <<>>,
                         !.tool = Slot(event.of), !.tooled = TRUE]
      [] Is(event, "piece", "text") -> [read EXCEPT !.buffer = Append(@, Last(event.block.pieces))]
      [] Is(event, "piece", "call") -> [read EXCEPT !.tool.pieces = Append(@, Last(event.block.pieces))]
      [] event.at = "close" /\ read.tool # NoTool ->
            [read EXCEPT !.tool = NoTool,
                         !.calls = Append(@, [read.tool EXCEPT
                                      !.form = ParsedOrNothing(event.block, read.tool.pieces)])]
      [] event.at = "close" /\ read.tool = NoTool ->
            [read EXCEPT !.text = @ \o read.buffer, !.buffer = <<>>]
      [] OTHER -> read

Reads(read, at, b, block) ==
    LET event == Event(at, b, block)
    IN CASE ~Streamed -> read
         [] Streamed /\ wire = "chat" -> ChatReads(read, event)
         [] Streamed /\ wire = "anthropic" -> AnthropicReads(read, event)
         [] Streamed /\ wire = "responses" -> ResponsesReads(read, event)
         [] Streamed /\ wire = "converse" -> ConverseReads(read, event)

(***************************************************************************)
(* The answer: what a whole payload says, or the consumer's last lines.    *)
(* The chat and responses protocols leave the arguments to the sampler.    *)
(***************************************************************************)
IsCall(slot) == said[slot.of].kind = "call"
TextOf(slots) ==
    FlattenSeq([i \in DOMAIN slots |->
                  IF said[slots[i].of].kind = "text" THEN slots[i].pieces ELSE <<>>])
Completion(text, slots, blocks) == [text |-> text, calls |-> slots, replay |-> blocks]
(* The blocks of a payload that came in one piece.                         *)
Whole == [b \in DOMAIN said |->
            [Slot(b) EXCEPT !.pieces = said[b].pieces,
                            !.form = ParsedOrNothing(said[b], said[b].pieces)]]

ChatPayload == Completion(Scrub(TextOf(Whole)), SelectSeq(Whole, IsCall), <<>>)
ResponsesPayload == Completion(Scrub(TextOf(Whole)), SelectSeq(Whole, IsCall), <<>>)
ConversePayload == Completion(TextOf(Whole), SelectSeq(Whole, IsCall), <<>>)
AnthropicPayload(blocks) ==
    Completion(Scrub(TextOf(blocks)), SelectSeq(blocks, IsCall),
            [b \in DOMAIN blocks |-> blocks[b].pieces])
Payload ==
    CASE wire = "chat" -> ChatPayload
      [] wire = "anthropic" -> AnthropicPayload(Whole)
      [] wire = "responses" -> ResponsesPayload
      [] wire = "converse" -> ConversePayload

(* Argument buffers stand in for calls only where no item was finished.    *)
BufferedToo(read) == read.calls \o read.slots
Buffered(read) == IF read.calls = <<>> THEN read.slots ELSE read.calls
Assembled(read) ==
    CASE wire = "chat" -> Completion(Scrub(read.text), read.calls, <<>>)
      [] wire = "anthropic" -> AnthropicPayload(read.slots)
      [] wire = "responses" -> Completion(Scrub(read.text), Buffered(read), <<>>)
      [] wire = "converse" -> Completion(read.text \o read.buffer, read.calls, <<>>)

(***************************************************************************)
(* The sampler.  A call without an id gets its next number.                *)
(***************************************************************************)
FormOf(slot) ==
    IF wire \in {"chat", "responses"} THEN Parsed(said[slot.of], slot.pieces) ELSE slot.form
Unnamed(slots, n) == Cardinality({i \in 1..n : ~said[slots[i].of].named})
IdsPerAnswer(slots, used) ==
    [i \in DOMAIN slots |-> IF said[slots[i].of].named THEN <<"said", slots[i].of>>
                            ELSE <<"call", Unnamed(slots, i)>>]
Ids(slots, used) ==
    [i \in DOMAIN slots |-> IF said[slots[i].of].named THEN <<"said", slots[i].of>>
                            ELSE <<"call", used + Unnamed(slots, i)>>]
MadeUp(ids) == SelectSeq(ids, LAMBDA id : id[1] = "call")
Sampled(completion, slots, ids) ==
    /\ answer' = [completion EXCEPT !.calls =
                    [i \in DOMAIN slots |->
                       [of |-> slots[i].of, form |-> FormOf(slots[i]), id |-> ids[i]]]]
    /\ sampler' = [sampler EXCEPT !.seq = @ + Unnamed(slots, Len(slots)),
                                  !.made = @ \o MadeUp(ids)]
Returns(completions) ==
    /\ fate' = "value"
    /\ \E completion \in completions :
         Sampled(completion, completion.calls, Ids(completion.calls, sampler.seq))
NoAnswer == Completion(<<>>, <<>>, <<>>)

(***************************************************************************)
(* The events of the stream.                                               *)
(***************************************************************************)
StreamsInit ==
    /\ wire \in Wires /\ manner \in Manners(wire)
    /\ said = <<>> /\ finish = "none" /\ got = NothingRead /\ shown = <<>>
    /\ fate = "reading" /\ answer = NoAnswer
    /\ sampler = [seq |-> 0, made |-> <<>>, answers |-> 1]

Opens(kind, named) ==
    /\ SpeaksNow /\ Len(said) < MaxBlocks
    /\ \A b \in DOMAIN said : said[b].whole
    /\ named \/ (kind = "call" /\ wire = "chat")
    /\ said' = Append(said, Block(kind, named))
    /\ got' = Reads(got, "open", Len(said) + 1, Block(kind, named))
    /\ UNCHANGED <<wire, manner, finish, shown, fate, answer, sampler>>

(* converse shows no text once a tool block began.                         *)
Shows(kind) == Streamed /\ kind = "text" /\ ~(wire = "converse" /\ got.tooled)
Says(mark) ==
    /\ SpeaksNow /\ said # <<>> /\ said[Current].open
    /\ SaidPieces < MaxPieces /\ mark \in Spellings(said[Current].kind)
    /\ \E piece \in {Piece(Current, Len(said[Current].pieces) + 1, mark)} :
       \E block \in {[said[Current] EXCEPT !.pieces = Append(@, piece)]} :
          /\ said' = [said EXCEPT ![Current] = block]
          /\ got' = Reads(got, "piece", Current, block)
          /\ shown' = IF Shows(block.kind) THEN Append(shown, piece) ELSE shown
    /\ UNCHANGED <<wire, manner, finish, fate, answer, sampler>>

(* A call that is not whole was cut short by the length limit.             *)
Closes(whole) ==
    /\ SpeaksNow /\ said # <<>> /\ said[Current].open
    /\ whole \/ said[Current].kind = "call"
    /\ \E block \in {[said[Current] EXCEPT !.open = FALSE, !.whole = whole]} :
         /\ said' = [said EXCEPT ![Current] = block]
         /\ got' = Reads(got, "close", Current, block)
    /\ UNCHANGED <<wire, manner, finish, shown, fate, answer, sampler>>

(* The finish reason; the final event of responses may hold everything.    *)
SeesFinish(read) == IF wire = "anthropic" THEN read ELSE [read EXCEPT !.terminal = TRUE]
Finishes(reason) ==
    /\ SpeaksNow
    /\ \A b \in DOMAIN said : said[b].whole \/ (b = Current /\ reason = "length")
    /\ (said # <<>> /\ said[Current].open) => wire \in {"chat", "responses"}
    /\ finish' = reason
    /\ got' = IF Streamed THEN SeesFinish(got) ELSE got
    /\ IF manner = "full" /\ said # <<>> THEN Returns({Payload})
       ELSE UNCHANGED <<fate, answer, sampler>>
    /\ UNCHANGED <<wire, manner, said, shown>>

(* [DONE], message_stop, or the body's last byte.  A responses body that   *)
(* says nothing is an error.                                               *)
Stops ==
    /\ fate = "reading" /\ finish # "none"
    /\ IF wire = "responses" /\ ~Streamed /\ said = <<>>
       THEN fate' = "error" /\ UNCHANGED <<answer, sampler>>
       ELSE Returns({IF Streamed THEN Assembled(got) ELSE Payload})
    /\ UNCHANGED <<wire, manner, said, finish, got, shown>>

(* The connection ends; whether that is an answer is the consumer's to say. *)
EndsAnyway(read) == Streamed
EndsWell(read) == Streamed /\ read.terminal
Cut ==
    /\ fate = "reading"
    /\ IF EndsWell(got) THEN Returns({Assembled(got)})
       ELSE fate' = "error" /\ UNCHANGED <<answer, sampler>>
    /\ UNCHANGED <<wire, manner, said, finish, got, shown>>
(* The server reports an error, or the host cancels.                       *)
Breaks(how) ==
    /\ fate = "reading" /\ fate' = how
    /\ UNCHANGED <<wire, manner, said, finish, got, shown, answer, sampler>>

(* The turn samples again with the same sampler.                           *)
NextAnswer ==
    /\ fate # "reading" /\ sampler.answers < MaxAnswers
    /\ sampler' = [sampler EXCEPT !.answers = @ + 1]
    /\ manner' \in Manners(wire)
    /\ said' = <<>> /\ finish' = "none" /\ got' = NothingRead /\ shown' = <<>>
    /\ fate' = "reading" /\ answer' = NoAnswer
    /\ UNCHANGED wire

StreamsNext ==
    \/ \E kind \in Kinds, named \in BOOLEAN : Opens(kind, named)
    \/ \E mark \in Spellings("text") : Says(mark)
    \/ \E whole \in BOOLEAN : Closes(whole)
    \/ \E reason \in {"stop", "length"} : Finishes(reason)
    \/ Stops \/ Cut
    \/ \E how \in {"error", "cancelled"} : Breaks(how)
    \/ NextAnswer

(***************************************************************************)
(* Properties.                                                             *)
(***************************************************************************)
Spoken == TextOf([b \in DOMAIN said |-> [Slot(b) EXCEPT !.pieces = said[b].pieces]])
InThought(i) ==
    \E j \in 1..i : /\ Spoken[j].mark = "<think>"
                    /\ \A k \in j..(i - 1) : Spoken[k].mark # "</think>"
Outside == LET thought == {Spoken[i] : i \in {n \in DOMAIN Spoken : InThought(n)}}
           IN SelectSeq(Spoken, LAMBDA p : p \notin thought)

(* A call that was cut may miss, or run without the arguments it had: the  *)
(* sampler marks them raw, converse drops them.                            *)
CallBlocks == SelectSeq([b \in DOMAIN said |-> b], LAMBDA b : said[b].kind = "call")
WasCut(b) == b = Len(said) /\ ~said[b].whole /\ finish = "length"
CallsAreAsSaid ==
    LET order == [i \in DOMAIN answer.calls |-> answer.calls[i].of]
    IN /\ \/ order = CallBlocks
          \/ CallBlocks # <<>> /\ WasCut(Last(CallBlocks)) /\ order = Front(CallBlocks)
       /\ \A call \in ToSet(answer.calls) :
            \/ call.form = (IF said[call.of].pieces = <<>> THEN "none" ELSE "whole")
            \/ call.form \in {"raw", "none"} /\ WasCut(call.of)

(* A value is the whole of what the server said, after it said that it is  *)
(* done: a cut connection is never taken for an answer, no piece of text   *)
(* and no call is lost, doubled or out of order, thoughts are not text,    *)
(* and the blocks kept for replay are those that were said.                *)
AnswerIsWhole ==
    fate = "value" =>
      /\ finish # "none"
      /\ answer.text = (IF wire = "converse" THEN Spoken ELSE Outside)
      /\ CallsAreAsSaid
      /\ wire = "anthropic" => answer.replay = [b \in DOMAIN said |-> said[b].pieces]

(* What the terminal was shown is what was said, in order and once, and of *)
(* a streamed answer it saw everything; converse shows text up to the      *)
(* first tool.                                                             *)
BeforeTools ==
    SelectSeq(Spoken, LAMBDA p : \A b \in 1..p.of : said[b].kind # "call")
ShownIsSaid ==
    /\ IsPrefix(shown, Spoken)
    /\ fate = "value" /\ Streamed =>
         shown = (IF wire = "converse" THEN BeforeTools ELSE Spoken)

(* An id the sampler makes up is never given to two calls, in one answer   *)
(* or in two.                                                              *)
MadeUpIdsDiffer == IsInjective(sampler.made)

AnswersAreTrue == AnswerIsWhole /\ ShownIsSaid /\ MadeUpIdsDiffer
=============================================================================
