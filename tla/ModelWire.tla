------------------------------- MODULE ModelWire -------------------------------
(***************************************************************************)
(* How one transcript is sent to providers that want different things of   *)
(* it: the converters under src/src/codedoggy/model (anthropic_messages,   *)
(* anthropic_hygiene, protocol_context, prompt_caching, codex_responses,   *)
(* bedrock, openai_compat, reasoning).  A session may switch its provider  *)
(* between any two samples, so each must take what the others said.        *)
(*                                                                         *)
(* The transcript is what LiveHistory sends: every call has its result     *)
(* right after it, in order.  Text is whether there is any; a message's    *)
(* place in the transcript stands for its contents.                        *)
(***************************************************************************)
EXTENDS Naturals, Sequences, SequencesExt, FiniteSetsExt

CONSTANTS Targets,        \* providers a session may use
          CallIds,        \* ids models give their calls
          MaxMessages     \* bound on the transcript

ResponsesIssuers == {"codex", "grok"}
ASSUME WireAssumption ==
    /\ Targets \subseteq {"anthropic", "anthropic-compatible", "converse", "strict", "thinking"}
                           \cup ResponsesIssuers
    /\ MaxMessages \in Nat

VARIABLES
    log,       \* the transcript
    target,    \* the active provider
    request       \* the last request: messages or items; <<>> before

wires == <<log, target, request>>

(***************************************************************************)
(* The transcript.  by is the provider that made an assistant message,     *)
(* thinks that it came with reasoning, own that its text is the model's:   *)
(* the loop puts words into an answer without any.  kept: provider_data is *)
(* still there.                                                            *)
(***************************************************************************)
UserMessage == [role |-> "user"]
Result(id) == [role |-> "tool", id |-> id]
Said(by, thinks, own, ids, kept) ==
    [role |-> "assistant", by |-> by, thinks |-> thinks, text |-> own \/ ids = <<>>, own |-> own,
     calls |-> ids, kept |-> kept]
IsRole(i, role) == log[i].role = role
Indices == [i \in 1..Len(log) |-> i]
(* A piece of a request: its kind, the message it is from, a call's id and *)
(* whether it carries cache_control.                                       *)
Part(kind, i, id, mark) == [kind |-> kind, of |-> i, id |-> id, mark |-> mark]
NoCallId == "no id"
Plain(kind, i) == Part(kind, i, NoCallId, FALSE)
UseParts(i) == [n \in DOMAIN log[i].calls |-> Part("use", i, log[i].calls[n], FALSE)]
When(condition, part) == IF condition THEN <<part>> ELSE <<>>
Turn(role, parts) == [role |-> role, parts |-> parts]
AddToLast(turns, parts) == [turns EXCEPT ![Len(turns)].parts = @ \o parts]
LastIs(turns, role) == turns # <<>> /\ turns[Len(turns)].role = role

(***************************************************************************)
(* Anthropic.                                                              *)
(***************************************************************************)
(* apply_anthropic_cache_control: the system prompt and the last three     *)
(* messages.                                                               *)
FourBreakpoints == 4
Breakpoints == 3
Marked(i) == target = "anthropic" /\ i > Len(log) - Breakpoints
MarkLast(parts) ==
    IF parts[Len(parts)].kind = "filler" THEN parts ELSE [parts EXCEPT ![Len(parts)].mark = TRUE]
(* assistant_blocks_for_anthropic.  The marker of a text goes into the     *)
(* content, which kept blocks take the place of; other reasoning was       *)
(* stripped before.  Only Anthropic itself signs its thinking.             *)
Native(i) == log[i].kept /\ log[i].by \in {"anthropic", "anthropic-compatible"}
HasText(i) == IF Native(i) THEN log[i].own ELSE log[i].text
Thought(i) == Plain(IF log[i].by = "anthropic" THEN "thinking" ELSE "unsigned", i)
OrEmpty(parts, i) == IF parts = <<>> THEN <<Plain("filler", i)>> ELSE parts
Blocks(i) ==
    OrEmpty(When(Native(i) /\ log[i].thinks, Thought(i))
            \o When(HasText(i), Part("text", i, NoCallId, Marked(i) /\ ~Native(i)))
            \o UseParts(i), i)
AssistantBlocks(i) == IF Marked(i) /\ ~log[i].text THEN MarkLast(Blocks(i)) ELSE Blocks(i)
AllResults(turn) == \A n \in DOMAIN turn.parts : turn.parts[n].kind = "result"
ToAnthropic(turns, i) ==
    CASE IsRole(i, "tool") /\ LastIs(turns, "user") /\ AllResults(turns[Len(turns)]) ->
            AddToLast(turns, <<Part("result", i, log[i].id, Marked(i))>>)
      [] IsRole(i, "assistant") -> Append(turns, Turn("assistant", AssistantBlocks(i)))
      [] IsRole(i, "user") -> Append(turns, Turn("user", <<Part("text", i, NoCallId, Marked(i))>>))
      [] OTHER -> Append(turns, Turn("user", <<Part("result", i, log[i].id, Marked(i))>>))

(* strip_orphaned_tool_blocks: a use needs its result in the next message, *)
(* a result a use that is left.  No call of this transcript is an orphan,  *)
(* so the flag that spoils signatures is not modelled.                     *)
PartIds(parts, kind) == {p.id : p \in {q \in ToSet(parts) : q.kind = kind}}
AnsweredNext(turns, i) ==
    IF i < Len(turns) /\ turns[i + 1].role = "user" THEN PartIds(turns[i + 1].parts, "result") ELSE {}
KeepUses(turns) ==
    [i \in DOMAIN turns |->
       [turns[i] EXCEPT !.parts = SelectSeq(@, LAMBDA p : p.kind = "use" => p.id \in AnsweredNext(turns, i))]]
KeepResults(turns) ==
    [i \in DOMAIN turns |->
       [turns[i] EXCEPT !.parts = SelectSeq(@, LAMBDA p :
          p.kind = "result" => \E k \in DOMAIN turns : p.id \in PartIds(turns[k].parts, "use"))]]
StripOrphans(turns) == KeepResults(KeepUses(turns))

(* merge_consecutive_roles: the thinking of a second assistant is dropped. *)
NoThinking(parts) == SelectSeq(parts, LAMBDA p : p.kind \notin {"thinking", "unsigned"})
MergeTurn(turns, turn) ==
    IF LastIs(turns, turn.role)
    THEN AddToLast(turns, IF turn.role = "user" THEN turn.parts ELSE NoThinking(turn.parts))
    ELSE Append(turns, turn)
Merge(turns) == FoldLeft(MergeTurn, <<>>, turns)

(* manage_thinking_signatures: on Anthropic's own endpoint the last        *)
(* assistant keeps signed thinking, and its unsigned thinking becomes text. *)
LastAssistant(turns) == Max({i \in DOMAIN turns : turns[i].role = "assistant"} \cup {0})
KeepsAllThinking(turns, i) == target = "anthropic"
KeepsThinking(turns, i) == target = "anthropic" /\ i = LastAssistant(turns)
Demote(part) == IF part.kind = "unsigned" THEN [part EXCEPT !.kind = "demoted"] ELSE part
Managed(turns, i) ==
    IF KeepsThinking(turns, i) THEN [n \in DOMAIN turns[i].parts |-> Demote(turns[i].parts[n])]
    ELSE OrEmpty(NoThinking(turns[i].parts), 0)
ManageThinking(turns) ==
    [i \in DOMAIN turns |->
       IF turns[i].role = "user" THEN turns[i] ELSE Turn("assistant", Managed(turns, i))]
AnthropicTurns == ManageThinking(Merge(StripOrphans(FoldLeft(ToAnthropic, <<>>, Indices))))

(***************************************************************************)
(* Responses items.                                                        *)
(***************************************************************************)
ItemOf(part) == [role |-> part.kind, parts |-> <<part>>]
AnyReasoning(i) == TRUE
OwnReasoning(i) == log[i].by = target
HasReasoning(i) == log[i].kept /\ log[i].thinks /\ log[i].by \in ResponsesIssuers /\ OwnReasoning(i)
(* The sampler carried the call_id of a responses call along; without it   *)
(* an item id fc_x becomes call_x.                                         *)
CallIdOfItem(id) == IF id = "fc_1" THEN "call_1" ELSE id
CallIdOf(id) == id
ToItems(items, i) ==
    CASE IsRole(i, "assistant") ->
            items \o When(HasReasoning(i), ItemOf(Plain("reasoning", i)))
                  \o When(log[i].text \/ HasReasoning(i),
                          ItemOf(Plain(IF log[i].text THEN "text" ELSE "filler", i)))
                  \o [n \in DOMAIN log[i].calls |->
                        ItemOf(Part("use", i, CallIdOf(log[i].calls[n]), FALSE))]
      [] IsRole(i, "tool") -> Append(items, ItemOf(Part("result", i, log[i].id, FALSE)))
      [] OTHER -> Append(items, ItemOf(Plain("text", i)))
ResponsesItems == FoldLeft(ToItems, <<>>, Indices)

(***************************************************************************)
(* Converse.                                                               *)
(***************************************************************************)
AddTurn(turns, role, parts) ==
    IF LastIs(turns, role) THEN AddToLast(turns, parts) ELSE Append(turns, Turn(role, parts))
ToConverse(turns, i) ==
    CASE IsRole(i, "tool") -> AddTurn(turns, "user", <<Part("result", i, log[i].id, FALSE)>>)
      [] IsRole(i, "assistant") ->
            AddTurn(turns, "assistant", OrEmpty(When(log[i].text, Plain("text", i)) \o UseParts(i), i))
      [] OTHER -> AddTurn(turns, "user", <<Plain("text", i)>>)
Padding == <<Turn("user", <<Plain("filler", 0)>>)>>
WithUserEnds(turns) ==
    (IF LastIs(SubSeq(turns, 1, 1), "user") THEN <<>> ELSE Padding)
    \o turns \o (IF LastIs(turns, "user") THEN <<>> ELSE Padding)
ConverseTurns == WithUserEnds(FoldLeft(ToConverse, <<>>, Indices))

(***************************************************************************)
(* Chat completions, where reasoning is stripped (strict) or required      *)
(* (thinking).                                                             *)
(***************************************************************************)
Echo(i) ==
    IF target = "strict" THEN <<>>
    ELSE <<Plain(IF log[i].thinks THEN "reasoning" ELSE "pad", i)>>
ChatMessage(i) ==
    CASE IsRole(i, "assistant") ->
            Turn("assistant", Echo(i) \o When(log[i].text, Plain("text", i)) \o UseParts(i))
      [] IsRole(i, "tool") -> Turn("tool", <<Part("result", i, log[i].id, FALSE)>>)
      [] OTHER -> Turn("user", <<Plain("text", i)>>)
ChatMessages == [i \in DOMAIN log |-> ChatMessage(i)]

Request ==
    CASE target \in {"anthropic", "anthropic-compatible"} -> AnthropicTurns
      [] target \in ResponsesIssuers -> ResponsesItems
      [] target = "converse" -> ConverseTurns
      [] OTHER -> ChatMessages

(***************************************************************************)
(* A session: the user speaks, the model answers, the provider changes.    *)
(***************************************************************************)
WireInit == log = <<UserMessage>> /\ target \in Targets /\ request = <<>>
Answerable == LastIs(log, "user") \/ LastIs(log, "tool")
UserSays ==
    /\ log' = Append(log, UserMessage) /\ request' = <<>>
    /\ UNCHANGED target
(* An answer and its calls' results.                                       *)
ModelSays(thinks, own, ids) ==
    /\ Answerable
    /\ log' = Append(log, Said(target, thinks, own, ids, TRUE))
                 \o [n \in DOMAIN ids |-> Result(ids[n])]
    /\ request' = <<>> /\ UNCHANGED target
(* The turn ended before any of its calls ran: sanitize_tool_pairs drops   *)
(* the calls and the provider's data.                                      *)
CallsDropped ==
    /\ Answerable /\ log' = Append(log, Said(target, FALSE, TRUE, <<>>, FALSE))
    /\ request' = <<>> /\ UNCHANGED target
Switch(p) ==
    /\ target' = p /\ request' = <<>>
    /\ UNCHANGED log
SendRequest ==
    /\ Answerable /\ request' = Request
    /\ UNCHANGED <<log, target>>

(* Up to two calls; ids come back in later answers.                        *)
CallLists == {<<>>} \cup {<<id>> : id \in CallIds}
             \cup {pair \in CallIds \X CallIds : pair[1] # pair[2]}
WireNext ==
    \/ /\ Len(log) < MaxMessages
       /\ \/ UserSays
          \/ \E thinks, own \in BOOLEAN, ids \in CallLists : ModelSays(thinks, own, ids)
          \/ CallsDropped
    \/ \E p \in Targets \ {target} : Switch(p)
    \/ SendRequest

(***************************************************************************)
(* Properties.                                                             *)
(***************************************************************************)
SentParts == FlattenSeq([i \in DOMAIN request |-> request[i].parts])
SentOf(kinds) == SelectSeq(SentParts, LAMBDA p : p.kind \in kinds)
InTurns == target \in {"anthropic", "anthropic-compatible", "converse"}

(* Everything said, called and answered reaches the provider, in order,    *)
(* but for the loop's words where Anthropic's own blocks are replayed.     *)
Content(i) ==
    CASE IsRole(i, "assistant") ->
            When(log[i].own \/ (log[i].text /\ target # "anthropic" /\ target # "anthropic-compatible")
                 \/ (log[i].text /\ ~Native(i)), <<"text", i, NoCallId>>)
            \o [n \in DOMAIN log[i].calls |-> <<"use", i, log[i].calls[n]>>]
      [] IsRole(i, "tool") -> <<<<"result", i, log[i].id>>>>
      [] OTHER -> <<<<"text", i, NoCallId>>>>
AllContent == FlattenSeq([i \in DOMAIN log |-> Content(i)])
SentContent == LET sent == SentOf({"text", "use", "result"})
               IN [n \in DOMAIN sent |-> <<sent[n].kind, sent[n].of, sent[n].id>>]

(* Turns alternate and begin with the user, and the results of a turn's    *)
(* calls are all in the next turn.                                         *)
TurnsAreLegal ==
    /\ request[1].role = "user"
    /\ target = "converse" => request[Len(request)].role = "user"
    /\ \A i \in 2..Len(request) :
         /\ request[i].role # request[i - 1].role
         /\ PartIds(request[i].parts, "result") = PartIds(request[i - 1].parts, "use")

(* Reasoning goes back only to the provider that can read it: signed       *)
(* thinking of Anthropic's in the last assistant turn, encrypted items to  *)
(* their issuer and followed by what they led to; a strict endpoint sees   *)
(* none, a thinking one finds it on every assistant message.               *)
LastAssistantTurn == Max({i \in DOMAIN request : request[i].role = "assistant"} \cup {0})
ReasoningIsLegal ==
    CASE InTurns ->
            \A i \in DOMAIN request : \A p \in ToSet(request[i].parts) :
               /\ p.kind # "unsigned"
               /\ p.kind = "thinking" =>
                    target = "anthropic" /\ i = LastAssistantTurn /\ log[p.of].by = target
      [] target \in ResponsesIssuers ->
            \A n \in DOMAIN SentParts : SentParts[n].kind = "reasoning" =>
               /\ log[SentParts[n].of].by = target
               /\ n < Len(SentParts) /\ SentParts[n + 1].of = SentParts[n].of
      [] target = "strict" -> SentOf({"reasoning", "pad"}) = <<>>
      [] OTHER -> \A i \in DOMAIN request : request[i].role = "assistant" =>
                     request[i].parts # <<>> /\ request[i].parts[1].kind \in {"reasoning", "pad"}

(* At most four cache breakpoints with the system prompt's and the tools', *)
(* none on thinking.                                                       *)
MarkCount == Cardinality({n \in DOMAIN SentParts : SentParts[n].mark}) + 1
MarksFit ==
    /\ MarkCount + (IF MarkCount < 4 THEN 1 ELSE 0) <= 4
    /\ \A n \in DOMAIN SentParts : SentParts[n].mark => SentParts[n].kind # "thinking"

RequestIsLegal ==
    request # <<>> =>
      /\ SentContent = AllContent
      /\ InTurns => TurnsAreLegal
      /\ ReasoningIsLegal
      /\ target = "anthropic" => MarksFit
=============================================================================
