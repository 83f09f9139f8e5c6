------------------------------- MODULE ToolPairs -------------------------------
(***************************************************************************)
(* What the runtime does to a transcript that has outgrown its window or   *)
(* whose tool calls have lost their results                                *)
(* (src/src/codedoggy/context/select.py, pruning.py, live_history.py and   *)
(* ContextCompactor._fold_middle).  A provider refuses a request in which  *)
(* a tool call is not followed by its result, so every one of these        *)
(* functions has to keep calls and results together.                       *)
(*                                                                         *)
(* A message is a record: role, the ids of the tool calls an assistant     *)
(* makes, the id a tool result answers, and its text.  Positions are       *)
(* 1-based here and 0-based in the code; a cut i keeps ms[i+1 ..].         *)
(***************************************************************************)
EXTENDS Naturals, FiniteSets, Sequences, SequencesExt

Blank == ""                       \* no text but whitespace
NoId == "no id"                   \* a call or result whose id is empty

User(t)         == [role |-> "user", calls |-> <<>>, id |-> NoId, text |-> t]
System(t)       == [role |-> "system", calls |-> <<>>, id |-> NoId, text |-> t]
Assistant(cs,t) == [role |-> "assistant", calls |-> cs, id |-> NoId, text |-> t]
ToolWithCalls(i,t) == [role |-> "tool", calls |-> <<i>>, id |-> i, text |-> t]
Tool(i,t)       == [role |-> "tool", calls |-> <<>>, id |-> i, text |-> t]

HasCalls(m) == m.calls # <<>>
IsResult(m) == m.role = "tool"

(* The messages at the positions P, in their order. *)
Picks(ms, P) ==                   \* of the first n messages, for each n
    LET picked[n \in 0 .. Len(ms)] ==
          IF n = 0 THEN <<>>
          ELSE IF n \in P THEN Append(picked[n - 1], ms[n]) ELSE picked[n - 1]
    IN picked
Picked(ms, P) == Picks(ms, P)[Len(ms)]
SystemOnly(ms) == Picked(ms, {k \in DOMAIN ms : ms[k].role = "system"})
NoSystem(ms) == Picked(ms, {k \in DOMAIN ms : ms[k].role # "system"})

(* The protocol: the results of an assistant's calls follow it at once, in *)
(* the order of the calls, and no result stands anywhere else.             *)
Answered(ms, i) ==
    \A j \in DOMAIN ms[i].calls :
        /\ i + j \in DOMAIN ms
        /\ IsResult(ms[i + j])
        /\ ms[i + j].id = ms[i].calls[j]
WellFormed(ms) ==
    \A i \in DOMAIN ms :
        /\ HasCalls(ms[i]) => Answered(ms, i)
        /\ IsResult(ms[i]) => \E a \in 1 .. i - 1 :
               /\ ~IsResult(ms[a]) /\ i - a <= Len(ms[a].calls)
               /\ \A k \in a + 1 .. i : IsResult(ms[k])

-----------------------------------------------------------------------------
(* sanitize_tool_pairs *)

Never(i) == Tool(i, "never executed")
Stripped(m) == [m EXCEPT !.calls = <<>>]

(* results_by_id, every queue already cut by the results taken so far *)
ResultsFor(ms, i) == Picked(ms, {k \in DOMAIN ms : IsResult(ms[k]) /\ ms[k].id = i})
WholeQueue(ms, taken, i) == ResultsFor(ms, i)
Queue(ms, taken, i) == LET q == ResultsFor(ms, i) IN SubSeq(q, taken[i] + 1, Len(q))

Uses(cs, j) == Cardinality({k \in 1 .. j : cs[k] = cs[j]})
(* the result appended for the j-th call of an assistant *)
LatestAnswer(ms, taken, cs, j) ==
    LET q == Queue(ms, taken, cs[j])
    IN IF q # <<>> THEN Last(q) ELSE Never(cs[j])
AnswerTo(ms, taken, cs, j) ==
    LET q == Queue(ms, taken, cs[j])
    IN IF Uses(cs, j) <= Len(q) THEN q[Uses(cs, j)] ELSE Never(cs[j])
IdsOf(ms) == UNION {ToSet(ms[i].calls) \cup {ms[i].id} : i \in DOMAIN ms}
Claim(taken, cs) ==
    [i \in DOMAIN taken |->
        taken[i] + Cardinality({k \in DOMAIN cs : cs[k] = i})]

(* The loop over the messages; taken[i]: results of i popped.              *)
SanitizeOne(ms, acc, m) ==
    LET cs == Picked(m.calls, {j \in DOMAIN m.calls : m.calls[j] # NoId})
        present == \E j \in DOMAIN cs : Queue(ms, acc.taken, cs[j]) # <<>>
    IN IF IsResult(m) THEN acc
       ELSE IF ~HasCalls(m) THEN [acc EXCEPT !.out = Append(@, m)]
       ELSE IF cs = <<>> THEN [acc EXCEPT !.out = Append(@, Stripped(m))]
       ELSE IF present
            THEN [out |-> acc.out \o <<m>>
                            \o [j \in DOMAIN cs |-> AnswerTo(ms, acc.taken, cs, j)],
                  taken |-> Claim(acc.taken, cs)]
       ELSE IF m.text # Blank THEN [acc EXCEPT !.out = Append(@, Stripped(m))]
       ELSE acc
Unsanitized(ms) == ms
Sanitizing(ms) ==                 \* after each of the messages
    LET after[n \in 0 .. Len(ms)] ==
          IF n = 0 THEN [out |-> <<>>, taken |-> [i \in IdsOf(ms) |-> 0]]
          ELSE SanitizeOne(ms, after[n - 1], ms[n])
    IN after
SanitizeToolPairs(ms) == Sanitizing(ms)[Len(ms)].out

-----------------------------------------------------------------------------
(* snap_to_safe_boundary, plan_fold_regions, hard_trim_safe *)

PastResults(ms, i) ==             \* the first cut at or after i not on a result
    Min({k \in i .. Len(ms) : k = Len(ms) \/ ~IsResult(ms[k + 1])})

NoSnap(ms, i) == Min({i, Len(ms)})
SnapToSafeBoundary(ms, i) ==
    LET a == SelectLastInSubSeq(ms, 1, i, LAMBDA m : ~IsResult(m))
    IN IF i = 0 THEN 0
       ELSE IF i >= Len(ms) THEN Len(ms)
       ELSE IF IsResult(ms[i + 1]) /\ a # 0 /\ HasCalls(ms[a])
            THEN PastResults(ms, i)
       ELSE IF HasCalls(ms[i]) THEN PastResults(ms, i)
       ELSE i

FoldAtTheCut(rest, protect, keep) ==
    LET cut == Max({0, Len(rest) - keep})
    IN [head |-> <<>>, middle |-> SubSeq(rest, 1, cut),
        tail |-> SubSeq(rest, cut + 1, Len(rest))]
PlanFoldRegions(rest, protect, keep) ==
    LET first == SnapToSafeBoundary(rest, Min({protect, Len(rest)}))
        head == SubSeq(rest, 1, first)
        body == SubSeq(rest, first + 1, Len(rest))
        cut == SnapToSafeBoundary(body, Len(body) - keep)
    IN IF Len(body) <= keep + 1 \/ cut = 0 \/ cut >= Len(body)
       THEN [head |-> head, middle |-> <<>>, tail |-> body]
       ELSE [head |-> head, middle |-> SubSeq(body, 1, cut),
             tail |-> SubSeq(body, cut + 1, Len(body))]

(* One turn of hard_trim_safe's loop: the group at the head goes. *)
DropGroup(ms) ==
    LET rest == Tail(ms)
        own(m) == \/ m.id = NoId \/ m.id \in ToSet(ms[1].calls)
                  \/ \A i \in ToSet(ms[1].calls) : i = NoId
        claimed(m) == \E k \in DOMAIN rest : m.id \in ToSet(rest[k].calls)
        kept == {k \in 0 .. Len(rest) :
                   \/ k = Len(rest)
                   \/ ~IsResult(rest[k + 1])
                   \/ IF HasCalls(ms[1]) THEN ~own(rest[k + 1])
                                         ELSE claimed(rest[k + 1])}
    IN SubSeq(rest, Min(kept) + 1, Len(rest))

LastOnes(system, rest, window) ==
    system \o SubSeq(rest, Max({0, Len(rest) - window}) + 1, Len(rest))
Trims(system, rest, window) ==    \* after each turn of the loop
    LET trim[n \in 0 .. Len(rest)] ==
          IF n = 0 THEN rest
          ELSE IF \/ Len(system) + Len(trim[n - 1]) <= window
                  \/ Len(trim[n - 1]) <= 2
               THEN trim[n - 1]
               ELSE DropGroup(trim[n - 1])
    IN trim
HardTrimSafe(system, rest, window) ==
    SanitizeToolPairs(system \o Trims(system, rest, window)[Len(rest)])

(* prune_retained_tool_results: only the last retain results keep a body.  *)
Cleared == "cleared"
PruneRetained(ms, retain) ==
    LET later(k) == Cardinality({i \in DOMAIN ms : i > k /\ IsResult(ms[i])})
    IN [k \in DOMAIN ms |->
          IF IsResult(ms[k]) /\ later(k) >= retain
          THEN [ms[k] EXCEPT !.text = Cleared] ELSE ms[k]]

-----------------------------------------------------------------------------
(* ContextCompactor._fold_middle, and the opening of the next prompt *)

Summary == User("summary")
FoldMiddle(ms, protect, keep, window) ==
    LET system == SystemOnly(ms)
        rest == NoSystem(ms)
        plan == PlanFoldRegions(rest, protect, keep)
    IN IF Len(rest) <= keep + protect + 1 THEN HardTrimSafe(system, rest, window)
       ELSE IF plan.middle = <<>> THEN SanitizeToolPairs(system \o plan.head \o plan.tail)
       ELSE SanitizeToolPairs(system \o plan.head \o <<Summary>> \o plan.tail)

SeedMessages(system, prior, prompt) ==
    system \o SanitizeToolPairs(NoSystem(prior))
           \o <<prompt>>
=============================================================================
