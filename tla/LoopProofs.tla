------------------------------ MODULE LoopProofs ------------------------------
(***************************************************************************)
(* Proofs about AgentLoop, for any batches of calls, any number of workers *)
(* and any turn limits; about ModelRetry, for any number of turns that     *)
(* share a client; and about PatchApply, for patches of any length, any    *)
(* files and any number of edits by others.                                *)
(***************************************************************************)
EXTENDS AgentLoop, ModelRetry, PatchApply, SequenceTheorems, FiniteSetTheorems,
        WellFoundedInduction, TLAPS

Asked == <<Assistant(calls, "prose")>>
Note(m) == m.calls = <<>> /\ ~IsResult(m)

(* The transcript before the first sample, or when an abort came before    *)
(* the calls of the last one were looked at.                               *)
NoResults(ms) == \A k \in DOMAIN ms : ~IsResult(ms[k])
NoneRan == \A j \in DOMAIN job : job[j] # "ran"

(* The transcript behind a batch: the calls, their results, and notes.     *)
Reported(ms) ==
    /\ Len(ms) > Len(calls) /\ ms[1] = Asked[1]
    /\ \A j \in DOMAIN calls :
          /\ ms[j + 1] = Tool(calls[j], ms[j + 1].text)
          /\ ms[j + 1].text = "ran" <=> job[j] = "ran"
    /\ \A k \in DOMAIN ms : k > Len(calls) + 1 => Note(ms[k])
Opening(ms) == calls = <<>> /\ \A k \in DOMAIN ms : Note(ms[k])

(* What the transcript looks like, where the loop is.                      *)
TranscriptFits ==
    /\ pc = "gate" => calls = <<>>
    /\ pc \in {"gate", "prepare", "execute"} => messages = Asked
    /\ pc \in {"head", "sample", "settle"} => Opening(messages) \/ Reported(messages)
    /\ pc = "over" => \/ result = "raised" \/ Opening(messages) \/ Reported(messages)
                      \/ result = "aborted" /\ NoResults(messages) /\ NoneRan

(* How far the batch is: no call runs that was not approved, and none is   *)
(* left running behind the batch.                                          *)
BatchFits ==
    /\ pc # "execute" => \A j \in DOMAIN job : job[j] \in Settled
    /\ pc \in {"gate", "prepare"} => \A j \in DOMAIN job : job[j] = "none"
    /\ pc \in {"prepare", "execute"} => Len(verdicts) <= Len(calls)
    /\ pc = "execute" =>
          /\ Len(verdicts) = Len(calls)
          /\ \A j \in DOMAIN job : job[j] # "none" => verdicts[j] = "approve"

(* No approval of a mutating call is pending once writes are paused.       *)
PauseFits ==
    pc \in {"prepare", "execute"} /\ paused =>
        \A j \in DOMAIN verdicts : verdicts[j] = "approve" => calls[j] \notin Mutating

EndFits == (result = "none" <=> pc # "over") /\ CompletedMeansDone

LoopInv == /\ TypeOK /\ TranscriptFits /\ BatchFits /\ PauseFits /\ EndFits
           /\ WritersTakeTurns /\ InterjectionsKept

-----------------------------------------------------------------------------
(* Transcripts *)

Whole(ms) == Opening(ms) \/ Reported(ms)

(* The messages the loop makes.                                            *)
LEMMA Messages ==
    /\ \A t \in TurnTexts : User(t) \in TurnMessages /\ Note(User(t)) /\ ~IsResult(User(t))
    /\ \A c \in Calls, t \in TurnTexts : Tool(c, t) \in TurnMessages
    /\ \A cs \in Seq(Calls), t \in TurnTexts : Assistant(cs, t) \in TurnMessages
<1>1. \A t \in TurnTexts : User(t) \in TurnMessages /\ Note(User(t)) /\ ~IsResult(User(t))
  BY DEF User, Note, IsResult, TurnMessages
<1>2. \A c \in Calls, t \in TurnTexts : Tool(c, t) \in TurnMessages
  BY DEF Tool, TurnMessages
<1>3. \A cs \in Seq(Calls), t \in TurnTexts : Assistant(cs, t) \in TurnMessages
  BY DEF Assistant, TurnMessages
<1> QED BY <1>1, <1>2, <1>3

(* Notes at the end of a transcript leave its calls answered.              *)
LEMMA NotesAtTheEnd ==
    ASSUME TypeOK, NEW ms \in Seq(TurnMessages), NEW us \in Seq(TurnMessages),
           \A k \in DOMAIN us : Note(us[k])
    PROVE  /\ ms \o us \in Seq(TurnMessages)
           /\ Whole(ms) => Whole(ms \o us)
           /\ NoResults(ms) => NoResults(ms \o us)
<1> DEFINE both == ms \o us
<1>1. /\ both \in Seq(TurnMessages) /\ Len(both) = Len(ms) + Len(us)
      /\ Len(ms) \in Nat /\ Len(us) \in Nat
      /\ DOMAIN ms = 1..Len(ms) /\ DOMAIN both = 1..Len(both)
      /\ \A k \in 1..Len(ms) : both[k] = ms[k]
  OBVIOUS
<1>2. \A k \in DOMAIN both : k \notin DOMAIN ms => Note(both[k])
  <2> SUFFICES ASSUME NEW k \in DOMAIN both, k \notin DOMAIN ms PROVE Note(both[k]) OBVIOUS
  <2>1. k - Len(ms) \in DOMAIN us /\ both[k] = us[k - Len(ms)] BY <1>1
  <2> QED BY <2>1
<1> HIDE DEF both
<1>3. Len(calls) \in Nat /\ DOMAIN calls = 1..Len(calls) BY LoopAssumption DEF TypeOK
<1>4. ASSUME Opening(ms) PROVE Opening(both)
  BY <1>1, <1>2, <1>4 DEF Opening
<1>5. ASSUME Reported(ms) PROVE Reported(both)
  <2>1. Len(both) > Len(calls) /\ both[1] = Asked[1] BY <1>1, <1>3, <1>5 DEF Reported
  <2>2. \A j \in DOMAIN calls : both[j + 1] = ms[j + 1] BY <1>1, <1>3, <1>5 DEF Reported
  <2>3. \A k \in DOMAIN both : k > Len(calls) + 1 => Note(both[k])
    BY <1>1, <1>2, <1>3, <1>5 DEF Reported
  <2> QED BY <2>1, <2>2, <2>3, <1>5 DEF Reported
<1>6. ASSUME NoResults(ms) PROVE NoResults(both)
  BY <1>1, <1>2, <1>6 DEF NoResults, Note
<1> QED BY <1>1, <1>4, <1>5, <1>6 DEF Whole, both

(* A turn that ends keeps its transcript but for notes.                    *)
LEMMA Finished ==
    ASSUME TypeOK, NEW reason, NEW ms \in Seq(TurnMessages), Finish(reason, ms)
    PROVE  /\ pc' = "over" /\ result' = reason
           /\ messages' \in Seq(TurnMessages)
           /\ Whole(ms) => Whole(messages')
           /\ NoResults(ms) => NoResults(messages')
<1>1. CASE messages' = ms BY <1>1 DEF Finish
<1>2. CASE messages' = Append(ms, User("notes"))
  <2> DEFINE note == User("notes")
  <2>1. note \in TurnMessages /\ Note(note) BY Messages DEF TurnTexts
  <2> HIDE DEF note
  <2>2. <<note>> \in Seq(TurnMessages) /\ \A k \in DOMAIN <<note>> : Note(<<note>>[k])
    BY <2>1
  <2>3. messages' = ms \o <<note>> BY <1>2, <2>1 DEF note
  <2> QED BY <2>2, <2>3, NotesAtTheEnd DEF Finish
<1> QED BY <1>1, <1>2 DEF Finish

(* Interjections go to the model as notes, in order.                       *)
LEMMA Drained ==
    ASSUME TypeOK, InterjectionsKept, Drain(messages), pushed' = pushed
    PROVE  /\ messages' \in Seq(TurnMessages)
           /\ Whole(messages) => Whole(messages')
           /\ buffer' \in Seq(Nat) /\ heard' \in Seq(Nat) /\ InterjectionsKept'
<1>1. /\ messages \in Seq(TurnMessages) /\ buffer \in Seq(Nat) /\ heard \in Seq(Nat)
  BY DEF TypeOK
<1>2. Framed(buffer) \in Seq(TurnMessages) /\ \A k \in DOMAIN Framed(buffer) : Note(Framed(buffer)[k])
  <2>1. User("interjection") \in TurnMessages /\ Note(User("interjection"))
    BY Messages DEF TurnTexts
  <2>2. DOMAIN buffer = 1..Len(buffer) /\ Len(buffer) \in Nat BY <1>1
  <2> QED BY <2>1, <2>2 DEF Framed
<1>3. messages' \in Seq(TurnMessages) /\ (Whole(messages) => Whole(messages'))
  BY <1>1, <1>2, NotesAtTheEnd DEF Drain
<1>4. /\ buffer' = <<>> /\ heard' = heard \o buffer BY DEF Drain
<1>5. heard' \in Seq(Nat) /\ heard' \o buffer' = heard \o buffer BY <1>1, <1>4
<1> QED BY <1>3, <1>4, <1>5 DEF InterjectionsKept

(* One more interjection is one more number at the end.                    *)
LEMMA Pushed ==
    ASSUME TypeOK, InterjectionsKept, heard' = heard, pushed' = pushed + 1,
           buffer' = Append(buffer, pushed + 1)
    PROVE  buffer' \in Seq(Nat) /\ InterjectionsKept'
<1> DEFINE s == heard \o buffer
<1>1. /\ buffer \in Seq(Nat) /\ heard \in Seq(Nat) /\ pushed \in Nat BY DEF TypeOK
<1>2. s \in Seq(Nat) /\ s = [k \in 1 .. pushed |-> k] BY <1>1 DEF InterjectionsKept
<1>3. Len(s) = pushed BY <1>1, <1>2
<1>4. heard \o Append(buffer, pushed + 1) = Append(s, pushed + 1) BY <1>1
<1> HIDE DEF s
<1>5. Append(s, pushed + 1) = [k \in 1 .. pushed + 1 |-> k]
  <2>1. /\ Append(s, pushed + 1) \in Seq(Nat) /\ Len(Append(s, pushed + 1)) = pushed + 1
        /\ \A k \in 1 .. pushed + 1 : Append(s, pushed + 1)[k] = k
    BY <1>1, <1>2, <1>3
  <2> QED BY <1>1, <2>1
<1>6. buffer' \in Seq(Nat) BY <1>1
<1>7. heard' \o buffer' = heard \o Append(buffer, pushed + 1) OBVIOUS
<1> QED BY <1>4, <1>5, <1>6, <1>7, Zenon DEF InterjectionsKept, s

(* A sequence behind one element.                                          *)
LEMMA Behind ==
    ASSUME NEW S, NEW a \in S, NEW s \in Seq(S)
    PROVE  /\ <<a>> \o s \in Seq(S) /\ Len(<<a>> \o s) = Len(s) + 1 /\ Len(s) \in Nat
           /\ (<<a>> \o s)[1] = a /\ DOMAIN s = 1 .. Len(s)
           /\ \A k \in 1 .. Len(s) : (<<a>> \o s)[k + 1] = s[k]
           /\ DOMAIN (<<a>> \o s) = 1 .. Len(s) + 1
OBVIOUS

(* The results written behind a batch answer its calls.                    *)
LEMMA ResultsAnswer ==
    ASSUME TypeOK, NEW rs \in Seq(TurnMessages), Len(rs) = Len(calls),
           \A j \in DOMAIN calls : /\ rs[j] = Tool(calls[j], rs[j].text)
                                   /\ rs[j].text = "ran" <=> job[j] = "ran"
    PROVE  Asked \o rs \in Seq(TurnMessages) /\ Reported(Asked \o rs)
<1>1. /\ calls \in Seq(Calls) /\ DOMAIN calls = 1..Len(calls) /\ Len(calls) \in Nat
  BY LoopAssumption DEF TypeOK
<1>2. Asked[1] \in TurnMessages /\ Asked = <<Asked[1]>>
  BY <1>1, Messages DEF Asked, TurnTexts
<1> DEFINE all == Asked \o rs
<1>b. all = <<Asked[1]>> \o rs BY <1>2, Zenon
<1> HIDE DEF all
<1>3. /\ all \in Seq(TurnMessages) /\ Len(all) = Len(calls) + 1 /\ all[1] = Asked[1]
      /\ \A j \in DOMAIN calls : all[j + 1] = rs[j]
      /\ DOMAIN all = 1 .. Len(all)
  <2> HIDE DEF Asked
  <2> DEFINE a == Asked[1]
  <2>1. a \in TurnMessages /\ all = <<a>> \o rs BY <1>2, <1>b
  <2> HIDE DEF a
  <2>2. /\ all \in Seq(TurnMessages) /\ Len(all) = Len(rs) + 1 /\ all[1] = a
        /\ \A j \in 1 .. Len(rs) : all[j + 1] = rs[j]
        /\ DOMAIN all = 1 .. Len(rs) + 1
    BY <2>1, Behind
  <2> QED BY <1>1, <2>2 DEF a
<1>4. Reported(all) BY <1>1, <1>3 DEF Reported
<1> QED BY <1>3, <1>4 DEF all

-----------------------------------------------------------------------------
(* The invariant *)

(* A turn starts with a prompt and no batch.                               *)
THEOREM LoopStarts == Init => LoopInv
<1> SUFFICES ASSUME Init PROVE LoopInv OBVIOUS
<1> USE DEF Init
<1>1. TypeOK
  <2>1. User("prompt") \in TurnMessages BY Messages DEF TurnTexts
  <2>2. messages \in Seq(TurnMessages) BY <2>1
  <2>3. /\ calls = <<>> /\ verdicts \in Seq(Judgements \cup {"cancelled"})
        /\ job \in [DOMAIN calls -> Settled \cup {"queued", "taken", "running"}]
        /\ buffer \in Seq(Nat) /\ heard \in Seq(Nat)
    OBVIOUS
  <2>4. limit \in Limits /\ rounds \in Nat /\ resubmits \in 0 .. MaxResubmits
    BY LoopAssumption
  <2> QED BY <2>2, <2>3, <2>4 DEF TypeOK
<1>2. TranscriptFits
  <2>1. Note(User("prompt")) BY Messages DEF TurnTexts
  <2>2. Opening(messages) BY <2>1 DEF Opening
  <2> QED BY <2>2 DEF TranscriptFits
<1>3. BatchFits /\ PauseFits /\ EndFits
  BY DEF BatchFits, PauseFits, EndFits, CompletedMeansDone
<1>4. WritersTakeTurns BY DEF WritersTakeTurns
<1>5. InterjectionsKept BY DEF InterjectionsKept
<1> QED BY <1>1, <1>2, <1>3, <1>4, <1>5 DEF LoopInv

(* Every step of the loop, of a worker and of the rest of the program      *)
(* keeps the invariant.                                                    *)
THEOREM LoopStep == LoopInv /\ [Next]_vars => LoopInv'
<1> SUFFICES ASSUME LoopInv, [Next]_vars PROVE LoopInv' OBVIOUS
<1> USE LoopAssumption DEF LoopInv, batch, outside
<1>1. CASE Head_
  <2>m. /\ messages' \in Seq(TurnMessages) /\ Whole(messages') /\ UNCHANGED <<calls, job>>
        /\ buffer' \in Seq(Nat) /\ heard' \in Seq(Nat) /\ InterjectionsKept'
        /\ \/ pc' = "sample" /\ UNCHANGED result
           \/ pc' = "over" /\ result' \in {"cancelled", "max_turns"}
    <3>1. messages \in Seq(TurnMessages) BY DEF TypeOK
    <3>2. Whole(messages) BY <1>1 DEF Head_, TranscriptFits, Whole
    <3>3. CASE Drain(messages) /\ pc' = "sample" /\ UNCHANGED result
      BY <1>1, <3>2, <3>3, Drained DEF Head_
    <3>4. ASSUME NEW r \in {"cancelled", "max_turns"}, Finish(r, messages), UNCHANGED <<buffer, heard>>
          PROVE  /\ messages' \in Seq(TurnMessages) /\ Whole(messages')
                 /\ pc' = "over" /\ result' \in {"cancelled", "max_turns"}
      <4>1. pc' = "over" /\ result' = r /\ messages' \in Seq(TurnMessages) /\ Whole(messages')
        BY <3>1, <3>2, <3>4, Finished
      <4> QED BY <4>1
    <3>5. \/ Drain(messages) /\ pc' = "sample" /\ UNCHANGED result
          \/ \E r \in {"cancelled", "max_turns"} : Finish(r, messages) /\ UNCHANGED <<buffer, heard>>
      BY <1>1 DEF Head_
    <3>6. UNCHANGED <<calls, job, pushed>> BY <1>1 DEF Head_
    <3>7. CASE UNCHANGED <<buffer, heard>> 
      BY <3>3, <3>4, <3>5, <3>6, <3>7 DEF InterjectionsKept, TypeOK
    <3> QED BY <3>3, <3>5, <3>6, <3>7
  <2>f. Whole(messages)' BY <2>m DEF Whole, Opening, Reported, Asked
  <2>11. TypeOK'
    BY <1>1, <2>m DEF Head_, TypeOK
  <2>12. TranscriptFits'
    BY <1>1, <2>m, <2>f DEF Head_, TranscriptFits, Whole
  <2>13. BatchFits'
    BY <1>1, <2>m, <2>f DEF Head_, BatchFits, TypeOK
  <2>14. PauseFits'
    BY <1>1, <2>m, <2>f DEF Head_, PauseFits, BatchFits, TypeOK
  <2>15. EndFits'
    BY <1>1, <2>m, <2>f DEF Head_, EndFits, CompletedMeansDone
  <2>16. WritersTakeTurns'
    BY <1>1, <2>m, <2>f DEF Head_, WritersTakeTurns, BatchFits, Settled
  <2>17. InterjectionsKept'
    BY <2>m
  <2> QED BY <2>11, <2>12, <2>13, <2>14, <2>15, <2>16, <2>17
<1>2. CASE SampleFenced
  <2>m. pc' = "over" /\ result' = "cancelled" /\ messages' \in Seq(TurnMessages) /\ Whole(messages')
    <3>1. messages \in Seq(TurnMessages) BY DEF TypeOK
    <3>2. Whole(messages) BY <1>2 DEF SampleFenced, TranscriptFits, Whole
    <3>3. Finish("cancelled", messages) BY <1>2 DEF SampleFenced
    <3> QED BY <3>1, <3>2, <3>3, Finished
  <2>f. Whole(messages)'
    <3>1. UNCHANGED <<calls, job>> BY <1>2 DEF SampleFenced
    <3> QED BY <3>1, <2>m DEF Whole, Opening, Reported, Asked
  <2>11. TypeOK'
    BY <1>2, <2>m, <2>f DEF SampleFenced, TypeOK
  <2>12. TranscriptFits'
    BY <1>2, <2>m, <2>f DEF SampleFenced, TranscriptFits, Whole
  <2>13. BatchFits'
    BY <1>2, <2>m, <2>f DEF SampleFenced, BatchFits, TypeOK
  <2>14. PauseFits'
    BY <1>2, <2>m, <2>f DEF SampleFenced, PauseFits, BatchFits, TypeOK
  <2>15. EndFits'
    BY <1>2, <2>m, <2>f DEF SampleFenced, EndFits, CompletedMeansDone
  <2>16. WritersTakeTurns'
    BY <1>2, <2>m, <2>f DEF SampleFenced, WritersTakeTurns, BatchFits, Settled
  <2>17. InterjectionsKept'
    BY <1>2, <2>m, <2>f DEF SampleFenced, InterjectionsKept
  <2> QED BY <2>11, <2>12, <2>13, <2>14, <2>15, <2>16, <2>17
<1>3. CASE StreamStopped
  <2>m. pc' = "over" /\ result' = "cancelled" /\ messages' \in Seq(TurnMessages) /\ Whole(messages')
    <3>1. messages \in Seq(TurnMessages) BY DEF TypeOK
    <3>2. Whole(messages) BY <1>3 DEF StreamStopped, TranscriptFits, Whole
    <3>3. Finish("cancelled", messages) BY <1>3 DEF StreamStopped
    <3> QED BY <3>1, <3>2, <3>3, Finished
  <2>f. Whole(messages)'
    <3>1. UNCHANGED <<calls, job>> BY <1>3 DEF StreamStopped
    <3> QED BY <3>1, <2>m DEF Whole, Opening, Reported, Asked
  <2>11. TypeOK'
    BY <1>3, <2>m, <2>f DEF StreamStopped, TypeOK
  <2>12. TranscriptFits'
    BY <1>3, <2>m, <2>f DEF StreamStopped, TranscriptFits, Whole
  <2>13. BatchFits'
    BY <1>3, <2>m, <2>f DEF StreamStopped, BatchFits, TypeOK
  <2>14. PauseFits'
    BY <1>3, <2>m, <2>f DEF StreamStopped, PauseFits, BatchFits, TypeOK
  <2>15. EndFits'
    BY <1>3, <2>m, <2>f DEF StreamStopped, EndFits, CompletedMeansDone
  <2>16. WritersTakeTurns'
    BY <1>3, <2>m, <2>f DEF StreamStopped, WritersTakeTurns, BatchFits, Settled
  <2>17. InterjectionsKept'
    BY <1>3, <2>m, <2>f DEF StreamStopped, InterjectionsKept
  <2> QED BY <2>11, <2>12, <2>13, <2>14, <2>15, <2>16, <2>17
<1>4. CASE SampleFails
  <2>m. pc' = "over" /\ result' = "error" /\ messages' \in Seq(TurnMessages) /\ Whole(messages')
    <3>1. messages \in Seq(TurnMessages) BY DEF TypeOK
    <3>2. Whole(messages) BY <1>4 DEF SampleFails, TranscriptFits, Whole
    <3>3. Finish("error", messages) BY <1>4 DEF SampleFails
    <3> QED BY <3>1, <3>2, <3>3, Finished
  <2>f. Whole(messages)'
    <3>1. UNCHANGED <<calls, job>> BY <1>4 DEF SampleFails
    <3> QED BY <3>1, <2>m DEF Whole, Opening, Reported, Asked
  <2>11. TypeOK'
    BY <1>4, <2>m, <2>f DEF SampleFails, TypeOK
  <2>12. TranscriptFits'
    BY <1>4, <2>m, <2>f DEF SampleFails, TranscriptFits, Whole
  <2>13. BatchFits'
    BY <1>4, <2>m, <2>f DEF SampleFails, BatchFits, TypeOK
  <2>14. PauseFits'
    BY <1>4, <2>m, <2>f DEF SampleFails, PauseFits, BatchFits, TypeOK
  <2>15. EndFits'
    BY <1>4, <2>m, <2>f DEF SampleFails, EndFits, CompletedMeansDone
  <2>16. WritersTakeTurns'
    BY <1>4, <2>m, <2>f DEF SampleFails, WritersTakeTurns, BatchFits, Settled
  <2>17. InterjectionsKept'
    BY <1>4, <2>m, <2>f DEF SampleFails, InterjectionsKept
  <2> QED BY <2>11, <2>12, <2>13, <2>14, <2>15, <2>16, <2>17
<1>5. CASE SampleOverflows
  <2>f. messages' = messages /\ Asked' = Asked /\ (Whole(messages) => Whole(messages)')
    BY <1>5 DEF SampleOverflows, Whole, Opening, Reported, Asked
  <2>11. TypeOK'
    BY <1>5, <2>f DEF SampleOverflows, TypeOK
  <2>12. TranscriptFits'
    BY <1>5, <2>f DEF SampleOverflows, TranscriptFits, Whole
  <2>13. BatchFits'
    BY <1>5, <2>f DEF SampleOverflows, BatchFits, TypeOK
  <2>14. PauseFits'
    BY <1>5, <2>f DEF SampleOverflows, PauseFits, BatchFits, TypeOK
  <2>15. EndFits'
    BY <1>5, <2>f DEF SampleOverflows, EndFits, CompletedMeansDone
  <2>16. WritersTakeTurns'
    BY <1>5, <2>f DEF SampleOverflows, WritersTakeTurns, BatchFits, Settled
  <2>17. InterjectionsKept'
    BY <1>5, <2>f DEF SampleOverflows, InterjectionsKept
  <2> QED BY <2>11, <2>12, <2>13, <2>14, <2>15, <2>16, <2>17
<1>6. ASSUME NEW cs \in Batches, SampleReturns(cs) PROVE LoopInv'
  <2>n. Counted \in Nat BY DEF Counted, TypeOK
  <2>s. /\ cs \in Seq(Calls) /\ calls' = cs /\ job' = [j \in DOMAIN cs |-> "none"]
        /\ verdicts' = <<>> /\ outcome' = "continue" /\ aborting' = FALSE
    BY <1>6, LoopAssumption DEF SampleReturns
  <2> DEFINE said == <<Assistant(cs, "prose")>>
  <2>t. "prose" \in TurnTexts BY DEF TurnTexts
  <2>1. said \in Seq(TurnMessages)
    <3>1. Assistant(cs, "prose") \in TurnMessages BY <2>s, <2>t, Messages
    <3> QED BY <3>1
  <2>2. NoResults(said) BY DEF NoResults, IsResult, Assistant
  <2>3. \/ messages' = said /\ pc' = "gate" /\ cs = <<>> /\ UNCHANGED result
        \/ messages' = said /\ pc' = "prepare" /\ cs # <<>> /\ UNCHANGED result
        \/ messages' = said /\ pc' = "over" /\ result' = "raised"
        \/ Finish("aborted", said)
    BY <1>6 DEF SampleReturns
  <2>4. said = Asked' BY <2>s DEF Asked
  <2>5. NoneRan' BY <2>s DEF NoneRan
  <2>6. Finish("aborted", said) => /\ pc' = "over" /\ result' = "aborted"
                                   /\ messages' \in Seq(TurnMessages) /\ NoResults(messages')
    BY <2>1, <2>2, Finished
  <2>7. NoResults(messages') <=> NoResults(messages)' BY DEF NoResults
  <2> HIDE DEF said
  <2>m. /\ messages' \in Seq(TurnMessages)
        /\ \/ messages' = Asked' /\ pc' = "gate" /\ calls' = <<>> /\ UNCHANGED result
           \/ messages' = Asked' /\ pc' = "prepare" /\ UNCHANGED result
           \/ pc' = "over" /\ result' = "raised"
           \/ pc' = "over" /\ result' = "aborted" /\ NoResults(messages)' /\ NoneRan'
    BY <2>s, <2>1, <2>3, <2>4, <2>5, <2>6, <2>7
  <2>11. TypeOK'
    <3>1. job' \in [DOMAIN calls' -> Settled \cup {"queued", "taken", "running"}]
      BY <2>s DEF Settled
    <3>2. verdicts' \in Seq(Judgements \cup {"cancelled"}) BY <2>s
    <3>3. /\ calls' \in Batches /\ outcome' \in Stopped \cup {"continue"} /\ aborting' \in BOOLEAN
      BY <1>6, <2>s
    <3>5. rounds' \in Nat /\ resubmits' \in 0 .. MaxResubmits
      BY <1>6, <2>n DEF SampleReturns
    <3>4. /\ pc' \in {"gate", "prepare", "over"} /\ result' \in {result, "raised", "aborted"}
      BY <2>m
    <3> QED BY <1>6, <2>m, <3>1, <3>2, <3>3, <3>4, <3>5 DEF SampleReturns, TypeOK
  <2>12. TranscriptFits'
    BY <1>6, <2>s, <2>m DEF SampleReturns, Counted, TranscriptFits, Whole
  <2>13. BatchFits'
    BY <1>6, <2>s, <2>m DEF BatchFits, Settled, TypeOK
  <2>14. PauseFits'
    BY <1>6, <2>s, <2>m DEF SampleReturns, Counted, PauseFits, BatchFits, TypeOK
  <2>15. EndFits'
    BY <1>6, <2>s, <2>m DEF SampleReturns, Counted, EndFits, CompletedMeansDone
  <2>16. WritersTakeTurns'
    BY <1>6, <2>s, <2>m DEF SampleReturns, Counted, WritersTakeTurns, BatchFits, Settled
  <2>17. InterjectionsKept'
    BY <1>6, <2>s, <2>m DEF SampleReturns, Counted, InterjectionsKept
  <2> QED BY <2>11, <2>12, <2>13, <2>14, <2>15, <2>16, <2>17
<1>7. CASE Gate
  <2>m. /\ messages' \in Seq(TurnMessages) /\ Whole(messages') /\ UNCHANGED <<calls, job>>
        /\ \/ pc' = "over" /\ result' = "completed" /\ open = {}
           \/ pc' = "head" /\ UNCHANGED result
    <3>1. messages \in Seq(TurnMessages) BY DEF TypeOK
    <3>2. Whole(messages)
      <4>1. calls = <<>> /\ messages = <<Assistant(<<>>, "prose")>>
        BY <1>7 DEF Gate, TranscriptFits, Asked
      <4> QED BY <4>1 DEF Whole, Opening, Note, IsResult, Assistant
    <3>3. CASE open = {}
      <4>1. Finish("completed", messages) /\ UNCHANGED <<calls, job>>
        BY <1>7, <3>3 DEF Gate
      <4>2. pc' = "over" /\ result' = "completed" /\ messages' \in Seq(TurnMessages) /\ Whole(messages')
        BY <3>1, <3>2, <4>1, Finished
      <4> QED BY <3>3, <4>1, <4>2
    <3>4. CASE open # {}
      <4> DEFINE note == User("nudge")
      <4>1. note \in TurnMessages /\ Note(note) BY Messages DEF TurnTexts
      <4>2. messages' = Append(messages, note) /\ pc' = "head" /\ UNCHANGED <<calls, job, result>>
        BY <1>7, <3>4 DEF Gate
      <4> HIDE DEF note
      <4>3. <<note>> \in Seq(TurnMessages) /\ \A k \in DOMAIN <<note>> : Note(<<note>>[k])
        BY <4>1
      <4>4. messages' = messages \o <<note>> BY <3>1, <4>1, <4>2
      <4> QED BY <3>1, <3>2, <4>2, <4>3, <4>4, NotesAtTheEnd
    <3> QED BY <3>3, <3>4
  <2>f. Whole(messages)' BY <2>m DEF Whole, Opening, Reported, Asked
  <2>11. TypeOK'
    BY <1>7, <2>m, <2>f DEF Gate, TypeOK
  <2>12. TranscriptFits'
    BY <1>7, <2>m, <2>f DEF Gate, TranscriptFits, Whole
  <2>13. BatchFits'
    BY <1>7, <2>m, <2>f DEF Gate, BatchFits, TypeOK
  <2>14. PauseFits'
    BY <1>7, <2>m, <2>f DEF Gate, PauseFits, BatchFits, TypeOK
  <2>15. EndFits'
    BY <1>7, <2>m, <2>f DEF Gate, EndFits, CompletedMeansDone
  <2>16. WritersTakeTurns'
    BY <1>7, <2>m, <2>f DEF Gate, WritersTakeTurns, BatchFits, Settled
  <2>17. InterjectionsKept'
    BY <1>7, <2>m, <2>f DEF Gate, InterjectionsKept
  <2> QED BY <2>11, <2>12, <2>13, <2>14, <2>15, <2>16, <2>17
<1>8. CASE Precheck
  <2>f. messages' = messages /\ Asked' = Asked /\ (Whole(messages) => Whole(messages)')
    BY <1>8 DEF Precheck, MayApprove, Whole, Opening, Reported, Asked
  <2>11. TypeOK'
    <3>1. PICK v \in Judgements \cup {"cancelled"} : verdicts' = Append(verdicts, v)
      BY <1>8 DEF Precheck
    <3>2. verdicts' \in Seq(Judgements \cup {"cancelled"}) BY <3>1 DEF TypeOK
    <3>3. outcome' \in Stopped \cup {"continue"} BY <1>8 DEF Precheck, TypeOK, Stopped
    <3> QED BY <1>8, <3>2, <3>3 DEF Precheck, TypeOK
  <2>12. TranscriptFits'
    BY <1>8, <2>f DEF Precheck, MayApprove, TranscriptFits, Whole
  <2>13. BatchFits'
    BY <1>8, <2>f DEF Precheck, MayApprove, BatchFits, TypeOK
  <2>14. PauseFits'
    <3>c. /\ calls \in Seq(Calls) /\ DOMAIN calls = 1 .. Len(calls) /\ Len(calls) \in Nat
          /\ verdicts \in Seq(Judgements \cup {"cancelled"})
      BY DEF TypeOK
    <3>1. PICK v \in Judgements \cup {"cancelled"} :
              /\ verdicts' = Append(verdicts, v)
              /\ v = "approve" => MayApprove(calls[Len(verdicts) + 1])
      BY <1>8 DEF Precheck, Stopped
    <3>2. SUFFICES ASSUME paused, NEW j \in DOMAIN verdicts', verdicts'[j] = "approve"
                   PROVE  calls[j] \notin Mutating
      BY <1>8 DEF Precheck, PauseFits
    <3>3. CASE j = Len(verdicts) + 1
      BY <3>c, <3>1, <3>2, <3>3 DEF MayApprove
    <3>4. CASE j # Len(verdicts) + 1
      BY <1>8, <3>c, <3>1, <3>2, <3>4 DEF Precheck, PauseFits
    <3> QED BY <3>3, <3>4
  <2>15. EndFits'
    BY <1>8, <2>f DEF Precheck, MayApprove, EndFits, CompletedMeansDone
  <2>16. WritersTakeTurns'
    BY <1>8, <2>f DEF Precheck, MayApprove, WritersTakeTurns, BatchFits, Settled
  <2>17. InterjectionsKept'
    BY <1>8, <2>f DEF Precheck, MayApprove, InterjectionsKept
  <2> QED BY <2>11, <2>12, <2>13, <2>14, <2>15, <2>16, <2>17
<1>9. CASE Prepared
  <2>m. \/ /\ pc' = "execute" /\ UNCHANGED <<messages, result>>
           /\ job' = [j \in DOMAIN calls |-> IF verdicts[j] = "approve" THEN "queued" ELSE "none"]
        \/ /\ pc' = "over" /\ result' = "cancelled" /\ UNCHANGED job
           /\ messages' \in Seq(TurnMessages) /\ Whole(messages)'
    <3>1. CASE cancelled
      <4> DEFINE ms == messages \o Unrun
      <4>1. Finish("cancelled", ms) /\ UNCHANGED <<calls, job>>
        BY <1>9, <3>1 DEF Prepared
      <4>2. /\ Unrun \in Seq(TurnMessages) /\ Len(Unrun) = Len(calls)
            /\ \A j \in DOMAIN calls : /\ Unrun[j] = Tool(calls[j], Unrun[j].text)
                                       /\ Unrun[j].text = "ran" <=> job[j] = "ran"
        <5>1. calls \in Seq(Calls) /\ DOMAIN calls = 1 .. Len(calls) /\ Len(calls) \in Nat
          BY LoopAssumption DEF TypeOK
        <5>2. ASSUME NEW j \in DOMAIN calls PROVE Tool(calls[j], "did not run") \in TurnMessages
          <6>1. calls[j] \in Calls /\ "did not run" \in TurnTexts BY <5>1 DEF TurnTexts
          <6> QED BY <6>1, Messages, Zenon
        <5> DEFINE answer(j) == Tool(calls[j], "did not run")
        <5>3. Unrun = [j \in DOMAIN calls |-> answer(j)] BY DEF Unrun
        <5> HIDE DEF answer
        <5>5. Unrun \in Seq(TurnMessages) /\ Len(Unrun) = Len(calls)
          <6>1. \A j \in DOMAIN calls : answer(j) \in TurnMessages BY <5>2 DEF answer
          <6> QED BY <5>1, <5>3, <6>1
        <5>4. \A j \in DOMAIN calls : job[j] = "none"
          BY <1>9 DEF Prepared, BatchFits, TypeOK
        <5> QED BY <5>1, <5>4, <5>5 DEF Unrun, Tool
      <4>3. ms \in Seq(TurnMessages) /\ Whole(ms)
        BY <1>9, <4>2, ResultsAnswer DEF Prepared, TranscriptFits, Whole
      <4> HIDE DEF ms
      <4>4. /\ pc' = "over" /\ result' = "cancelled" /\ messages' \in Seq(TurnMessages)
            /\ Whole(messages')
        BY <4>1, <4>3, Finished
      <4> QED BY <4>1, <4>4 DEF Whole, Opening, Reported, Asked
    <3> QED BY <1>9, <3>1 DEF Prepared
  <2>11. TypeOK'
    <3>1. job' \in [DOMAIN calls -> Settled \cup {"queued", "taken", "running"}]
      BY <2>m DEF TypeOK, Settled
    <3>2. messages' \in Seq(TurnMessages) BY <2>m DEF TypeOK
    <3> QED BY <1>9, <2>m, <3>1, <3>2 DEF Prepared, TypeOK
  <2>12. TranscriptFits'
    BY <1>9, <2>m DEF Prepared, Asked, TranscriptFits, Whole
  <2>13. BatchFits'
    BY <1>9, <2>m DEF Prepared, Asked, BatchFits, TypeOK
  <2>14. PauseFits'
    BY <1>9, <2>m DEF Prepared, Asked, PauseFits, BatchFits, TypeOK
  <2>15. EndFits'
    BY <1>9, <2>m DEF Prepared, Asked, EndFits, CompletedMeansDone
  <2>16. WritersTakeTurns'
    BY <1>9, <2>m DEF Prepared, Asked, WritersTakeTurns, BatchFits, Settled
  <2>17. InterjectionsKept'
    BY <1>9, <2>m DEF Prepared, Asked, InterjectionsKept
  <2> QED BY <2>11, <2>12, <2>13, <2>14, <2>15, <2>16, <2>17
<1>10. CASE Writeback
  <2>j. /\ UNCHANGED <<calls, job, verdicts, outcome>> /\ pc' \in {"settle", "over"}
        /\ \A j \in DOMAIN job : job[j] \in Settled
        /\ aborting' \in BOOLEAN /\ paused' \in BOOLEAN
    BY <1>10 DEF Writeback, TypeOK
  <2>c. calls \in Seq(Calls) /\ DOMAIN calls = 1 .. Len(calls) /\ Len(calls) \in Nat
    BY LoopAssumption DEF TypeOK
  <2>r. \A j \in DOMAIN calls : /\ ResultFor(j) \in TurnMessages
                                /\ ResultFor(j) = Tool(calls[j], ResultFor(j).text)
                                /\ ResultFor(j).text = "ran" <=> job[j] = "ran"
    <3> SUFFICES ASSUME NEW j \in DOMAIN calls
                 PROVE  /\ ResultFor(j) \in TurnMessages
                        /\ ResultFor(j) = Tool(calls[j], ResultFor(j).text)
                        /\ ResultFor(j).text = "ran" <=> job[j] = "ran"
      OBVIOUS
    <3>1. PICK t \in {"ran", "skipped", "refused"} :
              ResultFor(j) = Tool(calls[j], t) /\ (t = "ran" <=> job[j] = "ran")
      BY DEF ResultFor
    <3>t. t \in TurnTexts BY DEF TurnTexts
    <3>2. Tool(calls[j], t) \in TurnMessages BY <2>c, <3>t, Messages
    <3>3. Tool(calls[j], t).text = t BY DEF Tool
    <3> QED BY <3>1, <3>2, <3>3
  <2>m. messages' \in Seq(TurnMessages)
    <3>1. messages \in Seq(TurnMessages) BY DEF TypeOK
    <3>2. [j \in DOMAIN calls |-> ResultFor(j)] \in Seq(TurnMessages) BY <2>c, <2>r
    <3>3. \A n \in 0 .. Len(calls) - 1 : [j \in 1 .. n |-> ResultFor(j)] \in Seq(TurnMessages)
      <4> SUFFICES ASSUME NEW n \in 0 .. Len(calls) - 1
                   PROVE  [j \in 1 .. n |-> ResultFor(j)] \in Seq(TurnMessages)
        OBVIOUS
      <4>1. n \in Nat /\ \A j \in 1 .. n : ResultFor(j) \in TurnMessages BY <2>c, <2>r
      <4> QED BY <4>1
    <3>4. messages' = messages \o [j \in DOMAIN calls |-> ResultFor(j)]
          \/ \E n \in 0 .. Len(calls) - 1 : messages' = messages \o [j \in 1 .. n |-> ResultFor(j)]
      BY <1>10 DEF Writeback
    <3> DEFINE all == [j \in DOMAIN calls |-> ResultFor(j)]
               some(n) == [j \in 1 .. n |-> ResultFor(j)]
    <3> HIDE DEF all, some
    <3>5. CASE messages' = messages \o all BY <3>1, <3>2, <3>5 DEF all
    <3>6. CASE \E n \in 0 .. Len(calls) - 1 : messages' = messages \o some(n)
      BY <3>1, <3>3, <3>6 DEF some
    <3> QED BY <3>4, <3>5, <3>6 DEF all, some
  <2>f. pc' = "settle" => Whole(messages)' /\ UNCHANGED result
    <3> SUFFICES ASSUME pc' = "settle" PROVE Whole(messages)' /\ UNCHANGED result OBVIOUS
    <3> DEFINE rs == [j \in DOMAIN calls |-> ResultFor(j)]
    <3>1. messages' = Asked \o rs /\ UNCHANGED result
      BY <1>10 DEF Writeback, TranscriptFits
    <3>2. rs \in Seq(TurnMessages) /\ Len(rs) = Len(calls) /\ \A j \in DOMAIN calls : rs[j] = ResultFor(j)
      BY <2>c, <2>r
    <3> HIDE DEF rs
    <3>3. Reported(Asked \o rs) BY <2>r, <3>2, ResultsAnswer
    <3> QED BY <2>j, <3>1, <3>3 DEF Whole, Reported, Asked
  <2>o. pc' = "over" => result' = "raised"
    BY <1>10 DEF Writeback
  <2>11. TypeOK'
    BY <1>10, <2>j, <2>c, <2>r, <2>m, <2>f, <2>o DEF Writeback, TypeOK
  <2>12. TranscriptFits'
    BY <1>10, <2>j, <2>c, <2>r, <2>m, <2>f, <2>o DEF Writeback, TranscriptFits, Whole
  <2>13. BatchFits'
    BY <1>10, <2>j, <2>c, <2>r, <2>m, <2>f, <2>o DEF Writeback, BatchFits, TypeOK
  <2>14. PauseFits'
    BY <1>10, <2>j, <2>c, <2>r, <2>m, <2>f, <2>o DEF Writeback, PauseFits, BatchFits,
       TypeOK
  <2>15. EndFits'
    BY <1>10, <2>j, <2>c, <2>r, <2>m, <2>f, <2>o DEF Writeback, EndFits,
       CompletedMeansDone
  <2>16. WritersTakeTurns'
    BY <1>10, <2>j, <2>c, <2>r, <2>m, <2>f, <2>o DEF Writeback, WritersTakeTurns,
       BatchFits, Settled
  <2>17. InterjectionsKept'
    BY <1>10, <2>j, <2>c, <2>r, <2>m, <2>f, <2>o DEF Writeback, InterjectionsKept
  <2> QED BY <2>11, <2>12, <2>13, <2>14, <2>15, <2>16, <2>17
<1>11. CASE Settle
  <2>m. /\ messages' \in Seq(TurnMessages) /\ Whole(messages') /\ UNCHANGED <<calls, job>>
        /\ buffer' \in Seq(Nat) /\ heard' \in Seq(Nat) /\ InterjectionsKept'
        /\ \/ pc' = "head" /\ UNCHANGED result
           \/ pc' = "over" /\ result' \in {"aborted", "permission_reject"}
    <3>1. messages \in Seq(TurnMessages) BY DEF TypeOK
    <3>2. Whole(messages) BY <1>11 DEF Settle, TranscriptFits, Whole
    <3>3. CASE Drain(messages) /\ pc' = "head" /\ UNCHANGED result
      BY <1>11, <3>2, <3>3, Drained DEF Settle
    <3>4. ASSUME NEW r \in {"aborted", "permission_reject"}, Finish(r, messages), UNCHANGED <<buffer, heard>>
          PROVE  /\ messages' \in Seq(TurnMessages) /\ Whole(messages')
                 /\ pc' = "over" /\ result' \in {"aborted", "permission_reject"}
      <4>1. pc' = "over" /\ result' = r /\ messages' \in Seq(TurnMessages) /\ Whole(messages')
        BY <3>1, <3>2, <3>4, Finished
      <4> QED BY <4>1
    <3>5. \/ Drain(messages) /\ pc' = "head" /\ UNCHANGED result
          \/ \E r \in {"aborted", "permission_reject"} : Finish(r, messages) /\ UNCHANGED <<buffer, heard>>
      BY <1>11 DEF Settle
    <3>6. UNCHANGED <<calls, job, pushed>> BY <1>11 DEF Settle
    <3>7. CASE UNCHANGED <<buffer, heard>>
      BY <3>3, <3>4, <3>5, <3>6, <3>7 DEF InterjectionsKept, TypeOK
    <3> QED BY <3>3, <3>5, <3>6, <3>7
  <2>f. Whole(messages)' BY <2>m DEF Whole, Opening, Reported, Asked
  <2>11. TypeOK'
    BY <1>11, <2>m, <2>f DEF Settle, TypeOK
  <2>12. TranscriptFits'
    BY <1>11, <2>m, <2>f DEF Settle, TranscriptFits, Whole
  <2>13. BatchFits'
    BY <1>11, <2>m, <2>f DEF Settle, BatchFits, TypeOK
  <2>14. PauseFits'
    BY <1>11, <2>m, <2>f DEF Settle, PauseFits, BatchFits, TypeOK
  <2>15. EndFits'
    BY <1>11, <2>m, <2>f DEF Settle, EndFits, CompletedMeansDone
  <2>16. WritersTakeTurns'
    BY <1>11, <2>m, <2>f DEF Settle, WritersTakeTurns, BatchFits, Settled
  <2>17. InterjectionsKept'
    BY <2>m
  <2> QED BY <2>11, <2>12, <2>13, <2>14, <2>15, <2>16, <2>17
<1>12. ASSUME NEW j \in DOMAIN job, Take(j) PROVE LoopInv'
  <2>11. TypeOK'
    <3>1. job' \in [DOMAIN calls -> Settled \cup {"queued", "taken", "running"}]
      BY <1>12 DEF Take, Step, TypeOK, Settled
    <3> QED BY <1>12, <3>1 DEF Take, Step, TypeOK
  <2>12. TranscriptFits'
    BY <1>12 DEF Take, Step, TranscriptFits, Whole, Asked, Step, TypeOK
  <2>13. BatchFits'
    BY <1>12 DEF Take, Step, BatchFits, TypeOK
  <2>14. PauseFits'
    BY <1>12 DEF Take, Step, PauseFits, BatchFits, TypeOK
  <2>15. EndFits'
    BY <1>12 DEF Take, Step, EndFits, CompletedMeansDone
  <2>16. WritersTakeTurns'
    BY <1>12 DEF Take, Step, WritersTakeTurns, BatchFits, Settled
  <2>17. InterjectionsKept'
    BY <1>12 DEF Take, Step, InterjectionsKept
  <2> QED BY <2>11, <2>12, <2>13, <2>14, <2>15, <2>16, <2>17
<1>13. ASSUME NEW j \in DOMAIN job, Enter(j) PROVE LoopInv'
  <2>j. /\ job' \in [DOMAIN calls -> Settled \cup {"queued", "taken", "running"}]
        /\ \A k \in DOMAIN job \ {j} : job'[k] = job[k]
        /\ job'[j] \in {"skipped", "running"}
    BY <1>13 DEF Enter, Step, TypeOK, Settled
  <2>11. TypeOK'
    BY <1>13, <2>j DEF Enter, Step, TypeOK
  <2>12. TranscriptFits'
    BY <1>13, <2>j DEF Enter, Step, TranscriptFits, Whole, Asked, Step, TypeOK
  <2>13. BatchFits'
    BY <1>13, <2>j DEF Enter, Step, BatchFits, TypeOK
  <2>14. PauseFits'
    BY <1>13, <2>j DEF Enter, Step, PauseFits, BatchFits, TypeOK
  <2>15. EndFits'
    BY <1>13, <2>j DEF Enter, Step, EndFits, CompletedMeansDone
  <2>16. WritersTakeTurns'
    <3>1. DOMAIN job' = DOMAIN job /\ UNCHANGED calls
      BY <1>13, <2>j DEF Enter, Step, TypeOK
    <3> QED BY <1>13, <2>j, <3>1 DEF Enter, LockFree, WritersTakeTurns
  <2>17. InterjectionsKept'
    BY <1>13, <2>j DEF Enter, Step, InterjectionsKept
  <2> QED BY <2>11, <2>12, <2>13, <2>14, <2>15, <2>16, <2>17
<1>14. ASSUME NEW j \in DOMAIN job, Return(j) PROVE LoopInv'
  <2>11. TypeOK'
    <3>1. job' \in [DOMAIN calls -> Settled \cup {"queued", "taken", "running"}]
      BY <1>14 DEF Return, Step, TypeOK, Settled
    <3> QED BY <1>14, <3>1 DEF Return, Step, TypeOK
  <2>12. TranscriptFits'
    BY <1>14 DEF Return, Step, TranscriptFits, Whole, Asked, Step, TypeOK
  <2>13. BatchFits'
    BY <1>14 DEF Return, Step, BatchFits, TypeOK
  <2>14. PauseFits'
    BY <1>14 DEF Return, Step, PauseFits, BatchFits, TypeOK
  <2>15. EndFits'
    BY <1>14 DEF Return, Step, EndFits, CompletedMeansDone
  <2>16. WritersTakeTurns'
    BY <1>14 DEF Return, Step, WritersTakeTurns, BatchFits, Settled
  <2>17. InterjectionsKept'
    BY <1>14 DEF Return, Step, InterjectionsKept
  <2> QED BY <2>11, <2>12, <2>13, <2>14, <2>15, <2>16, <2>17
<1>15. CASE Cancel
  <2>f. messages' = messages /\ Asked' = Asked /\ (Whole(messages) => Whole(messages)')
    BY <1>15 DEF Cancel, Whole, Opening, Reported, Asked
  <2>11. TypeOK'
    BY <1>15, <2>f DEF Cancel, TypeOK
  <2>12. TranscriptFits'
    BY <1>15, <2>f DEF Cancel, TranscriptFits, Whole
  <2>13. BatchFits'
    BY <1>15, <2>f DEF Cancel, BatchFits, TypeOK
  <2>14. PauseFits'
    BY <1>15, <2>f DEF Cancel, PauseFits, BatchFits, TypeOK
  <2>15. EndFits'
    BY <1>15, <2>f DEF Cancel, EndFits, CompletedMeansDone
  <2>16. WritersTakeTurns'
    BY <1>15, <2>f DEF Cancel, WritersTakeTurns, BatchFits, Settled
  <2>17. InterjectionsKept'
    BY <1>15, <2>f DEF Cancel, InterjectionsKept
  <2> QED BY <2>11, <2>12, <2>13, <2>14, <2>15, <2>16, <2>17
<1>16. CASE Interject
  <2>f. messages' = messages /\ Asked' = Asked /\ (Whole(messages) => Whole(messages)')
    BY <1>16 DEF Interject, Whole, Opening, Reported, Asked
  <2>k. buffer' \in Seq(Nat) /\ InterjectionsKept'
    BY <1>16, Pushed DEF Interject
  <2>11. TypeOK'
    BY <1>16, <2>f, <2>k DEF Interject, TypeOK
  <2>12. TranscriptFits'
    BY <1>16, <2>f, <2>k DEF Interject, TranscriptFits, Whole
  <2>13. BatchFits'
    BY <1>16, <2>f, <2>k DEF Interject, BatchFits, TypeOK
  <2>14. PauseFits'
    BY <1>16, <2>f, <2>k DEF Interject, PauseFits, BatchFits, TypeOK
  <2>15. EndFits'
    BY <1>16, <2>f, <2>k DEF Interject, EndFits, CompletedMeansDone
  <2>16. WritersTakeTurns'
    BY <1>16, <2>f, <2>k DEF Interject, WritersTakeTurns, BatchFits, Settled
  <2>17. InterjectionsKept'
    BY <2>k
  <2> QED BY <2>11, <2>12, <2>13, <2>14, <2>15, <2>16, <2>17
<1>17. CASE WorkEnds
  <2>f. messages' = messages /\ Asked' = Asked /\ (Whole(messages) => Whole(messages)')
    BY <1>17 DEF WorkEnds, Whole, Opening, Reported, Asked
  <2>11. TypeOK'
    BY <1>17, <2>f DEF WorkEnds, TypeOK
  <2>12. TranscriptFits'
    BY <1>17, <2>f DEF WorkEnds, TranscriptFits, Whole
  <2>13. BatchFits'
    BY <1>17, <2>f DEF WorkEnds, BatchFits, TypeOK
  <2>14. PauseFits'
    BY <1>17, <2>f DEF WorkEnds, PauseFits, BatchFits, TypeOK
  <2>15. EndFits'
    BY <1>17, <2>f DEF WorkEnds, EndFits, CompletedMeansDone
  <2>16. WritersTakeTurns'
    BY <1>17, <2>f DEF WorkEnds, WritersTakeTurns, BatchFits, Settled
  <2>17. InterjectionsKept'
    BY <1>17, <2>f DEF WorkEnds, InterjectionsKept
  <2> QED BY <2>11, <2>12, <2>13, <2>14, <2>15, <2>16, <2>17
<1>18. CASE UNCHANGED vars
  BY <1>18 DEF vars, TypeOK, TranscriptFits, Opening, Reported, NoResults, NoneRan,
     Asked, BatchFits,
     PauseFits, EndFits, CompletedMeansDone, WritersTakeTurns, InterjectionsKept
<1> QED
  BY <1>1, <1>2, <1>3, <1>4, <1>5, <1>6, <1>7, <1>8, <1>9, <1>10, <1>11, <1>12, <1>13,
     <1>14, <1>15, <1>16, <1>17, <1>18 DEF Next, Loop, Worker

-----------------------------------------------------------------------------
(* What follows *)

(* The transcript, the batch and the pause fit where the loop is.          *)
THEOREM LoopIsSound == Spec => []LoopInv
BY LoopStarts, LoopStep, PTL DEF Spec

(* The results behind a batch stand where its calls want them.             *)
LEMMA ReportedIsWellFormed ==
    ASSUME TypeOK, NEW ms \in Seq(TurnMessages), Whole(ms) PROVE WellFormed(ms)
<1>1. /\ calls \in Seq(Calls) /\ DOMAIN calls = 1 .. Len(calls) /\ Len(calls) \in Nat
  BY LoopAssumption DEF TypeOK
<1>2. DOMAIN ms = 1 .. Len(ms) /\ Len(ms) \in Nat OBVIOUS
<1>3. CASE Opening(ms) BY <1>3 DEF Opening, Note, WellFormed, HasCalls
<1>4. CASE Reported(ms)
  <2>1. /\ Len(ms) > Len(calls) /\ ms[1].calls = calls /\ ~IsResult(ms[1])
    BY <1>4 DEF Reported, Asked, Assistant, IsResult
  <2>2. \A j \in 1 .. Len(calls) : /\ j + 1 \in DOMAIN ms /\ IsResult(ms[j + 1])
                                   /\ ms[j + 1].id = calls[j] /\ ms[j + 1].calls = <<>>
    <3> SUFFICES ASSUME NEW j \in 1 .. Len(calls)
                 PROVE  /\ j + 1 \in DOMAIN ms /\ IsResult(ms[j + 1])
                        /\ ms[j + 1].id = calls[j] /\ ms[j + 1].calls = <<>>
      OBVIOUS
    <3>1. j + 1 \in DOMAIN ms BY <1>1, <1>2, <2>1
    <3>2. ms[j + 1] = Tool(calls[j], ms[j + 1].text) BY <1>1, <1>4 DEF Reported
    <3> DEFINE t == ms[j + 1].text
    <3>3. ms[j + 1] = Tool(calls[j], t) BY <3>2
    <3> HIDE DEF t
    <3> QED BY <3>1, <3>3 DEF Tool, IsResult
  <2>3. \A k \in DOMAIN ms : k > Len(calls) + 1 => Note(ms[k]) BY <1>4 DEF Reported
  <2>4. ASSUME NEW i \in DOMAIN ms, HasCalls(ms[i]) PROVE Answered(ms, i)
    <3>1. i = 1
      <4>1. CASE i > Len(calls) + 1 BY <2>3, <2>4, <4>1 DEF Note, HasCalls
      <4>2. CASE i \in 2 .. Len(calls) + 1
        <5>1. i - 1 \in 1 .. Len(calls) /\ (i - 1) + 1 = i BY <1>1, <1>2, <4>2
        <5> QED BY <2>2, <2>4, <5>1 DEF HasCalls
      <4> QED BY <1>1, <1>2, <4>1, <4>2
    <3>2. \A j \in DOMAIN calls : 1 + j = j + 1 BY <1>1
    <3> QED BY <1>1, <2>1, <2>2, <3>1, <3>2 DEF Answered
  <2>5. ASSUME NEW i \in DOMAIN ms, IsResult(ms[i])
        PROVE  \E a \in 1 .. i - 1 : /\ ~IsResult(ms[a]) /\ i - a <= Len(ms[a].calls)
                                     /\ \A k \in a + 1 .. i : IsResult(ms[k])
    <3>1. i \in 2 .. Len(calls) + 1 BY <1>1, <1>2, <2>1, <2>3, <2>5 DEF Note
    <3>2. \A k \in 2 .. i : IsResult(ms[k])
      <4> SUFFICES ASSUME NEW k \in 2 .. i PROVE IsResult(ms[k]) OBVIOUS
      <4>1. k - 1 \in 1 .. Len(calls) /\ (k - 1) + 1 = k BY <1>1, <3>1
      <4> QED BY <2>2, <4>1
    <3>3. 1 \in 1 .. i - 1 /\ i - 1 <= Len(ms[1].calls) BY <1>1, <2>1, <3>1
    <3> QED BY <2>1, <3>2, <3>3
  <2> QED BY <2>4, <2>5 DEF WellFormed
<1> QED BY <1>3, <1>4 DEF Whole

(* What the model reads of a turn is what happened in it.                  *)
THEOREM TranscriptHolds == Spec => []TranscriptIsTrue
<1>1. LoopInv => TranscriptIsTrue
  <2> SUFFICES ASSUME LoopInv PROVE TranscriptIsTrue OBVIOUS
  <2> USE DEF LoopInv
  <2>1. messages \in Seq(TurnMessages) BY DEF TypeOK
  <2>2. /\ calls \in Seq(Calls) /\ DOMAIN calls = 1 .. Len(calls) /\ Len(calls) \in Nat
        /\ DOMAIN job = DOMAIN calls
    BY LoopAssumption DEF TypeOK
  <2>3. CallsAnswered
    <3>1. Whole(messages) => WellFormed(messages) BY <2>1, ReportedIsWellFormed
    <3> QED BY <3>1 DEF CallsAnswered, TranscriptFits, Whole, NoResults, TypeOK
  <2>4. Busy = {} \/ pc = "execute" BY DEF Busy, BatchFits, Settled
  <2>5. ASSUME pc \in {"settle", "over", "head", "sample"}, result # "raised", NEW c \in Calls
        PROVE  Contains(messages, Tool(c, "ran"))
               <=> \E j \in DOMAIN job : calls[j] = c /\ job[j] = "ran"
    <3>1. CASE NoResults(messages) /\ NoneRan
      BY <2>1, <3>1 DEF NoResults, NoneRan, Contains, Tool, IsResult
    <3>2. CASE Opening(messages)
      BY <2>1, <2>2, <3>2 DEF Opening, Note, Contains, Tool, IsResult
    <3>3. CASE Reported(messages)
      <4>1. ASSUME NEW j \in DOMAIN job, calls[j] = c, job[j] = "ran"
            PROVE  Contains(messages, Tool(c, "ran"))
        <5>1. messages[j + 1] = Tool(c, "ran") BY <2>2, <3>3, <4>1 DEF Reported
        <5>2. j + 1 \in 1 .. Len(messages) BY <2>1, <2>2, <3>3 DEF Reported
        <5> QED BY <5>1, <5>2 DEF Contains
      <4>2. ASSUME NEW i \in 1 .. Len(messages), messages[i] = Tool(c, "ran")
            PROVE  \E j \in DOMAIN job : calls[j] = c /\ job[j] = "ran"
        <5>1. IsResult(messages[i]) /\ messages[i].id = c /\ messages[i].text = "ran"
          BY <4>2 DEF Tool, IsResult
        <5>2. i \in 2 .. Len(calls) + 1
          <6>1. i # 1 BY <3>3, <5>1 DEF Reported, Asked, Assistant, IsResult
          <6>2. ~(i > Len(calls) + 1) BY <2>1, <3>3, <5>1 DEF Reported, Note
          <6> QED BY <2>1, <2>2, <6>1, <6>2
        <5> DEFINE j == i - 1
        <5>3. j \in DOMAIN job /\ j + 1 = i BY <2>2, <5>2
        <5> HIDE DEF j
        <5>4. messages[i] = Tool(calls[j], messages[i].text) /\ job[j] = "ran"
          BY <2>2, <3>3, <5>1, <5>3 DEF Reported
        <5>5. calls[j] = c BY <5>1, <5>4 DEF Tool
        <5> QED BY <5>3, <5>4, <5>5
      <4> QED BY <4>1, <4>2 DEF Contains
    <3> QED BY <2>5, <3>1, <3>2, <3>3 DEF TranscriptFits
  <2>6. ReportsWhatRan BY <2>4, <2>5 DEF ReportsWhatRan
  <2> QED BY <2>3, <2>6 DEF TranscriptIsTrue
<1> QED BY <1>1, LoopIsSound, PTL

(* Two tools of a batch that write the same path never run together.       *)
THEOREM WritersAlternate == Spec => []WritersTakeTurns
BY LoopIsSound, PTL DEF LoopInv

(* A turn is completed only when nothing is open.                          *)
THEOREM CompletionIsEarned == Spec => []CompletedMeansDone
BY LoopIsSound, PTL DEF LoopInv, EndFits

(* A tool starts only while the turn lets it.                              *)
THEOREM StartsAreKept == Spec => StartsAreAllowed
<1>1. LoopInv /\ [Next]_vars => [CancelStopsStarts /\ PauseHolds]_vars
  <2> SUFFICES ASSUME LoopInv, Next PROVE CancelStopsStarts /\ PauseHolds OBVIOUS
  <2> USE LoopAssumption DEF LoopInv
  <2>1. CASE UNCHANGED <<job, calls>>
    <3>2. ASSUME paused, NEW j \in DOMAIN job, job[j] = "running" PROVE calls[j] \notin Mutating
      <4>1. pc = "execute" /\ Len(verdicts) = Len(calls) /\ verdicts[j] = "approve"
        BY <3>2 DEF BatchFits, Settled
      <4>2. j \in DOMAIN verdicts BY <4>1 DEF TypeOK
      <4> QED BY <3>2, <4>1, <4>2 DEF PauseFits
    <3>1. PauseHolds BY <2>1, <3>2 DEF PauseHolds
    <3> QED BY <2>1, <3>1 DEF CancelStopsStarts
  <2>2. ASSUME \A j \in DOMAIN job' : job'[j] # "running" PROVE CancelStopsStarts /\ PauseHolds
    BY <2>2 DEF CancelStopsStarts, PauseHolds
  <2>3. ASSUME NEW cs \in Batches, SampleReturns(cs)
        PROVE  \A j \in DOMAIN job' : job'[j] # "running"
    BY <2>3 DEF SampleReturns
  <2>4. ASSUME Prepared, job' # job PROVE \A j \in DOMAIN job' : job'[j] # "running"
    BY <2>4 DEF Prepared
  <2>5. ASSUME NEW j \in DOMAIN job, Take(j) \/ Enter(j) \/ Return(j)
        PROVE  CancelStopsStarts /\ PauseHolds
    <3>1. /\ \A k \in DOMAIN job' : k \in DOMAIN job /\ (k # j => job'[k] = job[k])
          /\ job'[j] = "running" => ~cancelled
          /\ pc = "execute" /\ UNCHANGED calls /\ job[j] # "none"
      BY <2>5 DEF Take, Enter, Return, Step, TypeOK
    <3>2. CancelStopsStarts BY <3>1 DEF CancelStopsStarts
    <3>3. paused => \A k \in DOMAIN job : job[k] # "none" => calls[k] \notin Mutating
      BY <3>1 DEF PauseFits, BatchFits, TypeOK
    <3> QED BY <3>1, <3>2, <3>3 DEF PauseHolds
  <2>6. \/ UNCHANGED <<job, calls>> \/ \E cs \in Batches : SampleReturns(cs)
        \/ Prepared /\ job' # job
        \/ \E j \in DOMAIN job : Take(j) \/ Enter(j) \/ Return(j)
    BY DEF Next, Loop, Worker, batch, Head_, SampleFenced, StreamStopped, SampleFails,
       SampleOverflows,
           Gate, Precheck, Prepared, Writeback, Settle, Cancel, Interject, WorkEnds
  <2> QED BY <2>1, <2>2, <2>3, <2>4, <2>5, <2>6
<1> QED BY <1>1, LoopIsSound, PTL DEF Spec, StartsAreAllowed

-----------------------------------------------------------------------------
(* How a transport asks again (ModelRetry). *)

Modes == {"stream", "plain"}
Attempts == [mode : Modes, secret : BOOLEAN, conn : Nat]
Building == {"build", "take"}
AskStates ==
    Building \cup {"idle", "sent", "done", "failed", "late", "stale", "robbed"}
AskRecords ==
    [pc : AskStates, mode : Modes, secret : BOOLEAN, sends : BOOLEAN, conn : Nat,
     renewed : BOOLEAN, tried : Seq(Attempts)]

(* What the askers share. *)
ClientFits ==
    /\ transport \in {"chat", "responses", "converse"}
    /\ server \in [stream : BOOLEAN, secret : BOOLEAN] /\ replay \in BOOLEAN
    /\ replay \/ ~server.secret
    /\ made \in Nat /\ cached \in 0 .. made /\ stale \subseteq 1 .. made
    /\ transport # "converse" => made = 0

(* What an attempt must differ in from the earlier ones of its mode: its   *)
(* connection is newer, or its reasoning is gone for good.                 *)
TriedFit(a) ==
    /\ IsInjective(ask[a].tried)
    /\ ask[a].secret => transport = "responses"
    /\ ask[a].sends => ask[a].secret
    /\ \A n \in DOMAIN ask[a].tried :
         /\ ask[a].tried[n].conn <= made
         /\ transport = "converse" => ask[a].tried[n].conn # 0
         /\ ask[a].mode = "stream" => ask[a].tried[n].mode = "stream"
         /\ ask[a].tried[n].mode = ask[a].mode =>
              /\ ask[a].pc \in Building =>
                   IF transport = "converse" THEN ask[a].tried[n].conn # cached
                   ELSE ask[a].tried[n].secret /\ ~replay
              /\ ask[a].pc = "sent" /\ ask[a].sends => ask[a].tried[n].secret

(* How many attempts there were, by what is left to give up.               *)
Given(a) == IF ask[a].pc \in Building THEN 0 ELSE 1
RoomFits(a) ==
    IF transport = "converse"
    THEN Len(ask[a].tried) <= (IF ask[a].mode = "stream" THEN 0 ELSE 2)
                              + (IF ask[a].renewed THEN 1 ELSE 0) + Given(a)
    ELSE LET most == (IF ask[a].mode = "stream" THEN 1 ELSE 2) + Given(a)
         IN /\ Len(ask[a].tried) <= most
            /\ Len(ask[a].tried) = most /\ ask[a].pc \in Building \cup {"sent"} =>
                 ~replay /\ (ask[a].pc = "sent" => ~ask[a].sends)

(* Why an asker stopped early: another one, a server that does not stream, *)
(* or two connections.                                                     *)
ReasonsFit(a) ==
    /\ \/ ask[a].pc \in {"late", "robbed"} \/ (ask[a].pc = "take" /\ cached = 0)
       \/ (ask[a].pc = "sent" /\ ask[a].sends /\ ~replay)
       => Others(a) # {}
    /\ ask[a].tried # <<>> /\ ask[a].tried[1].mode = "stream" /\ ask[a].mode = "plain" =>
         ~server.stream \/ (~replay /\ ask[a].pc # "late" /\ (ask[a].pc = "sent" => ~ask[a].sends))
    /\ ask[a].pc = "late" => ask[a].tried # <<>> /\ ask[a].mode = "plain"
    /\ ask[a].pc = "sent" => ask[a].tried # <<>> /\ ask[a].conn <= made
    /\ ask[a].renewed /\ ask[a].pc \in Building => \E c \in stale : c # cached
    /\ ask[a].renewed /\ ask[a].pc = "sent" => \E c \in stale : c # ask[a].conn
    /\ ask[a].pc = "stale" => \E c, d \in stale : c # d

AskFits(a) == TriedFit(a) /\ RoomFits(a) /\ ReasonsFit(a)
RetryInv == ClientFits /\ ask \in [Askers -> AskRecords] /\ \A a \in Askers : AskFits(a)
-----------------------------------------------------------------------------
(* A record of an asker, and what a step may do to the client. *)
LEMMA OthersStay ==
    ASSUME RetryInv, NEW a \in Askers, NEW rec \in AskRecords, ask' = [ask EXCEPT ![a] = rec]
    PROVE  /\ Others(a)' = Others(a) /\ ask'[a] = rec /\ ask' \in [Askers -> AskRecords]
           /\ \A b \in Askers \ {a} : ask'[b] = ask[b]
<1>1. /\ ask'[a] = rec /\ ask' \in [Askers -> AskRecords]
      /\ \A b \in Askers \ {a} : ask'[b] = ask[b]
  BY DEF RetryInv
<1> QED BY <1>1 DEF Others

(* A step of one asker keeps the rest: the client only gets newer, and     *)
(* this asker is the other one whom the others may blame.                  *)
LEMMA StepsAside ==
    ASSUME RetryInv, NEW a \in Askers, NEW rec \in AskRecords, rec.pc # "idle",
           ask' = [ask EXCEPT ![a] = rec],
           ClientFits', UNCHANGED <<transport, server, stale>>,
           made' >= made, cached' \in {cached, 0, made + 1}, replay' => replay,
           AskFits(a)'
    PROVE  RetryInv'
<1>1. /\ ask'[a] = rec /\ ask' \in [Askers -> AskRecords]
      /\ \A b \in Askers \ {a} : ask'[b] = ask[b]
  BY OthersStay
<1>2. ASSUME NEW b \in Askers, b # a PROVE AskFits(b)'
  <2>1. ask'[b] = ask[b] /\ ask[b] \in AskRecords /\ AskFits(b) BY <1>1, <1>2 DEF RetryInv
  <2>2. a \in Others(b)' BY <1>1, <1>2 DEF Others
  <2>3. /\ made \in Nat /\ made' \in Nat /\ cached \in 0 .. made /\ stale \subseteq 1 .. made
        /\ replay \in BOOLEAN
    BY DEF RetryInv, ClientFits
  <2>4. TriedFit(b)'
    <3>1. IsInjective(ask'[b].tried) BY <2>1 DEF AskFits, TriedFit
    <3>2. ASSUME NEW n \in DOMAIN ask'[b].tried
          PROVE  /\ ask'[b].tried[n].conn <= made'
                 /\ transport' = "converse" => ask'[b].tried[n].conn # 0
                 /\ ask'[b].mode = "stream" => ask'[b].tried[n].mode = "stream"
                 /\ ask'[b].tried[n].mode = ask'[b].mode =>
                      /\ ask'[b].pc \in Building =>
                           IF transport' = "converse" THEN ask'[b].tried[n].conn # cached'
                           ELSE ask'[b].tried[n].secret /\ ~replay'
                      /\ ask'[b].pc = "sent" /\ ask'[b].sends => ask'[b].tried[n].secret
      <4> DEFINE e == ask[b].tried[n]
      <4>1. e \in Attempts /\ n \in DOMAIN ask[b].tried BY <2>1, <3>2 DEF AskRecords
      <4>2. /\ e.conn <= made /\ (transport = "converse" => e.conn # 0)
            /\ ask[b].mode = "stream" => e.mode = "stream"
            /\ e.mode = ask[b].mode =>
                 /\ ask[b].pc \in Building =>
                      IF transport = "converse" THEN e.conn # cached ELSE e.secret /\ ~replay
                 /\ ask[b].pc = "sent" /\ ask[b].sends => e.secret
        BY <2>1, <4>1 DEF AskFits, TriedFit
      <4>3. ask'[b].tried[n] = e BY <2>1
      <4>4. e.conn \in Nat BY <4>1 DEF Attempts
      <4> HIDE DEF e
      <4>5. transport = "converse" /\ e.conn # cached => e.conn # cached' BY <2>3, <4>2, <4>4
      <4>6. e.conn <= made' BY <2>3, <4>2, <4>4
      <4> QED BY <2>1, <4>2, <4>3, <4>5, <4>6
    <3>3. (ask'[b].secret => transport' = "responses") /\ (ask'[b].sends => ask'[b].secret)
      BY <2>1 DEF AskFits, TriedFit
    <3> QED BY <3>1, <3>2, <3>3 DEF TriedFit
  <2>5. RoomFits(b)' BY <2>1, <2>3 DEF AskFits, RoomFits, Given
  <2>6. ReasonsFit(b)'
    <3>1. /\ ask[b].renewed /\ ask[b].pc \in Building => \E c \in stale : c # cached'
          /\ ask[b].renewed /\ ask[b].pc = "sent" => \E c \in stale : c # ask[b].conn
      <4>1. \A c \in stale : c # 0 /\ c # made + 1 BY <2>3
      <4> QED BY <2>1, <4>1 DEF AskFits, ReasonsFit
    <3>2. ask[b].pc = "sent" => ask[b].tried # <<>> /\ ask[b].conn <= made'
      <4>1. ask[b].conn \in Nat BY <2>1 DEF AskRecords
      <4> QED BY <2>1, <2>3, <4>1 DEF AskFits, ReasonsFit
    <3>3. /\ ask[b].tried # <<>> /\ ask[b].tried[1].mode = "stream" /\ ask[b].mode = "plain" =>
               \/ ~server.stream
               \/ ~replay /\ ask[b].pc # "late" /\ (ask[b].pc = "sent" => ~ask[b].sends)
          /\ ask[b].pc = "late" => ask[b].tried # <<>> /\ ask[b].mode = "plain"
          /\ ask[b].pc = "stale" => \E c, d \in stale : c # d
      BY <2>1 DEF AskFits, ReasonsFit
    <3> QED BY <2>1, <2>2, <3>1, <3>2, <3>3 DEF ReasonsFit
  <2> QED BY <2>4, <2>5, <2>6 DEF AskFits
<1> QED BY <1>1, <1>2 DEF RetryInv

(* An asker and its record. *)
LEMMA AskerIs ==
    ASSUME RetryInv, NEW a \in Askers
    PROVE  /\ ask[a] \in AskRecords /\ ask[a].pc \in AskStates /\ ask[a].mode \in Modes
           /\ ask[a].secret \in BOOLEAN /\ ask[a].sends \in BOOLEAN /\ ask[a].renewed \in BOOLEAN
           /\ ask[a].conn \in Nat /\ ask[a].tried \in Seq(Attempts) /\ Len(ask[a].tried) \in Nat
           /\ DOMAIN ask[a].tried = 1 .. Len(ask[a].tried)
           /\ \A n \in DOMAIN ask[a].tried : ask[a].tried[n] \in Attempts
           /\ AskFits(a)
           /\ made \in Nat /\ cached \in 0 .. made /\ stale \subseteq 1 .. made
           /\ replay \in BOOLEAN /\ server.stream \in BOOLEAN /\ server.secret \in BOOLEAN
           /\ (transport # "converse" => made = 0 /\ stale = {})
<1>1. ask[a] \in AskRecords /\ AskFits(a) BY DEF RetryInv
<1>2. ask[a].tried \in Seq(Attempts) BY <1>1 DEF AskRecords
<1>3. /\ Len(ask[a].tried) \in Nat /\ DOMAIN ask[a].tried = 1 .. Len(ask[a].tried)
      /\ \A n \in DOMAIN ask[a].tried : ask[a].tried[n] \in Attempts
  BY <1>2
<1>4. /\ made \in Nat /\ cached \in 0 .. made /\ stale \subseteq 1 .. made
      /\ replay \in BOOLEAN /\ server.stream \in BOOLEAN /\ server.secret \in BOOLEAN
      /\ (transport # "converse" => made = 0)
  BY DEF RetryInv, ClientFits
<1> QED BY <1>1, <1>2, <1>3, <1>4 DEF AskRecords

(* The end of an asker's request. *)
LEMMA RequestEnds ==
    ASSUME RetryInv, NEW a \in Askers, NEW pc0 \in {"done", "failed", "late", "stale", "robbed"},
           Goes(a, pc0), UNCHANGED <<transport, server, replay, cached, made, stale>>,
           ask[a].pc \in {"sent", "take"},
           pc0 \in {"late", "robbed"} => Others(a) # {},
           pc0 = "late" => /\ ask[a].tried # <<>> /\ ask[a].mode = "plain"
                           /\ ask[a].tried[1].mode = "stream" => ~server.stream,
           pc0 = "stale" => \E c, d \in stale : c # d
    PROVE  RetryInv'
<1> DEFINE rec == [ask[a] EXCEPT !.pc = pc0]
<1>1. ask[a] \in AskRecords /\ AskFits(a) BY DEF RetryInv
<1>2. /\ rec \in AskRecords /\ rec.pc = pc0 /\ rec.mode = ask[a].mode /\ rec.secret = ask[a].secret
      /\ rec.sends = ask[a].sends /\ rec.conn = ask[a].conn /\ rec.renewed = ask[a].renewed
      /\ rec.tried = ask[a].tried
  BY <1>1 DEF AskRecords, AskStates
<1>3. ask' = [ask EXCEPT ![a] = rec] BY DEF Goes
<1> HIDE DEF rec
<1>4. ask'[a] = rec /\ Others(a)' = Others(a) BY <1>2, <1>3, OthersStay
<1>5. pc0 \notin Building /\ pc0 # "sent" /\ pc0 # "idle" /\ pc0 # "take" BY DEF Building
<1>6. TriedFit(a)' BY <1>1, <1>2, <1>4, <1>5 DEF AskFits, TriedFit
<1>7. RoomFits(a)'
  <2>1. Len(ask[a].tried) \in Nat BY AskerIs
  <2>2. ask[a].pc \in Building \/ ask[a].pc = "sent" BY DEF Building
  <2> QED BY <1>1, <1>2, <1>4, <1>5, <2>1, <2>2 DEF AskFits, RoomFits, Given
<1>8. ReasonsFit(a)' BY <1>1, <1>2, <1>4, <1>5 DEF AskFits, ReasonsFit, Building
<1>9. ClientFits' BY DEF RetryInv, ClientFits
<1>10. made' >= made /\ cached' \in {cached, 0, made + 1} /\ (replay' => replay)
  BY AskerIs
<1> QED BY <1>2, <1>3, <1>5, <1>6, <1>7, <1>8, <1>9, <1>10, StepsAside DEF AskFits

(* A stream becomes a plain request. *)
LEMMA RequestFallsBack ==
    ASSUME RetryInv, NEW a \in Askers, FallsBack(a),
           UNCHANGED <<transport, server, replay, cached, made, stale>>,
           ask[a].pc = "sent", ask[a].mode = "stream", ~server.stream \/ ~replay
    PROVE  RetryInv'
<1> DEFINE rec == [ask[a] EXCEPT !.pc = "build", !.mode = "plain", !.renewed = FALSE]
<1>1. ask[a] \in AskRecords /\ AskFits(a) BY DEF RetryInv
<1>2. /\ rec \in AskRecords /\ rec.pc = "build" /\ rec.mode = "plain"
      /\ rec.secret = ask[a].secret
      /\ rec.sends = ask[a].sends /\ rec.conn = ask[a].conn /\ rec.renewed = FALSE
      /\ rec.tried = ask[a].tried
  BY <1>1 DEF AskRecords, AskStates, Building, Modes
<1>3. ask' = [ask EXCEPT ![a] = rec] BY DEF FallsBack, Again
<1> HIDE DEF rec
<1>4. ask'[a] = rec /\ Others(a)' = Others(a) BY <1>2, <1>3, OthersStay
<1>5. TriedFit(a)' BY <1>1, <1>2, <1>4 DEF AskFits, TriedFit, Building
<1>6. RoomFits(a)'
  <2>1. Len(ask[a].tried) \in Nat BY AskerIs
  <2>2. /\ transport = "converse" => Len(ask[a].tried) <= 2
        /\ transport # "converse" => Len(ask[a].tried) <= 2 /\ (Len(ask[a].tried) = 2 => ~replay)
    BY <1>1, <2>1 DEF AskFits, RoomFits, Given, Building
  <2>3. /\ Len(ask'[a].tried) = Len(ask[a].tried) /\ ask'[a].pc = "build"
        /\ ask'[a].mode = "plain" /\ ask'[a].renewed = FALSE
    BY <1>2, <1>4
  <2>4. transport' = transport /\ (replay' <=> replay) OBVIOUS
  <2>5. CASE transport = "converse"
    BY <2>1, <2>2, <2>3, <2>4, <2>5 DEF RoomFits, Given, Building
  <2>6. CASE transport # "converse"
    BY <2>1, <2>2, <2>3, <2>4, <2>6 DEF RoomFits, Given, Building
  <2> QED BY <2>5, <2>6
<1>7. ReasonsFit(a)' BY <1>1, <1>2, <1>4 DEF AskFits, ReasonsFit, Building
<1>8. ClientFits' BY DEF RetryInv, ClientFits
<1>9. made' >= made /\ cached' \in {cached, 0, made + 1} /\ (replay' => replay) BY AskerIs
<1> QED BY <1>2, <1>3, <1>5, <1>6, <1>7, <1>8, <1>9, StepsAside DEF AskFits

(* Reasoning is switched off, and the request made again. *)
LEMMA ReplayEnds ==
    ASSUME RetryInv, NEW a \in Askers, Again(a, ask[a].mode, FALSE),
           UNCHANGED <<transport, server, cached, made, stale>>,
           ask[a].pc = "sent", ask[a].sends, ~server.secret, replay' = FALSE
    PROVE  RetryInv'
<1> DEFINE rec == [ask[a] EXCEPT !.pc = "build", !.mode = ask[a].mode, !.renewed = FALSE]
<1>1. ask[a] \in AskRecords /\ AskFits(a) BY DEF RetryInv
<1>2. /\ rec \in AskRecords /\ rec.pc = "build" /\ rec.mode = ask[a].mode
      /\ rec.secret = ask[a].secret
      /\ rec.sends = ask[a].sends /\ rec.conn = ask[a].conn /\ rec.renewed = FALSE
      /\ rec.tried = ask[a].tried
  BY <1>1 DEF AskRecords, AskStates, Building
<1>3. ask' = [ask EXCEPT ![a] = rec] BY DEF Again
<1> HIDE DEF rec
<1>4. ask'[a] = rec /\ Others(a)' = Others(a) BY <1>2, <1>3, OthersStay
<1>0. transport = "responses" BY <1>1 DEF AskFits, TriedFit
<1>5. TriedFit(a)' BY <1>0, <1>1, <1>2, <1>4 DEF AskFits, TriedFit, Building
<1>6. RoomFits(a)'
  <2>1. Len(ask[a].tried) \in Nat BY AskerIs
  <2> QED BY <1>0, <1>1, <1>2, <1>4, <2>1 DEF AskFits, RoomFits, Given, Building
<1>7. ReasonsFit(a)' BY <1>0, <1>1, <1>2, <1>4 DEF AskFits, ReasonsFit, Building
<1>8. ClientFits' BY DEF RetryInv, ClientFits
<1>9. made' >= made /\ cached' \in {cached, 0, made + 1} /\ (replay' => replay) BY AskerIs
<1> QED BY <1>2, <1>3, <1>5, <1>6, <1>7, <1>8, <1>9, StepsAside DEF AskFits

(* A stale connection is dropped, and the request made again. *)
LEMMA ConnectionIsRenewed ==
    ASSUME RetryInv, NEW a \in Askers, Again(a, ask[a].mode, TRUE),
           UNCHANGED <<transport, server, replay, made, stale>>,
           ask[a].pc = "sent", ask[a].conn \in stale, ~ask[a].renewed, cached' = 0
    PROVE  RetryInv'
<1> DEFINE rec == [ask[a] EXCEPT !.pc = "build", !.mode = ask[a].mode, !.renewed = TRUE]
<1>1. ask[a] \in AskRecords /\ AskFits(a) BY DEF RetryInv
<1>2. /\ rec \in AskRecords /\ rec.pc = "build" /\ rec.mode = ask[a].mode
      /\ rec.secret = ask[a].secret
      /\ rec.sends = ask[a].sends /\ rec.conn = ask[a].conn /\ rec.renewed = TRUE
      /\ rec.tried = ask[a].tried
  BY <1>1 DEF AskRecords, AskStates, Building
<1>3. ask' = [ask EXCEPT ![a] = rec] BY DEF Again
<1> HIDE DEF rec
<1>4. ask'[a] = rec /\ Others(a)' = Others(a) BY <1>2, <1>3, OthersStay
<1>0. transport = "converse" /\ 0 \notin stale /\ ~ask[a].sends
  <2>1. transport = "converse" /\ 0 \notin stale BY AskerIs
  <2> QED BY <1>1, <2>1 DEF AskFits, TriedFit
<1>5. TriedFit(a)' BY <1>0, <1>1, <1>2, <1>4 DEF AskFits, TriedFit, Building
<1>6. RoomFits(a)'
  <2>1. Len(ask[a].tried) \in Nat BY AskerIs
  <2> QED BY <1>0, <1>1, <1>2, <1>4, <2>1 DEF AskFits, RoomFits, Given, Building
<1>7. ReasonsFit(a)' BY <1>0, <1>1, <1>2, <1>4 DEF AskFits, ReasonsFit, Building
<1>8. ClientFits' BY DEF RetryInv, ClientFits
<1>9. made' >= made /\ cached' \in {cached, 0, made + 1} /\ (replay' => replay) BY AskerIs
<1> QED BY <1>2, <1>3, <1>5, <1>6, <1>7, <1>8, <1>9, StepsAside DEF AskFits

(* A request begins. *)
LEMMA RequestBegins ==
    ASSUME RetryInv, NEW a \in Askers, NEW m \in Modes, NEW f \in BOOLEAN, Ask(a, m, f)
    PROVE  RetryInv'
<1> DEFINE rec == [Idle EXCEPT !.pc = "build", !.mode = m, !.secret = f]
<1>2. /\ rec \in AskRecords /\ rec.pc = "build" /\ rec.mode = m /\ rec.secret = f
      /\ rec.sends = FALSE /\ rec.renewed = FALSE /\ rec.tried = <<>>
  <2>1. <<>> \in Seq(Attempts) OBVIOUS
  <2>2. Idle \in AskRecords /\ Idle.sends = FALSE /\ Idle.renewed = FALSE /\ Idle.tried = <<>>
    BY <2>1 DEF AskRecords, AskStates, Modes, Idle
  <2> QED BY <2>2 DEF AskRecords, AskStates, Building
<1>3. ask' = [ask EXCEPT ![a] = rec] /\ UNCHANGED <<transport, server, replay, cached, made, stale>>
      /\ (f => transport = "responses")
  BY DEF Ask
<1> HIDE DEF rec
<1>4. ask'[a] = rec BY <1>2, <1>3, OthersStay
<1>5. TriedFit(a)' BY <1>2, <1>3, <1>4 DEF TriedFit, IsInjective
<1>6. RoomFits(a)'
  <2>1. Len(rec.tried) = 0 BY <1>2
  <2> QED BY <1>2, <1>3, <1>4, <2>1 DEF RoomFits, Given, Building
<1>7. ReasonsFit(a)' BY <1>2, <1>4 DEF ReasonsFit
<1>8. ClientFits' BY <1>3 DEF RetryInv, ClientFits
<1>9. made' >= made /\ cached' \in {cached, 0, made + 1} /\ (replay' => replay) BY <1>3, AskerIs
<1> QED BY <1>2, <1>3, <1>5, <1>6, <1>7, <1>8, <1>9, StepsAside DEF AskFits

(* A connection is looked up. *)
LEMMA ConnectionIsFound ==
    ASSUME RetryInv, NEW a \in Askers, LookUp(a)
    PROVE  RetryInv'
<1> DEFINE rec == [ask[a] EXCEPT !.pc = "take"]
<1>1. ask[a] \in AskRecords /\ AskFits(a) BY DEF RetryInv
<1>2. /\ rec \in AskRecords /\ rec.pc = "take" /\ rec.mode = ask[a].mode
      /\ rec.secret = ask[a].secret
      /\ rec.sends = ask[a].sends /\ rec.conn = ask[a].conn /\ rec.renewed = ask[a].renewed
      /\ rec.tried = ask[a].tried
  BY <1>1 DEF AskRecords, AskStates, Building
<1>3. /\ ask' = [ask EXCEPT ![a] = rec] /\ UNCHANGED <<transport, server, replay, stale>>
      /\ ask[a].pc = "build" /\ transport = "converse"
      /\ made' = (IF cached = 0 THEN made + 1 ELSE made)
      /\ cached' = (IF cached = 0 THEN made + 1 ELSE cached)
  BY DEF LookUp
<1> HIDE DEF rec
<1>4. ask'[a] = rec /\ Others(a)' = Others(a) BY <1>2, <1>3, OthersStay
<1>5. /\ made \in Nat /\ cached \in 0 .. made /\ stale \subseteq 1 .. made
      /\ \A n \in DOMAIN ask[a].tried : ask[a].tried[n].conn \in Nat
  BY AskerIs DEF Attempts
<1>6. /\ made' \in Nat /\ cached' \in 1 .. made' /\ stale \subseteq 1 .. made' /\ made' >= made
      /\ cached' \in {cached, 0, made + 1}
      /\ \A c \in stale : c # made + 1
  BY <1>3, <1>5
<1>7. TriedFit(a)'
  <2>1. \A n \in DOMAIN ask[a].tried :
           /\ ask[a].tried[n].conn <= made'
           /\ ask[a].tried[n].conn # made + 1
    BY <1>1, <1>3, <1>5 DEF AskFits, TriedFit
  <2> QED BY <1>1, <1>2, <1>3, <1>4, <2>1 DEF AskFits, TriedFit, Building
<1>8. RoomFits(a)' BY <1>1, <1>2, <1>3, <1>4 DEF AskFits, RoomFits, Given, Building
<1>9. ReasonsFit(a)' BY <1>1, <1>2, <1>3, <1>4, <1>5, <1>6 DEF AskFits, ReasonsFit, Building
<1>10. ClientFits' BY <1>3, <1>6 DEF RetryInv, ClientFits
<1> QED BY <1>2, <1>3, <1>6, <1>7, <1>8, <1>9, <1>10, StepsAside DEF AskFits

(* A request is sent: it is like none of the earlier ones. *)
LEMMA RequestIsSent ==
    ASSUME RetryInv, NEW a \in Askers, Send(a)
    PROVE  RetryInv'
<1> DEFINE f == MayReplay(a)
           e == Attempt(a)
           t == ask[a].tried
           w == Append(t, e)
           rec == [ask[a] EXCEPT !.pc = "sent", !.sends = f, !.conn = cached, !.tried = w]
<1>1. /\ ask[a] \in AskRecords /\ AskFits(a) /\ t \in Seq(Attempts) /\ Len(t) \in Nat
      /\ DOMAIN t = 1 .. Len(t) /\ \A n \in DOMAIN t : t[n] \in Attempts
      /\ made \in Nat /\ cached \in 0 .. made /\ cached \in Nat /\ replay \in BOOLEAN
      /\ ask[a].mode \in Modes /\ ask[a].secret \in BOOLEAN
  BY AskerIs
<1>2. /\ ask[a].pc \in Building /\ (transport = "converse" => cached # 0)
      /\ UNCHANGED <<transport, server, replay, cached, made, stale>>
      /\ ask' = Sent(a)
  BY DEF Send, Building
<1>3. /\ f \in BOOLEAN /\ (f <=> ask[a].secret /\ replay)
  BY <1>1 DEF MayReplay
<1>4. e \in Attempts /\ e.mode = ask[a].mode /\ e.secret = f /\ e.conn = cached
  <2>1. e = [mode |-> ask[a].mode, secret |-> f, conn |-> cached] BY DEF Attempt
  <2> HIDE DEF e, f
  <2> QED BY <1>1, <1>3, <2>1 DEF Attempts
<1>5. ask' = [ask EXCEPT ![a] = rec] BY <1>1, <1>2 DEF Sent, RetryInv
<1> HIDE DEF e, f, t
<1>6. /\ w \in Seq(Attempts) /\ Len(w) = Len(t) + 1 /\ DOMAIN w = 1 .. Len(t) + 1
      /\ \A n \in DOMAIN t : w[n] = t[n]
      /\ w[Len(t) + 1] = e /\ w # <<>>
  <2>1. /\ w \in Seq(Attempts) /\ Len(w) = Len(t) + 1 /\ DOMAIN w = 1 .. Len(w)
        /\ \A n \in 1 .. Len(t) : w[n] = t[n]
        /\ w[Len(t) + 1] = e
    BY <1>1, <1>4, AppendProperties
  <2> HIDE DEF w
  <2>2. w # <<>> BY <1>1, <2>1
  <2> QED BY <1>1, <2>1, <2>2
<1> HIDE DEF w
<1>7. /\ rec \in AskRecords /\ rec.pc = "sent" /\ rec.mode = ask[a].mode
      /\ rec.secret = ask[a].secret /\ rec.sends = f /\ rec.conn = cached
      /\ rec.renewed = ask[a].renewed /\ rec.tried = w
  BY <1>1, <1>3, <1>6 DEF AskRecords, AskStates
<1> HIDE DEF rec
<1>8. ask'[a] = rec /\ Others(a)' = Others(a) BY <1>5, <1>7, OthersStay
<1>9. "sent" \notin Building BY DEF Building
<1>10. \A n \in DOMAIN t :
          /\ t[n].conn <= made /\ (transport = "converse" => t[n].conn # 0)
          /\ ask[a].mode = "stream" => t[n].mode = "stream"
          /\ t[n].mode = ask[a].mode =>
               IF transport = "converse" THEN t[n].conn # cached ELSE t[n].secret /\ ~replay
  BY <1>1, <1>2 DEF AskFits, TriedFit, t
<1>11. \A n \in DOMAIN t : t[n] # e
  <2> SUFFICES ASSUME NEW n \in DOMAIN t, t[n] = e PROVE FALSE OBVIOUS
  <2> QED BY <1>3, <1>4, <1>10
<1>12. TriedFit(a)'
  <2>1. IsInjective(w)
    <3> SUFFICES ASSUME NEW m \in DOMAIN w, NEW n \in DOMAIN w, w[m] = w[n] PROVE m = n
      BY DEF IsInjective
    <3>1. \A k \in DOMAIN w : k \in DOMAIN t \/ k = Len(t) + 1 BY <1>1, <1>6
    <3>2. \A k, l \in DOMAIN t : t[k] = t[l] => k = l
      BY <1>1 DEF AskFits, TriedFit, IsInjective, t
    <3> QED BY <1>6, <1>11, <3>1, <3>2
  <2>2. \A n \in DOMAIN w :
           /\ w[n].conn <= made /\ (transport = "converse" => w[n].conn # 0)
           /\ ask[a].mode = "stream" => w[n].mode = "stream"
           /\ w[n].mode = ask[a].mode /\ f => w[n].secret
    <3> SUFFICES ASSUME NEW n \in DOMAIN w
                 PROVE  /\ w[n].conn <= made /\ (transport = "converse" => w[n].conn # 0)
                        /\ ask[a].mode = "stream" => w[n].mode = "stream"
                        /\ w[n].mode = ask[a].mode /\ f => w[n].secret
      OBVIOUS
    <3>1. CASE n = Len(t) + 1 BY <1>1, <1>2, <1>4, <1>6, <3>1
    <3>2. CASE n \in DOMAIN t
      <4>1. w[n] = t[n] BY <1>6, <3>2
      <4>2. transport = "converse" => ~f BY <1>1, <1>3 DEF AskFits, TriedFit
      <4> QED BY <1>3, <1>10, <3>2, <4>1, <4>2
    <3> QED BY <1>1, <1>6, <3>1, <3>2
  <2>3. (ask[a].secret => transport = "responses") /\ (f => ask[a].secret)
    BY <1>1, <1>3 DEF AskFits, TriedFit
  <2> QED BY <1>2, <1>7, <1>8, <1>9, <2>1, <2>2, <2>3 DEF TriedFit
<1>13. RoomFits(a)'
  <2>1. CASE transport = "converse"
    <3>1. Len(t) <= (IF ask[a].mode = "stream" THEN 0 ELSE 2) + (IF ask[a].renewed THEN 1 ELSE 0)
      BY <1>1, <1>2, <2>1 DEF AskFits, RoomFits, Given, t
    <3> QED BY <1>1, <1>2, <1>6, <1>7, <1>8, <1>9, <2>1, <3>1 DEF RoomFits, Given
  <2>2. CASE transport # "converse"
    <3> DEFINE most == IF ask[a].mode = "stream" THEN 1 ELSE 2
    <3>1. Len(t) <= most /\ (Len(t) = most => ~replay)
      BY <1>1, <1>2, <2>2 DEF AskFits, RoomFits, Given, t
    <3>2. Len(w) <= most + 1 /\ (Len(w) = most + 1 => ~replay /\ ~f)
      BY <1>1, <1>3, <1>6, <3>1
    <3> QED BY <1>2, <1>7, <1>8, <1>9, <2>2, <3>2 DEF RoomFits, Given
  <2> QED BY <2>1, <2>2
<1>14. ReasonsFit(a)'
  <2>1. w[1].mode = "stream" /\ ask[a].mode = "plain" => ~server.stream \/ (~replay /\ ~f)
    <3>1. CASE t = <<>>
      <4>1. w[1] = e BY <1>6, <3>1
      <4> QED BY <1>4, <4>1
    <3>2. CASE t # <<>>
      <4>1. w[1] = t[1] BY <1>1, <1>6, <3>2
      <4> QED BY <1>1, <1>2, <1>3, <3>2, <4>1 DEF AskFits, ReasonsFit, t
    <3> QED BY <3>1, <3>2
  <2>2. ask[a].renewed => \E c \in stale : c # cached
    BY <1>1, <1>2 DEF AskFits, ReasonsFit
  <2>3. w # <<>> /\ cached <= made BY <1>1, <1>6
  <2>4. ~(f /\ ~replay) BY <1>3
  <2> QED BY <1>2, <1>7, <1>8, <1>9, <2>1, <2>2, <2>3, <2>4 DEF ReasonsFit
<1>15. ClientFits' BY <1>2 DEF RetryInv, ClientFits
<1>16. made' >= made /\ cached' \in {cached, 0, made + 1} /\ (replay' => replay) BY <1>1, <1>2
<1> QED BY <1>2, <1>5, <1>7, <1>12, <1>13, <1>14, <1>15, <1>16, StepsAside DEF AskFits

(* A connection goes stale, which only gives reasons. *)
LEMMA ConnectionFails ==
    ASSUME RetryInv, ConnectionsGoStale
    PROVE  RetryInv'
<1>1. /\ stale' = stale \cup {cached} /\ cached # 0 /\ stale \subseteq stale'
      /\ UNCHANGED <<transport, server, replay, cached, made, ask>>
  BY DEF ConnectionsGoStale
<1>2. ClientFits'
  <2>1. stale' \subseteq 1 .. made BY <1>1 DEF RetryInv, ClientFits
  <2> QED BY <1>1, <2>1 DEF RetryInv, ClientFits
<1>3. ASSUME NEW a \in Askers PROVE AskFits(a)'
  <2>1. AskFits(a) BY DEF RetryInv
  <2>2. TriedFit(a)' BY <1>1, <2>1 DEF AskFits, TriedFit
  <2>3. RoomFits(a)' BY <1>1, <2>1 DEF AskFits, RoomFits, Given
  <2>4. Others(a)' = Others(a) BY <1>1 DEF Others
  <2>5. ReasonsFit(a)' BY <1>1, <2>1, <2>4 DEF AskFits, ReasonsFit
  <2> QED BY <2>2, <2>3, <2>5 DEF AskFits
<1> QED BY <1>1, <1>2, <1>3 DEF RetryInv

(* It holds at first, ... *)
LEMMA RetryStarts == RetryInit => RetryInv
<1> SUFFICES ASSUME RetryInit PROVE RetryInv OBVIOUS
<1>1. ClientFits
  <2>1. server \in [stream : BOOLEAN, secret : BOOLEAN] BY DEF RetryInit
  <2> QED BY <2>1 DEF RetryInit, ClientFits
<1>2. Idle \in AskRecords /\ Idle.pc = "idle" /\ Idle.mode = "plain" /\ Idle.secret = FALSE
      /\ Idle.sends = FALSE /\ Idle.renewed = FALSE /\ Idle.tried = <<>>
  <2>1. <<>> \in Seq(Attempts) OBVIOUS
  <2> QED BY <2>1 DEF AskRecords, AskStates, Modes, Idle
<1>3. ASSUME NEW a \in Askers PROVE AskFits(a)
  <2>1. ask[a] = Idle BY DEF RetryInit
  <2>2. TriedFit(a) BY <1>2, <2>1 DEF TriedFit, IsInjective, Building
  <2>3. RoomFits(a)
    <3>1. Len(Idle.tried) = 0 BY <1>2
    <3> QED BY <1>2, <2>1, <3>1 DEF RoomFits, Given, Building
  <2>4. ReasonsFit(a) BY <1>2, <2>1 DEF ReasonsFit, Building
  <2> QED BY <2>2, <2>3, <2>4 DEF AskFits
<1>4. ask \in [Askers -> AskRecords] BY <1>2 DEF RetryInit
<1> QED BY <1>1, <1>3, <1>4 DEF RetryInv

(* ... and every step keeps it. *)
LEMMA RetryStep == RetryInv /\ [RetryNext]_retries => RetryInv'
<1> SUFFICES ASSUME RetryInv, [RetryNext]_retries PROVE RetryInv' OBVIOUS
<1>1. ASSUME NEW a \in Askers, NEW m \in {"stream", "plain"}, NEW f \in BOOLEAN, Ask(a, m, f)
      PROVE  RetryInv'
  BY <1>1, RequestBegins DEF Modes
<1>2. ASSUME NEW a \in Askers, LookUp(a) PROVE RetryInv' BY <1>2, ConnectionIsFound
<1>3. ASSUME NEW a \in Askers, Send(a) PROVE RetryInv' BY <1>3, RequestIsSent
<1>4. ASSUME NEW a \in Askers, TakeRaises(a) PROVE RetryInv'
  <2>1. AskFits(a) BY DEF RetryInv
  <2>2. /\ Goes(a, "robbed") /\ UNCHANGED <<transport, server, replay, cached, made, stale>>
        /\ ask[a].pc = "take" /\ cached = 0
    BY <1>4 DEF TakeRaises, Goes
  <2>3. Others(a) # {} BY <2>1, <2>2 DEF AskFits, ReasonsFit
  <2> QED BY <2>2, <2>3, RequestEnds
<1>5. ASSUME NEW a \in Askers, Succeeds(a) PROVE RetryInv'
  <2>1. Goes(a, "done") /\ UNCHANGED <<transport, server, replay, cached, made, stale>>
        /\ ask[a].pc = "sent"
    BY <1>5 DEF Succeeds
  <2> QED BY <2>1, RequestEnds
<1>6. ASSUME NEW a \in Askers, ServerFails(a) PROVE RetryInv'
  <2>1. Goes(a, "failed") /\ UNCHANGED <<transport, server, replay, cached, made, stale>>
        /\ ask[a].pc = "sent"
    BY <1>6 DEF ServerFails
  <2> QED BY <2>1, RequestEnds
<1>7. ASSUME NEW a \in Askers, StreamRejected(a) PROVE RetryInv'
  <2>1. FallsBack(a) /\ UNCHANGED <<transport, server, replay, cached, made, stale>>
        /\ ask[a].pc = "sent" /\ ask[a].mode = "stream" /\ ~server.stream
    BY <1>7 DEF StreamRejected
  <2> QED BY <2>1, RequestFallsBack
<1>8. ASSUME NEW a \in Askers, SecretRejected(a) PROVE RetryInv'
  <2>1. /\ UNCHANGED <<transport, server, cached, made, stale>>
        /\ ask[a].pc = "sent" /\ ask[a].sends /\ ~server.secret
    BY <1>8 DEF SecretRejected
  <2>2. CASE replay
    <3>1. replay' = FALSE /\ Again(a, ask[a].mode, FALSE) BY <1>8, <2>2 DEF SecretRejected
    <3> QED BY <2>1, <3>1, ReplayEnds
  <2>3. CASE ~replay /\ ask[a].mode = "stream"
    <3>1. FallsBack(a) /\ UNCHANGED replay BY <1>8, <2>3 DEF SecretRejected
    <3> QED BY <2>1, <2>3, <3>1, RequestFallsBack
  <2>4. CASE ~replay /\ ask[a].mode # "stream"
    <3>1. Goes(a, "late") /\ UNCHANGED replay BY <1>8, <2>4 DEF SecretRejected
    <3>2. AskFits(a) /\ ask[a].mode \in Modes BY AskerIs
    <3>3. /\ Others(a) # {} /\ ask[a].tried # <<>> /\ ask[a].mode = "plain"
          /\ ask[a].tried[1].mode = "stream" => ~server.stream
      BY <2>1, <2>4, <3>2 DEF AskFits, ReasonsFit, Modes
    <3> QED BY <2>1, <3>1, <3>3, RequestEnds
  <2> QED BY <2>2, <2>3, <2>4
<1>9. ASSUME NEW a \in Askers, Stale(a) PROVE RetryInv'
  <2>1. /\ UNCHANGED <<transport, server, replay, made, stale>>
        /\ ask[a].pc = "sent" /\ ask[a].conn \in stale
    BY <1>9 DEF Stale
  <2>2. CASE ~ask[a].renewed
    <3>1. cached' = 0 /\ Again(a, ask[a].mode, TRUE) BY <1>9, <2>2 DEF Stale, MayRenew
    <3> QED BY <2>1, <2>2, <3>1, ConnectionIsRenewed
  <2>3. CASE ask[a].renewed
    <3>1. Goes(a, "stale") /\ UNCHANGED cached BY <1>9, <2>3 DEF Stale, MayRenew
    <3>2. AskFits(a) BY AskerIs
    <3>3. \E c, d \in stale : c # d BY <2>1, <2>3, <3>2 DEF AskFits, ReasonsFit
    <3> QED BY <2>1, <3>1, <3>3, RequestEnds
  <2> QED BY <2>2, <2>3
<1>10. CASE UNCHANGED retries
  <2>1. UNCHANGED <<transport, server, replay, cached, made, stale, ask>>
    BY <1>10 DEF retries
  <2>2. ClientFits' BY <2>1 DEF RetryInv, ClientFits
  <2>3. ASSUME NEW a \in Askers PROVE AskFits(a)'
    <3>1. AskFits(a) BY DEF RetryInv
    <3>2. Others(a)' = Others(a) BY <2>1 DEF Others
    <3> QED BY <2>1, <3>1, <3>2 DEF AskFits, TriedFit, RoomFits, ReasonsFit, Given
  <2> QED BY <2>1, <2>2, <2>3 DEF RetryInv
<1> QED
  BY <1>1, <1>2, <1>3, <1>4, <1>5, <1>6, <1>7, <1>8, <1>9, <1>10, ConnectionFails DEF RetryNext

(* What the invariant says of a request. *)
LEMMA RetryInvIsEnough == RetryInv => AsksEndRightly
<1> SUFFICES ASSUME RetryInv PROVE AsksEndRightly OBVIOUS
<1>1. ASSUME NEW a \in Askers
      PROVE  /\ IsInjective(ask[a].tried)
             /\ Len(ask[a].tried) <= (IF transport = "converse" THEN 4 ELSE 3)
             /\ ask[a].pc \in {"late", "robbed"} => Others(a) # {}
             /\ ask[a].pc = "late" => ask[a].tried[1].mode = "plain" \/ ~server.stream
             /\ ask[a].pc = "stale" => Cardinality(stale) > 1
  <2>1. /\ AskFits(a) /\ Len(ask[a].tried) \in Nat /\ ask[a].tried \in Seq(Attempts)
        /\ made \in Nat /\ stale \subseteq 1 .. made
    BY AskerIs
  <2>2. IsInjective(ask[a].tried) /\ (ask[a].pc \in {"late", "robbed"} => Others(a) # {})
    BY <2>1 DEF AskFits, TriedFit, ReasonsFit
  <2>3. Len(ask[a].tried) <= (IF transport = "converse" THEN 4 ELSE 3)
    BY <2>1 DEF AskFits, RoomFits, Given
  <2>4. ask[a].pc = "late" => ask[a].tried[1].mode = "plain" \/ ~server.stream
    <3> SUFFICES ASSUME ask[a].pc = "late" PROVE ask[a].tried[1].mode = "plain" \/ ~server.stream
      OBVIOUS
    <3>1. ask[a].tried # <<>> /\ ask[a].mode = "plain" BY <2>1 DEF AskFits, ReasonsFit
    <3>2. 1 \in DOMAIN ask[a].tried BY <2>1, <3>1
    <3>3. ask[a].tried[1].mode \in Modes BY <3>2, AskerIs DEF Attempts
    <3> QED BY <2>1, <3>1, <3>3 DEF AskFits, ReasonsFit, Modes
  <2>5. ask[a].pc = "stale" => Cardinality(stale) > 1
    <3> SUFFICES ASSUME ask[a].pc = "stale" PROVE Cardinality(stale) > 1 OBVIOUS
    <3>0. \E c, d \in stale : c # d BY <2>1 DEF AskFits, ReasonsFit
    <3>1. PICK c \in stale, d \in stale : c # d BY <3>0
    <3>2. IsFiniteSet(stale)
      <4>1. IsFiniteSet(1 .. made) BY <2>1, FS_Interval
      <4>2. stale \in SUBSET (1 .. made) BY <2>1
      <4> QED BY <4>1, <4>2, FS_Subset
    <3>3. {c, d} \subseteq stale BY <3>1
    <3>4. Cardinality({c, d}) <= Cardinality(stale) BY <3>2, <3>3, FS_Subset
    <3>5. Cardinality({c}) = 1 /\ IsFiniteSet({c}) BY FS_Singleton
    <3>6. Cardinality({c} \cup {d}) = 2
      <4>1. Cardinality({c} \cup {d}) = IF d \in {c} THEN Cardinality({c}) ELSE Cardinality({c}) + 1
        BY <3>5, FS_AddElement
      <4>2. d \notin {c} BY <3>1
      <4> QED BY <3>5, <4>1, <4>2
    <3>7. {c} \cup {d} = {c, d} OBVIOUS
    <3>8. Cardinality(stale) \in Nat BY <3>2, FS_CardinalityType
    <3> QED BY <3>4, <3>6, <3>7, <3>8
  <2> QED BY <2>2, <2>3, <2>4, <2>5
<1>2. replay \/ ~server.secret BY DEF RetryInv, ClientFits
<1> QED BY <1>1, <1>2 DEF AsksEndRightly

(* Asking ends, for any askers and any number of stale connections: no     *)
(* attempt is made twice, and alone with the client a request fails only   *)
(* where the server fails its plainest form or two connections went stale. *)
THEOREM AsksEnd == RetrySpec => []AsksEndRightly
BY RetryStarts, RetryStep, RetryInvIsEnough, PTL DEF RetrySpec

-----------------------------------------------------------------------------
(* The apply_patch tool (PatchApply). *)

IsSeq(s) == s \in Seq({s[n] : n \in DOMAIN s})
IsDisk(d) == DOMAIN d = PatchFiles /\ d = [f \in PatchFiles |-> d[f]]

(* The disk when the patch had its first n sections done, for each n, and  *)
(* the change that the n-th of them is.                                    *)
Story == Obeying(first, hunks)
ChangeFits(story, n, c) ==
    /\ {c.path, c.dest} \subseteq PatchFiles
    /\ c.before = story[n - 1][c.path] /\ c.destBefore = story[n - 1][c.dest]
    /\ c.kind = "move" => c.dest # c.path
    /\ c.kind = "delete" => c.after = Missing
    /\ Done(story[n - 1], c) = story[n]

(* How far the call is; it has written nothing before its changes are all  *)
(* computed.                                                               *)
CallFits ==
    /\ IsDisk(files) /\ IsDisk(first) /\ IsSeq(planned) /\ IsSeq(mutations) /\ meddled \in Nat
    /\ stage \in {"off", "computing", "writing", "ok", "refused", "failed"}
    /\ stage # "refused" => hunks \in Seq(Parsed)
    /\ stage = "off" => nextHunk = 1 /\ planned = <<>> /\ DOMAIN virtual = {} /\ files = first
    /\ stage \in {"computing", "writing"} => nextHunk \in 1 .. Len(hunks) + 1
    /\ stage = "computing" => Len(planned) = nextHunk - 1
    /\ stage = "writing" => Len(planned) = Len(hunks)
    /\ RefusedTouchesNothing

(* What the call knows of the disk while nobody else edits it.             *)
QuietFits ==
    /\ stage \in {"off", "computing", "refused"} => files = first
    /\ stage = "computing" => \A f \in PatchFiles : Seen(f) = Story[nextHunk - 1][f]
    /\ stage \in {"computing", "writing"} =>
         \A n \in 1 .. Len(planned) : ChangeFits(Story, n, planned[n])
    /\ stage = "writing" => files = Story[nextHunk - 1]
    /\ stage = "ok" => files = Story[Len(hunks)]
    /\ stage \in {"writing", "ok"} => files = Retold(first, mutations)
    /\ stage = "failed" => \A f \in PatchFiles \ torn : files[f] = Retold(first, mutations)[f]
    /\ Chained(mutations)

PatchInv == CallFits /\ (meddled = 0 => QuietFits)

(* Induction up to a number, by a least counterexample. *)
LEMMA Induct ==
    ASSUME NEW n \in Nat, NEW good, 0 \in good,
           \A i \in 0 .. n - 1 : i \in good => i + 1 \in good
    PROVE  0 .. n \subseteq good
<1> DEFINE bad == {i \in 0 .. n : i \notin good}
<1> SUFFICES ASSUME bad # {} PROVE FALSE OBVIOUS
<1>1. bad \in SUBSET Nat OBVIOUS
<1>2. \A i \in bad : i \in 0 .. n /\ i \notin good OBVIOUS
<1>3. \A i \in 0 .. n : i \notin good => i \in bad OBVIOUS
<1> HIDE DEF bad
<1>4. PICK m \in bad : \A k \in bad : ~(<<k, m>> \in OpToRel(<, Nat))
  BY <1>1, NatLessThanWellFounded, WFMin
<1>5. m \in 1 .. n /\ m - 1 \in 0 .. n - 1 /\ m - 1 \in 0 .. n /\ (m - 1) + 1 = m BY <1>2
<1>6. m - 1 \notin bad
  <2>1. m - 1 \in Nat /\ m \in Nat /\ m - 1 < m BY <1>5
  <2>2. <<m - 1, m>> \in OpToRel(<, Nat) BY <2>1 DEF OpToRel
  <2> QED BY <1>4, <2>2
<1> QED BY <1>2, <1>3, <1>5, <1>6

(* Sequences, whatever they are of. *)
LEMMA SeqIs ==
    ASSUME NEW s, IsSeq(s)
    PROVE  Len(s) \in Nat /\ DOMAIN s = 1 .. Len(s)
BY DEF IsSeq

(* No elements are a sequence. *)
LEMMA NothingIsSeq == IsSeq(<<>>) /\ Len(<<>>) = 0
<1>1. \A S : <<>> \in Seq(S) OBVIOUS
<1> QED BY <1>1 DEF IsSeq

(* Two, and one more than the first. *)
LEMMA SeqJoined ==
    ASSUME NEW s, IsSeq(s), NEW t, IsSeq(t)
    PROVE  /\ IsSeq(s \o t) /\ Len(s \o t) = Len(s) + Len(t)
           /\ \A n \in 1 .. Len(s) : (s \o t)[n] = s[n]
           /\ \A n \in 1 .. Len(t) : (s \o t)[Len(s) + n] = t[n]
<1> DEFINE S == {s[n] : n \in DOMAIN s} \cup {t[n] : n \in DOMAIN t}
           w == s \o t
<1>1. s \in Seq({s[n] : n \in DOMAIN s}) /\ t \in Seq({t[n] : n \in DOMAIN t}) BY DEF IsSeq
<1>2. /\ Len(s) \in Nat /\ DOMAIN s = 1 .. Len(s) /\ Len(t) \in Nat /\ DOMAIN t = 1 .. Len(t)
      /\ s \in [1 .. Len(s) -> {s[n] : n \in DOMAIN s}]
      /\ t \in [1 .. Len(t) -> {t[n] : n \in DOMAIN t}]
  BY <1>1, LenProperties
<1>3. s \in Seq(S) /\ t \in Seq(S)
  <2>1. {s[n] : n \in DOMAIN s} \subseteq S /\ {t[n] : n \in DOMAIN t} \subseteq S OBVIOUS
  <2> HIDE DEF S
  <2> QED BY <1>1, <2>1
<1> HIDE DEF S
<1>4. /\ w \in Seq(S) /\ Len(w) = Len(s) + Len(t)
      /\ \A i \in 1 .. Len(s) + Len(t) : w[i] = IF i <= Len(s) THEN s[i] ELSE t[i - Len(s)]
  BY <1>3, ConcatProperties
<1> HIDE DEF w
<1>5. /\ \A n \in 1 .. Len(s) : w[n] = s[n]
      /\ \A n \in 1 .. Len(t) : w[Len(s) + n] = t[n]
  <2>1. ASSUME NEW n \in 1 .. Len(s) PROVE w[n] = s[n]
    <3>1. n \in 1 .. Len(s) + Len(t) /\ n <= Len(s) BY <1>2
    <3> QED BY <1>4, <3>1
  <2>2. ASSUME NEW n \in 1 .. Len(t) PROVE w[Len(s) + n] = t[n]
    <3> DEFINE k == Len(s) + n
    <3>1. k \in 1 .. Len(s) + Len(t) /\ ~(k <= Len(s)) /\ k - Len(s) = n BY <1>2
    <3> HIDE DEF k
    <3>2. w[k] = t[n] BY <1>4, <3>1
    <3> QED BY <3>2 DEF k
  <2> QED BY <2>1, <2>2
<1>6. IsSeq(w)
  <2>1. w \in [1 .. Len(w) -> S] /\ Len(w) \in Nat /\ DOMAIN w = 1 .. Len(w)
    BY <1>4, LenProperties
  <2>2. w \in [1 .. Len(w) -> {w[n] : n \in DOMAIN w}] BY <2>1
  <2>3. \A R : w \in [1 .. Len(w) -> R] => w \in Seq(R) BY <2>1
  <2> QED BY <2>2, <2>3 DEF IsSeq
<1> QED BY <1>4, <1>5, <1>6 DEF w

(* One element more. *)
LEMMA SeqLonger ==
    ASSUME NEW s, IsSeq(s), NEW e
    PROVE  /\ IsSeq(Append(s, e)) /\ Len(Append(s, e)) = Len(s) + 1
           /\ \A n \in 1 .. Len(s) : Append(s, e)[n] = s[n]
           /\ Append(s, e)[Len(s) + 1] = e
<1> DEFINE S == {s[n] : n \in DOMAIN s} \cup {e}
           w == Append(s, e)
<1>1. s \in Seq({s[n] : n \in DOMAIN s}) BY DEF IsSeq
<1>2. s \in Seq(S) /\ e \in S
  <2>1. {s[n] : n \in DOMAIN s} \subseteq S /\ e \in S OBVIOUS
  <2> HIDE DEF S
  <2> QED BY <1>1, <2>1
<1> HIDE DEF S
<1>3. /\ w \in Seq(S) /\ Len(w) = Len(s) + 1 /\ w[Len(s) + 1] = e
      /\ \A n \in 1 .. Len(s) : w[n] = s[n]
  BY <1>2, AppendProperties
<1> HIDE DEF w
<1>4. IsSeq(w)
  <2>1. w \in [1 .. Len(w) -> S] /\ Len(w) \in Nat /\ DOMAIN w = 1 .. Len(w)
    BY <1>3, LenProperties
  <2>2. w \in [1 .. Len(w) -> {w[n] : n \in DOMAIN w}] BY <2>1
  <2>3. \A R : w \in [1 .. Len(w) -> R] => w \in Seq(R) BY <2>1
  <2> QED BY <2>2, <2>3 DEF IsSeq
<1> QED BY <1>3, <1>4 DEF w

(* What the two recursive functions are. *)
LEMMA ObeyingIs ==
    ASSUME NEW d, NEW hs, Len(hs) \in Nat
    PROVE  /\ Obeying(d, hs)[0] = d
           /\ \A n \in 1 .. Len(hs) : Obeying(d, hs)[n] = Obey(Obeying(d, hs)[n - 1], hs[n])
<1> DEFINE Z == Len(hs)
           F(f) == f = [n \in 0 .. Z |-> IF n = 0 THEN d ELSE Obey(f[n - 1], hs[n])]
           UpTo(n, g) == g[0] = d /\ \A i \in 1 .. n : g[i] = Obey(g[i - 1], hs[i])
           good == {n \in 0 .. Z : \E g : UpTo(n, g)}
<1>1. 0 \in good
  <2> DEFINE g == [i \in {0} |-> d]
  <2>1. g[0] = d OBVIOUS
  <2> HIDE DEF g
  <2>2. UpTo(0, g) /\ 0 \in 0 .. Z BY <2>1
  <2> QED BY <2>2
<1>2. ASSUME NEW n \in 0 .. Z - 1, n \in good PROVE n + 1 \in good
  <2>1. PICK g : UpTo(n, g) BY <1>2
  <2> DEFINE h == [i \in 0 .. n + 1 |-> IF i = n + 1 THEN Obey(g[n], hs[n + 1]) ELSE g[i]]
  <2>2. h[0] = g[0] /\ h[n + 1] = Obey(g[n], hs[n + 1]) /\ \A i \in 0 .. n : h[i] = g[i] OBVIOUS
  <2> HIDE DEF h
  <2>3. ASSUME NEW i \in 1 .. n + 1 PROVE h[i] = Obey(h[i - 1], hs[i])
    <3>1. CASE i = n + 1
      <4>1. i - 1 = n /\ n \in 0 .. n BY <3>1
      <4> QED BY <2>2, <3>1, <4>1
    <3>2. CASE i \in 1 .. n
      <4>1. i \in 0 .. n /\ i - 1 \in 0 .. n BY <3>2
      <4>2. g[i] = Obey(g[i - 1], hs[i]) BY <2>1, <3>2
      <4> QED BY <2>2, <4>1, <4>2
    <3> QED BY <3>1, <3>2
  <2>4. UpTo(n + 1, h) BY <2>1, <2>2, <2>3
  <2>5. n + 1 \in 0 .. Z OBVIOUS
  <2> QED BY <2>4, <2>5
<1>3. Z \in good
  <2> HIDE DEF good
  <2>1. 0 .. Z \subseteq good BY <1>1, <1>2, Induct
  <2>2. Z \in 0 .. Z OBVIOUS
  <2> QED BY <2>1, <2>2
<1>4. PICK g : UpTo(Z, g) BY <1>3
<1>5. \E f : F(f)
  <2> DEFINE f == [n \in 0 .. Z |-> g[n]]
  <2>1. ASSUME NEW n \in 0 .. Z PROVE f[n] = IF n = 0 THEN d ELSE Obey(f[n - 1], hs[n])
    <3>1. CASE n = 0 BY <1>4, <3>1
    <3>2. CASE n # 0
      <4>1. n \in 1 .. Z /\ n - 1 \in 0 .. Z BY <3>2
      <4>2. f[n] = g[n] /\ f[n - 1] = g[n - 1] BY <4>1
      <4> QED BY <1>4, <3>2, <4>1, <4>2
    <3> QED BY <3>1, <3>2
  <2>2. F(f) BY <2>1
  <2> QED BY <2>2
<1>6. Obeying(d, hs) = CHOOSE f : F(f) BY DEF Obeying
<1>7. F(Obeying(d, hs)) BY <1>5, <1>6
<1> DEFINE o == Obeying(d, hs)
<1>8. \A n \in 0 .. Z : o[n] = IF n = 0 THEN d ELSE Obey(o[n - 1], hs[n]) BY <1>7
<1>9. 0 \in 0 .. Z /\ \A n \in 1 .. Z : n \in 0 .. Z /\ n # 0 OBVIOUS
<1> HIDE DEF o
<1>10. o[0] = d /\ \A n \in 1 .. Z : o[n] = Obey(o[n - 1], hs[n]) BY <1>8, <1>9
<1> QED BY <1>10 DEF o

(* The same of mutations. *)
LEMMA RetellingIs ==
    ASSUME NEW d, NEW ms, Len(ms) \in Nat
    PROVE  /\ Retelling(d, ms)[0] = d
           /\ \A n \in 1 .. Len(ms) : Retelling(d, ms)[n] = Retell(Retelling(d, ms)[n - 1], ms[n])
<1> DEFINE Z == Len(ms)
           F(f) == f = [n \in 0 .. Z |-> IF n = 0 THEN d ELSE Retell(f[n - 1], ms[n])]
           UpTo(n, g) == g[0] = d /\ \A i \in 1 .. n : g[i] = Retell(g[i - 1], ms[i])
           good == {n \in 0 .. Z : \E g : UpTo(n, g)}
<1>1. 0 \in good
  <2> DEFINE g == [i \in {0} |-> d]
  <2>1. g[0] = d OBVIOUS
  <2> HIDE DEF g
  <2>2. UpTo(0, g) /\ 0 \in 0 .. Z BY <2>1
  <2> QED BY <2>2
<1>2. ASSUME NEW n \in 0 .. Z - 1, n \in good PROVE n + 1 \in good
  <2>1. PICK g : UpTo(n, g) BY <1>2
  <2> DEFINE h == [i \in 0 .. n + 1 |-> IF i = n + 1 THEN Retell(g[n], ms[n + 1]) ELSE g[i]]
  <2>2. h[0] = g[0] /\ h[n + 1] = Retell(g[n], ms[n + 1]) /\ \A i \in 0 .. n : h[i] = g[i] OBVIOUS
  <2> HIDE DEF h
  <2>3. ASSUME NEW i \in 1 .. n + 1 PROVE h[i] = Retell(h[i - 1], ms[i])
    <3>1. CASE i = n + 1
      <4>1. i - 1 = n /\ n \in 0 .. n BY <3>1
      <4> QED BY <2>2, <3>1, <4>1
    <3>2. CASE i \in 1 .. n
      <4>1. i \in 0 .. n /\ i - 1 \in 0 .. n BY <3>2
      <4>2. g[i] = Retell(g[i - 1], ms[i]) BY <2>1, <3>2
      <4> QED BY <2>2, <4>1, <4>2
    <3> QED BY <3>1, <3>2
  <2>4. UpTo(n + 1, h) BY <2>1, <2>2, <2>3
  <2>5. n + 1 \in 0 .. Z OBVIOUS
  <2> QED BY <2>4, <2>5
<1>3. Z \in good
  <2> HIDE DEF good
  <2>1. 0 .. Z \subseteq good BY <1>1, <1>2, Induct
  <2>2. Z \in 0 .. Z OBVIOUS
  <2> QED BY <2>1, <2>2
<1>4. PICK g : UpTo(Z, g) BY <1>3
<1>5. \E f : F(f)
  <2> DEFINE f == [n \in 0 .. Z |-> g[n]]
  <2>1. ASSUME NEW n \in 0 .. Z PROVE f[n] = IF n = 0 THEN d ELSE Retell(f[n - 1], ms[n])
    <3>1. CASE n = 0 BY <1>4, <3>1
    <3>2. CASE n # 0
      <4>1. n \in 1 .. Z /\ n - 1 \in 0 .. Z BY <3>2
      <4>2. f[n] = g[n] /\ f[n - 1] = g[n - 1] BY <4>1
      <4> QED BY <1>4, <3>2, <4>1, <4>2
    <3> QED BY <3>1, <3>2
  <2>2. F(f) BY <2>1
  <2> QED BY <2>2
<1>6. Retelling(d, ms) = CHOOSE f : F(f) BY DEF Retelling
<1>7. F(Retelling(d, ms)) BY <1>5, <1>6
<1> DEFINE o == Retelling(d, ms)
<1>8. \A n \in 0 .. Z : o[n] = IF n = 0 THEN d ELSE Retell(o[n - 1], ms[n]) BY <1>7
<1>9. 0 \in 0 .. Z /\ \A n \in 1 .. Z : n \in 0 .. Z /\ n # 0 OBVIOUS
<1> HIDE DEF o
<1>10. o[0] = d /\ \A n \in 1 .. Z : o[n] = Retell(o[n - 1], ms[n]) BY <1>8, <1>9
<1> QED BY <1>10 DEF o

(* Tuples of one and two are sequences. *)
LEMMA TuplesAreSeqs ==
    /\ \A a : IsSeq(<<a>>) /\ Len(<<a>>) = 1 /\ <<a>>[1] = a
    /\ \A a, b : IsSeq(<<a, b>>) /\ Len(<<a, b>>) = 2 /\ <<a, b>>[1] = a /\ <<a, b>>[2] = b
<1>1. ASSUME NEW a PROVE IsSeq(<<a>>) /\ Len(<<a>>) = 1 /\ <<a>>[1] = a
  <2>1. \A s : s = <<a>> => IsSeq(s)
    <3> DEFINE u == Append(<<>>, a)
    <3>1. IsSeq(<<>>) BY NothingIsSeq
    <3>2. IsSeq(u) BY <3>1, SeqLonger
    <3>3. u = <<a>> OBVIOUS
    <3> HIDE DEF u
    <3> QED BY <3>2, <3>3
  <2>2. IsSeq(<<a>>) BY <2>1
  <2> QED BY <2>2
<1>2. ASSUME NEW a, NEW b
      PROVE  IsSeq(<<a, b>>) /\ Len(<<a, b>>) = 2 /\ <<a, b>>[1] = a /\ <<a, b>>[2] = b
  <2>1. \A s : s = <<a, b>> => IsSeq(s)
    <3> DEFINE o == <<a>>
               u == Append(o, b)
    <3>1. IsSeq(o) BY <1>1
    <3>2. <<a, b>> = Append(<<a>>, b) OBVIOUS
    <3>4. u = <<a, b>> BY <3>2
    <3> HIDE DEF o
    <3>3. IsSeq(u) BY <3>1, SeqLonger
    <3> HIDE DEF u
    <3> QED BY <3>3, <3>4
  <2>2. IsSeq(<<a, b>>) BY <2>1
  <2> QED BY <2>2
<1> QED BY <1>1, <1>2

(* One mutation more. *)
LEMMA ToldMore ==
    ASSUME NEW ms, IsSeq(ms), NEW w, IsSeq(w), Len(w) = Len(ms) + 1,
           \A n \in 1 .. Len(ms) : w[n] = ms[n],
           NEW m, w[Len(ms) + 1] = m
    PROVE  /\ Retold(first, w) = Retell(Retold(first, ms), m)
           /\ Chained(ms) /\ m.before = Retold(first, ms)[m.path] => Chained(w)
<1> DEFINE Z == Len(ms)
           f == Retelling(first, ms)
           g == Retelling(first, w)
           good == {n \in 0 .. Z : g[n] = f[n]}
<1>1. Z \in Nat /\ Len(w) \in Nat /\ DOMAIN ms = 1 .. Z /\ DOMAIN w = 1 .. Z + 1 /\ Len(w) = Z + 1
  BY SeqIs
<1>2. /\ f[0] = first /\ \A n \in 1 .. Z : f[n] = Retell(f[n - 1], ms[n])
      /\ g[0] = first /\ \A n \in 1 .. Len(w) : g[n] = Retell(g[n - 1], w[n])
  BY <1>1, RetellingIs
<1>3. Retold(first, ms) = f[Z] /\ Retold(first, w) = g[Z + 1] BY <1>1 DEF Retold
<1>4. Chained(ms) <=> \A n \in 1 .. Z : ms[n].before = f[n - 1][ms[n].path]
  BY <1>1 DEF Chained
<1>5. Chained(w) <=> \A n \in 1 .. Z + 1 : w[n].before = g[n - 1][w[n].path]
  BY <1>1 DEF Chained
<1>6. \A n \in 1 .. Z : w[n] = ms[n] OBVIOUS
<1>7. w[Z + 1] = m OBVIOUS
<1> HIDE DEF Z, f, g
<1>8. 0 .. Z \subseteq good
  <2>1. 0 \in good BY <1>1, <1>2
  <2>2. ASSUME NEW n \in 0 .. Z - 1, n \in good PROVE n + 1 \in good
    <3>1. n + 1 \in 1 .. Z /\ n + 1 \in 1 .. Len(w) /\ (n + 1) - 1 = n /\ n + 1 \in 0 .. Z BY <1>1
    <3> QED BY <1>2, <1>6, <2>2, <3>1
  <2> HIDE DEF good
  <2> QED BY <1>1, <2>1, <2>2, Induct
<1>9. \A n \in 0 .. Z : g[n] = f[n] BY <1>8
<1>10. g[Z + 1] = Retell(f[Z], m)
  <2>1. Z + 1 \in 1 .. Len(w) /\ (Z + 1) - 1 = Z /\ Z \in 0 .. Z BY <1>1
  <2> QED BY <1>2, <1>7, <1>9, <2>1
<1>11. ASSUME Chained(ms), m.before = f[Z][m.path] PROVE Chained(w)
  <2> SUFFICES ASSUME NEW n \in 1 .. Z + 1 PROVE w[n].before = g[n - 1][w[n].path] BY <1>5
  <2>1. CASE n = Z + 1
    <3>1. n - 1 = Z /\ Z \in 0 .. Z BY <1>1, <2>1
    <3> QED BY <1>7, <1>9, <1>11, <2>1, <3>1
  <2>2. CASE n \in 1 .. Z
    <3>1. n - 1 \in 0 .. Z BY <1>1, <2>2
    <3> QED BY <1>4, <1>6, <1>9, <1>11, <2>2, <3>1
  <2> QED BY <1>1, <2>1, <2>2
<1> QED BY <1>3, <1>10, <1>11

(* What is told of a change is what the change does. *)
LEMMA ToldIsDone ==
    ASSUME IsSeq(mutations), IsDisk(files), files = Retold(first, mutations), Chained(mutations),
           NEW c, {c.path, c.dest} \subseteq PatchFiles, c.before = files[c.path],
           c.destBefore = files[c.dest], c.kind = "move" => c.dest # c.path,
           c.kind = "delete" => c.after = Missing
    PROVE  Retold(first, mutations \o Told(c)) = Done(files, c) /\ Chained(mutations \o Told(c))
<1> DEFINE w == mutations \o Told(c)
           k == Len(mutations)
<1>0. k \in Nat BY SeqIs
<1>1. CASE c.kind # "move"
  <2> DEFINE m == Mutation(c.path, c.before, c.after)
  <2>1. Told(c) = <<m>> BY <1>1 DEF Told
  <2>2. m.path = c.path /\ m.before = c.before /\ m.after = c.after BY DEF Mutation
  <2> HIDE DEF m
  <2>3. IsSeq(<<m>>) /\ Len(<<m>>) = 1 /\ <<m>>[1] = m BY TuplesAreSeqs
  <2>4. /\ IsSeq(w) /\ Len(w) = k + 1 /\ w[k + 1] = m
        /\ \A n \in 1 .. k : w[n] = mutations[n]
    <3>1. /\ IsSeq(w) /\ Len(w) = k + Len(<<m>>) /\ \A n \in 1 .. k : w[n] = mutations[n]
          /\ \A n \in 1 .. Len(<<m>>) : w[k + n] = <<m>>[n]
      BY <2>1, <2>3, SeqJoined
    <3> HIDE DEF w, k
    <3> QED BY <2>3, <3>1
  <2> HIDE DEF w
  <2>5. Retold(first, w) = Retell(files, m) /\ Chained(w) BY <2>2, <2>4, ToldMore
  <2>6. Retell(files, m) = [files EXCEPT ![c.path] = c.after] BY <2>2 DEF Retell
  <2>7. Done(files, c) = [files EXCEPT ![c.path] = c.after] BY <1>1 DEF Done
  <2> QED BY <2>5, <2>6, <2>7 DEF w
<1>2. CASE c.kind = "move"
  <2> DEFINE m == Mutation(c.path, c.before, Missing)
             e == Mutation(c.dest, c.destBefore, c.after)
             u == Append(mutations, m)
             d == [files EXCEPT ![c.path] = Missing]
  <2>1. Told(c) = <<m, e>> BY <1>2 DEF Told
  <2>2. /\ m.path = c.path /\ m.before = c.before /\ m.after = Missing
        /\ e.path = c.dest /\ e.before = c.destBefore /\ e.after = c.after
    BY DEF Mutation
  <2> HIDE DEF m, e
  <2>3. IsSeq(<<m, e>>) /\ Len(<<m, e>>) = 2 /\ <<m, e>>[1] = m /\ <<m, e>>[2] = e
    BY TuplesAreSeqs
  <2>4. /\ IsSeq(w) /\ Len(w) = k + 2 /\ w[k + 1] = m /\ w[k + 2] = e
        /\ \A n \in 1 .. k : w[n] = mutations[n]
    <3>1. /\ IsSeq(w) /\ Len(w) = k + Len(<<m, e>>) /\ \A n \in 1 .. k : w[n] = mutations[n]
          /\ \A n \in 1 .. Len(<<m, e>>) : w[k + n] = <<m, e>>[n]
      BY <2>1, <2>3, SeqJoined
    <3> HIDE DEF w, k
    <3>2. 1 \in 1 .. Len(<<m, e>>) /\ 2 \in 1 .. Len(<<m, e>>) BY <2>3
    <3> QED BY <2>3, <3>1, <3>2
  <2>5. /\ IsSeq(u) /\ Len(u) = k + 1 /\ u[k + 1] = m
        /\ \A n \in 1 .. k : u[n] = mutations[n]
    BY SeqLonger
  <2> HIDE DEF w, u
  <2>6. Retold(first, u) = Retell(files, m) /\ Chained(u) BY <2>2, <2>5, ToldMore
  <2>7. Retell(files, m) = d BY <2>2 DEF Retell
  <2>8. d[c.dest] = files[c.dest] BY <1>2 DEF IsDisk
  <2>9. \A n \in 1 .. Len(u) : w[n] = u[n]
    <3> HIDE DEF k
    <3> SUFFICES ASSUME NEW n \in 1 .. Len(u) PROVE w[n] = u[n] OBVIOUS
    <3>1. n \in 1 .. k \/ n = k + 1 BY <1>0, <2>5
    <3> QED BY <2>4, <2>5, <3>1
  <2>10. Len(w) = Len(u) + 1 /\ w[Len(u) + 1] = e
    <3> HIDE DEF k
    <3>1. (k + 1) + 1 = k + 2 BY <1>0
    <3> QED BY <2>4, <2>5, <3>1
  <2> HIDE DEF d
  <2>11. Retold(first, w) = Retell(d, e) /\ Chained(w)
    <3>1. Retold(first, u) = d BY <2>6, <2>7
    <3>2. e.before = d[e.path] BY <2>2, <2>8
    <3>3. e.before = Retold(first, u)[e.path] BY <3>1, <3>2
    <3>4. Retold(first, w) = Retell(Retold(first, u), e) /\ Chained(w)
      BY <2>4, <2>5, <2>6, <2>9, <2>10, <3>3, ToldMore
    <3> QED BY <3>1, <3>4
  <2>12. Retell(d, e) = Done(files, c)
    <3>1. Retell(d, e) = [d EXCEPT ![c.dest] = c.after] BY <2>2 DEF Retell
    <3>2. Done(files, c) = [files EXCEPT ![c.dest] = c.after, ![c.path] = Missing]
      BY <1>2 DEF Done
    <3>3. d = [files EXCEPT ![c.path] = Missing] BY DEF d
    <3> QED BY <1>2, <3>1, <3>2, <3>3
  <2> QED BY <2>11, <2>12 DEF w
<1> QED BY <1>1, <1>2

(* What a section does to a disk leaves a disk, and what a change does.    *)
LEMMA DisksStay ==
    ASSUME NEW d, IsDisk(d)
    PROVE  /\ \A h \in Parsed : IsDisk(Obey(d, h))
           /\ \A c : IsDisk(Done(d, c))
           /\ \A f, x : IsDisk([d EXCEPT ![f] = x])
<1>1. \A f, x : IsDisk([d EXCEPT ![f] = x]) BY DEF IsDisk
<1>2. \A f, x, g, y : IsDisk([d EXCEPT ![f] = x, ![g] = y]) BY DEF IsDisk
<1>3. ASSUME NEW h \in Parsed PROVE IsDisk(Obey(d, h))
  <2> DEFINE x == DeriveNewContents(d[h.path], h.chunks).lines
  <2>1. h.kind \in {"add", "delete", "update", "move"} BY DEF Parsed
  <2>2. Obey(d, h) = CASE h.kind = "add" -> [d EXCEPT ![h.path] = h.lines]
                       [] h.kind = "delete" -> [d EXCEPT ![h.path] = Missing]
                       [] h.kind = "update" -> [d EXCEPT ![h.path] = x]
                       [] h.kind = "move" -> [d EXCEPT ![h.path] = Missing, ![h.dest] = x]
    BY DEF Obey
  <2> HIDE DEF x
  <2>3. CASE h.kind = "add"
    <3>1. Obey(d, h) = [d EXCEPT ![h.path] = h.lines] BY <2>2, <2>3
    <3>2. IsDisk([d EXCEPT ![h.path] = h.lines]) BY <1>1
    <3> QED BY <3>1, <3>2
  <2>4. CASE h.kind = "delete"
    <3>1. Obey(d, h) = [d EXCEPT ![h.path] = Missing] BY <2>2, <2>4
    <3>2. IsDisk([d EXCEPT ![h.path] = Missing]) BY <1>1
    <3> QED BY <3>1, <3>2
  <2>5. CASE h.kind = "update"
    <3>1. Obey(d, h) = [d EXCEPT ![h.path] = x] BY <2>2, <2>5
    <3>2. IsDisk([d EXCEPT ![h.path] = x]) BY <1>1
    <3> QED BY <3>1, <3>2
  <2>6. CASE h.kind = "move"
    <3>1. Obey(d, h) = [d EXCEPT ![h.path] = Missing, ![h.dest] = x] BY <2>2, <2>6
    <3>2. IsDisk([d EXCEPT ![h.path] = Missing, ![h.dest] = x]) BY <1>2
    <3> QED BY <3>1, <3>2
  <2> QED BY <2>1, <2>3, <2>4, <2>5, <2>6
<1>4. ASSUME NEW c PROVE IsDisk(Done(d, c)) BY <1>1, <1>2 DEF Done
<1> QED BY <1>1, <1>3, <1>4

(* The disks of the story follow one from the other, and all are disks. *)
LEMMA StoryIs ==
    ASSUME hunks \in Seq(Parsed), IsDisk(first)
    PROVE  /\ Story[0] = first /\ Len(hunks) \in Nat
           /\ \A n \in 1 .. Len(hunks) : hunks[n] \in Parsed /\ Story[n] = Obey(Story[n - 1], hunks[n])
           /\ \A n \in 0 .. Len(hunks) : IsDisk(Story[n])
<1> DEFINE Z == Len(hunks)
           good == {n \in 0 .. Z : IsDisk(Story[n])}
<1>1. Z \in Nat /\ \A n \in 1 .. Z : hunks[n] \in Parsed OBVIOUS
<1>2. Story[0] = first /\ \A n \in 1 .. Z : Story[n] = Obey(Story[n - 1], hunks[n])
  BY <1>1, ObeyingIs DEF Story
<1> HIDE DEF Z
<1>3. 0 \in good BY <1>1, <1>2
<1>4. ASSUME NEW n \in 0 .. Z - 1, n \in good PROVE n + 1 \in good
  <2>1. n + 1 \in 1 .. Z /\ (n + 1) - 1 = n /\ n + 1 \in 0 .. Z BY <1>1
  <2>2. IsDisk(Story[n]) BY <1>4
  <2>3. Story[n + 1] = Obey(Story[n], hunks[n + 1]) /\ hunks[n + 1] \in Parsed BY <1>1, <1>2, <2>1
  <2>4. IsDisk(Story[n + 1]) BY <2>2, <2>3, DisksStay
  <2> QED BY <2>1, <2>4
<1>5. 0 .. Z \subseteq good
  <2> HIDE DEF good
  <2> QED BY <1>1, <1>3, <1>4, Induct
<1> QED BY <1>1, <1>2, <1>5 DEF Z

(* With a file put in, the map says that of it, and of others the same.    *)
LookIn(map, f) == IF f \in DOMAIN map THEN map[f] ELSE files[f]
(* What With does, for every map and file. *)
LEMMA WithIs ==
    \A map, g, c, f : LookIn(With(map, g, c), f) = IF f = g THEN c ELSE LookIn(map, f)
<1> SUFFICES ASSUME NEW map, NEW g, NEW c, NEW f
             PROVE  LookIn(With(map, g, c), f) = IF f = g THEN c ELSE LookIn(map, f)
  OBVIOUS
<1> DEFINE w == With(map, g, c)
<1>1. /\ DOMAIN w = DOMAIN map \cup {g} /\ w[g] = c
      /\ \A o \in DOMAIN map \cup {g} : w[o] = IF o = g THEN c ELSE map[o]
  BY DEF With
<1> HIDE DEF w
<1>2. LookIn(w, f) = IF f = g THEN c ELSE LookIn(map, f) BY <1>1 DEF LookIn
<1> QED BY <1>2 DEF w

(* Nothing told yet is the disk as it was. *)
LEMMA NothingTold == \A d : Retold(d, <<>>) = d
<1>1. Len(<<>>) = 0 BY NothingIsSeq
<1> QED BY <1>1, RetellingIs DEF Retold

(* A call that has not begun. *)
LEMMA PatchStarts == PatchInit => PatchInv
<1> SUFFICES ASSUME PatchInit PROVE PatchInv OBVIOUS
<1> USE DEF PatchInit
<1>1. files \in [PatchFiles -> Lines] BY PatchAssumption
<1>2. IsDisk(files) /\ IsDisk(first) BY <1>1 DEF IsDisk
<1>3. IsSeq(planned) /\ IsSeq(mutations) BY NothingIsSeq
<1>4. hunks \in Seq(Parsed) OBVIOUS
<1>5. DOMAIN virtual = {} OBVIOUS
<1>6. CallFits BY <1>2, <1>3, <1>4, <1>5 DEF CallFits, RefusedTouchesNothing
<1>7. Chained(mutations)
  <2>1. DOMAIN mutations = {} OBVIOUS
  <2> QED BY <2>1 DEF Chained
<1>8. QuietFits BY <1>7 DEF QuietFits
<1> QED BY <1>6, <1>8 DEF PatchInv

(* A text is parsed, whole or not at all. *)
LEMMA RunKeeps ==
    ASSUME PatchInv, stage = "off", NEW text \in Patches, Run(text)
    PROVE  PatchInv'
<1>1. CallFits BY DEF PatchInv
<1>2. /\ UNCHANGED <<files, nextHunk, virtual, planned, mutations, written, torn, meddled>>
      /\ first' = files /\ stage' \in {"computing", "refused"}
      /\ stage' = "computing" => hunks' \in Seq(Parsed)
  BY PatchAssumption DEF Run
<1>3. /\ nextHunk = 1 /\ planned = <<>> /\ DOMAIN virtual = {} /\ files = first
      /\ IsDisk(files) /\ IsSeq(planned) /\ IsSeq(mutations) /\ meddled \in Nat
      /\ written = {} /\ mutations = <<>> /\ Len(planned) = 0
  BY <1>1, NothingIsSeq DEF CallFits, RefusedTouchesNothing
<1>4. IsDisk(files)' /\ IsDisk(first)' /\ IsSeq(planned)' /\ IsSeq(mutations)' /\ meddled' \in Nat
  BY <1>2, <1>3
<1>5. RefusedTouchesNothing' BY <1>2, <1>3 DEF RefusedTouchesNothing
<1>6. stage' = "computing" => Len(hunks') \in Nat /\ Story'[0] = first'
  BY <1>2, ObeyingIs DEF Story
<1>7. CallFits'
  <2>1. stage' = "computing" => nextHunk' \in 1 .. Len(hunks') + 1 /\ Len(planned') = nextHunk' - 1
    BY <1>2, <1>3, <1>6
  <2> QED BY <1>2, <1>4, <1>5, <2>1 DEF CallFits
<1>8. QuietFits'
  <2>1. Chained(mutations)'
    <3>1. DOMAIN mutations' = {} BY <1>2, <1>3
    <3> QED BY <3>1 DEF Chained
  <2>2. stage' = "computing" => \A f \in PatchFiles : Seen(f)' = Story'[(nextHunk - 1)'][f]
    <3>1. nextHunk' - 1 = 0 BY <1>2, <1>3
    <3>2. \A f \in PatchFiles : Seen(f)' = first'[f] BY <1>2, <1>3 DEF Seen
    <3> QED BY <1>6, <3>1, <3>2
  <2>3. \A n \in 1 .. Len(planned') : FALSE BY <1>2, <1>3
  <2> QED BY <1>2, <1>3, <2>1, <2>2, <2>3 DEF QuietFits
<1> QED BY <1>7, <1>8 DEF PatchInv

(* Someone edits: from here on only what the call itself wrote is claimed. *)
LEMMA MeddleKeeps ==
    ASSUME PatchInv, NEW f \in PatchFiles, NEW c \in Outside, Meddle(f, c)
    PROVE  PatchInv'
<1>1. CallFits BY DEF PatchInv
<1>2. /\ stage \in {"computing", "writing"} /\ files' = [files EXCEPT ![f] = c]
      /\ meddled' = meddled + 1
      /\ UNCHANGED <<stage, hunks, nextHunk, virtual, planned, mutations, first, written, torn>>
  BY DEF Meddle, inCall
<1>3. IsDisk(files)' BY <1>1, <1>2, DisksStay DEF CallFits
<1>4. meddled' \in Nat /\ meddled' # 0 BY <1>1, <1>2 DEF CallFits
<1>5. CallFits' BY <1>1, <1>2, <1>3, <1>4 DEF CallFits, RefusedTouchesNothing
<1> QED BY <1>4, <1>5 DEF PatchInv

(* A refusal. *)
LEMMA RefuseKeeps ==
    ASSUME PatchInv, stage = "computing", Refuse,
           UNCHANGED <<files, mutations, first, written, torn, meddled>>
    PROVE  PatchInv'
<1>1. CallFits BY DEF PatchInv
<1>2. stage' = "refused" /\ UNCHANGED <<hunks, nextHunk, virtual, planned>> BY DEF Refuse
<1>3. CallFits' BY <1>1, <1>2 DEF CallFits, RefusedTouchesNothing
<1>4. ASSUME meddled' = 0 PROVE QuietFits'
  <2>1. QuietFits BY <1>4 DEF PatchInv
  <2>2. files' = first' /\ Chained(mutations) BY <2>1 DEF QuietFits
  <2>3. Chained(mutations)' BY <2>2 DEF Chained
  <2> QED BY <1>2, <2>2, <2>3 DEF QuietFits
<1> QED BY <1>3, <1>4 DEF PatchInv

(* One change more, that is the section's. *)
LEMMA PlanKeeps ==
    ASSUME PatchInv, stage = "computing", nextHunk <= Len(hunks), NEW c, NEW map, Plan(c, map),
           UNCHANGED <<files, mutations, first, written, torn, meddled>>,
           meddled = 0 => /\ ChangeFits(Story, nextHunk, c)
                          /\ \A f \in PatchFiles : LookIn(map, f) = Story[nextHunk][f]
    PROVE  PatchInv'
<1>1. CallFits BY DEF PatchInv
<1>2. /\ planned' = Append(planned, c) /\ virtual' = map /\ nextHunk' = nextHunk + 1
      /\ UNCHANGED <<stage, hunks>>
  BY DEF Plan
<1>3. /\ IsSeq(planned) /\ nextHunk \in 1 .. Len(hunks) + 1 /\ Len(planned) = nextHunk - 1
      /\ hunks \in Seq(Parsed) /\ Len(hunks) \in Nat
  BY <1>1 DEF CallFits
<1>4. /\ IsSeq(planned') /\ Len(planned') = Len(planned) + 1 /\ planned'[Len(planned) + 1] = c
      /\ \A n \in 1 .. Len(planned) : planned'[n] = planned[n]
  BY <1>2, <1>3, SeqLonger
<1>5. nextHunk' \in 1 .. Len(hunks') + 1 /\ Len(planned') = nextHunk' - 1 BY <1>2, <1>3, <1>4
<1>6. CallFits' BY <1>1, <1>2, <1>4, <1>5 DEF CallFits, RefusedTouchesNothing
<1>7. ASSUME meddled' = 0 PROVE QuietFits'
  <2>1. QuietFits BY <1>7 DEF PatchInv
  <2>2. files' = first' /\ Chained(mutations) BY <2>1 DEF QuietFits
  <2>3. Chained(mutations)' BY <2>2 DEF Chained
  <2>4. Story' = Story BY <1>2 DEF Story
  <2>5. nextHunk' - 1 = nextHunk BY <1>2, <1>3
  <2>6. ASSUME NEW f \in PatchFiles PROVE Seen(f)' = Story'[nextHunk' - 1][f]
    <3>1. Seen(f)' = LookIn(map, f) BY <1>2 DEF Seen, LookIn
    <3>2. LookIn(map, f) = Story[nextHunk][f] BY <1>7
    <3> QED BY <2>4, <2>5, <3>1, <3>2
  <2>7. ASSUME NEW n \in 1 .. Len(planned') PROVE ChangeFits(Story', n, planned'[n])
    <3>1. CASE n \in 1 .. Len(planned)
      <4>1. ChangeFits(Story, n, planned[n]) BY <2>1, <3>1 DEF QuietFits
      <4> QED BY <1>4, <2>4, <3>1, <4>1
    <3>2. CASE n = Len(planned) + 1
      <4>1. n = nextHunk BY <1>3, <3>2
      <4>2. ChangeFits(Story, nextHunk, c) BY <1>7
      <4> QED BY <1>4, <2>4, <3>2, <4>1, <4>2
    <3> QED BY <1>3, <1>4, <3>1, <3>2
  <2> QED BY <1>2, <2>2, <2>3, <2>6, <2>7 DEF QuietFits
<1> QED BY <1>6, <1>7 DEF PatchInv

(* Each kind of section becomes the change it says.                        *)
LEMMA ComputeKeeps ==
    ASSUME PatchInv, Compute
    PROVE  PatchInv'
<1> DEFINE k == nextHunk
           h == hunks[k]
           now == Seen(h.path)
           derived == DeriveNewContents(now, h.chunks)
           d == Story[k - 1]
<1>1. /\ stage = "computing" /\ k <= Len(hunks)
      /\ UNCHANGED <<files, mutations, first, written, torn, meddled>>
  BY DEF Compute
<1>2. /\ hunks \in Seq(Parsed) /\ IsDisk(first) /\ k \in 1 .. Len(hunks) + 1 /\ Len(hunks) \in Nat
  BY <1>1 DEF PatchInv, CallFits
<1>3. k \in 1 .. Len(hunks) /\ k - 1 \in 0 .. Len(hunks) BY <1>1, <1>2
<1>4. h \in Parsed /\ Story[k] = Obey(d, h) /\ IsDisk(d) BY <1>2, <1>3, StoryIs
<1>5. h.path \in PatchFiles /\ h.dest \in PatchFiles BY <1>4 DEF Parsed
<1>6. meddled = 0 => \A f \in PatchFiles : Seen(f) = d[f] BY <1>1 DEF PatchInv, QuietFits
<1>7. \A f : Seen(f) = LookIn(virtual, f) BY DEF Seen, LookIn
<1>8. \/ h.kind = "add" /\ Plan(ChangeOf("add", h, h.lines), With(virtual, h.path, h.lines))
      \/ Refuse
      \/ /\ h.kind = "delete"
         /\ Plan(ChangeOf("delete", h, Missing), With(virtual, h.path, Missing))
      \/ /\ h.kind = "update"
         /\ Plan(ChangeOf("update", h, derived.lines), With(virtual, h.path, derived.lines))
      \/ /\ h.kind = "move" /\ h.dest # h.path
         /\ Plan(ChangeOf("move", h, derived.lines),
                 With(With(virtual, h.path, Missing), h.dest, derived.lines))
  BY DEF Compute
<1>9. \A kind, after : LET c == ChangeOf(kind, h, after) IN
        /\ c.kind = kind /\ c.path = h.path /\ c.before = Seen(h.path) /\ c.after = after
        /\ c.dest = h.dest /\ c.destBefore = Seen(h.dest)
  BY DEF ChangeOf
<1> DEFINE x == derived.lines
<1>11. meddled = 0 => x = DeriveNewContents(d[h.path], h.chunks).lines BY <1>5, <1>6
<1> HIDE DEF k, h, now, derived, d, x
<1>12. CASE Refuse BY <1>1, <1>12, RefuseKeeps
(* A section that leaves one file with this content. *)
<1>13. ASSUME NEW kind, kind \in {"add", "delete", "update"}, kind = h.kind, NEW after,
              meddled = 0 => Story[k] = [d EXCEPT ![h.path] = after],
              kind = "delete" => after = Missing,
              Plan(ChangeOf(kind, h, after), With(virtual, h.path, after))
       PROVE  PatchInv'
  <2> DEFINE c == ChangeOf(kind, h, after)
             map == With(virtual, h.path, after)
  <2>1. /\ c.kind = kind /\ c.path = h.path /\ c.before = Seen(h.path) /\ c.after = after
        /\ c.dest = h.dest /\ c.destBefore = Seen(h.dest)
    BY <1>9
  <2>2. \A f : LookIn(map, f) = IF f = h.path THEN after ELSE Seen(f) BY <1>7, WithIs
  <2>3. Plan(c, map) BY <1>13
  <2> HIDE DEF c, map
  <2>4. ASSUME meddled = 0
        PROVE  ChangeFits(Story, k, c) /\ \A f \in PatchFiles : LookIn(map, f) = Story[k][f]
    <3>1. Story[k] = [d EXCEPT ![h.path] = after] BY <1>13, <2>4
    <3>2. Done(d, c) = [d EXCEPT ![h.path] = after] BY <1>13, <2>1 DEF Done
    <3>3. c.before = d[c.path] /\ c.destBefore = d[c.dest] BY <1>5, <1>6, <2>1, <2>4
    <3>4. ChangeFits(Story, k, c) BY <1>5, <1>13, <2>1, <3>1, <3>2, <3>3 DEF ChangeFits, d
    <3>5. ASSUME NEW f \in PatchFiles PROVE LookIn(map, f) = Story[k][f]
      <4>1. [d EXCEPT ![h.path] = after][f] = IF f = h.path THEN after ELSE d[f]
        BY <1>4 DEF IsDisk
      <4> QED BY <1>6, <2>2, <2>4, <3>1, <4>1
    <3> QED BY <3>4, <3>5
  <2> QED BY <1>1, <2>3, <2>4, PlanKeeps DEF k
<1>14. CASE h.kind = "add" /\ Plan(ChangeOf("add", h, h.lines), With(virtual, h.path, h.lines))
  <2>1. Story[k] = [d EXCEPT ![h.path] = h.lines] BY <1>4, <1>14 DEF Obey
  <2> QED BY <1>13, <1>14, <2>1
<1>15. CASE /\ h.kind = "delete"
            /\ Plan(ChangeOf("delete", h, Missing), With(virtual, h.path, Missing))
  <2>1. Story[k] = [d EXCEPT ![h.path] = Missing] BY <1>4, <1>15 DEF Obey
  <2> QED BY <1>13, <1>15, <2>1
<1>16. CASE h.kind = "update" /\ Plan(ChangeOf("update", h, x), With(virtual, h.path, x))
  <2>1. meddled = 0 => Story[k] = [d EXCEPT ![h.path] = x] BY <1>4, <1>11, <1>16 DEF Obey
  <2> QED BY <1>13, <1>16, <2>1
<1>17. CASE /\ h.kind = "move" /\ h.dest # h.path
            /\ Plan(ChangeOf("move", h, x), With(With(virtual, h.path, Missing), h.dest, x))
  <2> DEFINE c == ChangeOf("move", h, x)
             map == With(With(virtual, h.path, Missing), h.dest, x)
  <2>1. /\ c.kind = "move" /\ c.path = h.path /\ c.before = Seen(h.path) /\ c.after = x
        /\ c.dest = h.dest /\ c.destBefore = Seen(h.dest)
    BY <1>9
  <2>2. \A f : LookIn(map, f) = IF f = h.dest THEN x ELSE IF f = h.path THEN Missing ELSE Seen(f)
    BY <1>7, WithIs
  <2>3. Plan(c, map) BY <1>17
  <2> HIDE DEF c, map
  <2>4. ASSUME meddled = 0
        PROVE  ChangeFits(Story, k, c) /\ \A f \in PatchFiles : LookIn(map, f) = Story[k][f]
    <3>1. Story[k] = [d EXCEPT ![h.path] = Missing, ![h.dest] = x]
      BY <1>4, <1>11, <1>17, <2>4 DEF Obey
    <3>2. Done(d, c) = [d EXCEPT ![h.dest] = x, ![h.path] = Missing] BY <2>1 DEF Done
    <3>3. [d EXCEPT ![h.dest] = x, ![h.path] = Missing]
            = [d EXCEPT ![h.path] = Missing, ![h.dest] = x]
      BY <1>17
    <3>4. c.before = d[c.path] /\ c.destBefore = d[c.dest] BY <1>5, <1>6, <2>1, <2>4
    <3>5. ChangeFits(Story, k, c) BY <1>5, <1>17, <2>1, <3>1, <3>2, <3>3, <3>4 DEF ChangeFits, d
    <3>6. ASSUME NEW f \in PatchFiles PROVE LookIn(map, f) = Story[k][f]
      <4>1. [d EXCEPT ![h.path] = Missing, ![h.dest] = x][f]
              = IF f = h.dest THEN x ELSE IF f = h.path THEN Missing ELSE d[f]
        BY <1>4 DEF IsDisk
      <4> QED BY <1>6, <2>2, <2>4, <3>1, <4>1
    <3> QED BY <3>5, <3>6
  <2> QED BY <1>1, <2>3, <2>4, PlanKeeps DEF k
<1>18. \/ h.kind = "add" /\ Plan(ChangeOf("add", h, h.lines), With(virtual, h.path, h.lines))
       \/ Refuse
       \/ /\ h.kind = "delete"
          /\ Plan(ChangeOf("delete", h, Missing), With(virtual, h.path, Missing))
       \/ h.kind = "update" /\ Plan(ChangeOf("update", h, x), With(virtual, h.path, x))
       \/ /\ h.kind = "move" /\ h.dest # h.path
          /\ Plan(ChangeOf("move", h, x), With(With(virtual, h.path, Missing), h.dest, x))
  BY <1>8 DEF k, h, now, derived, x
<1> QED BY <1>12, <1>14, <1>15, <1>16, <1>17, <1>18

(* From computing to writing: the disk is still the one the call met. *)
LEMMA AllComputedKeeps ==
    ASSUME PatchInv, AllComputed
    PROVE  PatchInv'
<1>1. CallFits BY DEF PatchInv
<1>2. /\ stage = "computing" /\ nextHunk > Len(hunks) /\ stage' = "writing" /\ nextHunk' = 1
      /\ UNCHANGED <<files, hunks, virtual, planned, mutations, first, written, torn, meddled>>
  BY DEF AllComputed
<1>3. /\ nextHunk \in 1 .. Len(hunks) + 1 /\ Len(planned) = nextHunk - 1
      /\ hunks \in Seq(Parsed) /\ Len(hunks) \in Nat /\ IsDisk(first)
  BY <1>1, <1>2 DEF CallFits
<1>4. Len(planned) = Len(hunks) /\ nextHunk' \in 1 .. Len(hunks) + 1 BY <1>2, <1>3
<1>5. CallFits' BY <1>1, <1>2, <1>4 DEF CallFits, RefusedTouchesNothing
<1>6. ASSUME meddled' = 0 PROVE QuietFits'
  <2>1. QuietFits /\ meddled = 0 BY <1>2, <1>6 DEF PatchInv
  <2>2. /\ files = first /\ Chained(mutations)
        /\ \A n \in 1 .. Len(planned) : ChangeFits(Story, n, planned[n])
    BY <1>2, <2>1 DEF QuietFits
  <2>3. Chained(mutations)' BY <1>2, <2>2 DEF Chained
  <2>4. Story' = Story BY <1>2 DEF Story
  <2>5. files' = Story'[nextHunk' - 1]
    <3>1. nextHunk' - 1 = 0 BY <1>2
    <3>2. Story[0] = first BY <1>3, StoryIs
    <3> QED BY <1>2, <2>2, <2>4, <3>1, <3>2
  <2>6. files' = Retold(first, mutations)'
    <3>1. mutations = <<>> BY <1>1, <1>2 DEF CallFits, RefusedTouchesNothing
    <3>2. Retold(first, mutations) = first BY <3>1, NothingTold
    <3> QED BY <1>2, <2>2, <3>2
  <2>7. \A n \in 1 .. Len(planned') : ChangeFits(Story', n, planned'[n]) BY <1>2, <2>2, <2>4
  <2> QED BY <1>2, <2>3, <2>5, <2>6, <2>7 DEF QuietFits
<1> QED BY <1>5, <1>6 DEF PatchInv

(* A change on the disk is the section that it came from, and the turn is  *)
(* told of it.                                                             *)
LEMMA WriteKeeps ==
    ASSUME PatchInv, WriteChange
    PROVE  PatchInv'
<1> DEFINE k == nextHunk
           c == planned[k]
<1>1. CallFits BY DEF PatchInv
<1>2. /\ stage = "writing" /\ k <= Len(planned)
      /\ files' = Done(files, c) /\ mutations' = mutations \o Told(c)
      /\ nextHunk' = k + 1
      /\ UNCHANGED <<stage, hunks, virtual, planned, first, torn, meddled>>
  BY DEF WriteChange
<1>3. /\ k \in 1 .. Len(hunks) + 1 /\ Len(planned) = Len(hunks) /\ Len(hunks) \in Nat
      /\ IsDisk(files) /\ IsSeq(mutations)
  BY <1>1, <1>2 DEF CallFits
<1> HIDE DEF c
<1>4. IsDisk(files)' BY <1>2, <1>3, DisksStay
<1>5. IsSeq(mutations)'
  <2>1. IsSeq(Told(c))
    <3>1. CASE c.kind # "move"
      <4>1. Told(c) = <<Mutation(c.path, c.before, c.after)>> BY <3>1 DEF Told
      <4> QED BY <4>1, TuplesAreSeqs
    <3>2. CASE c.kind = "move"
      <4>1. Told(c) = <<Mutation(c.path, c.before, Missing), Mutation(c.dest, c.destBefore, c.after)>>
        BY <3>2 DEF Told
      <4> QED BY <4>1, TuplesAreSeqs
    <3> QED BY <3>1, <3>2
  <2>2. IsSeq(mutations \o Told(c)) BY <1>3, <2>1, SeqJoined
  <2> QED BY <1>2, <2>2
<1>6. nextHunk' \in 1 .. Len(hunks') + 1 /\ k \in 1 .. Len(planned) /\ (k + 1) - 1 = k
  BY <1>2, <1>3
<1>7. CallFits' BY <1>1, <1>2, <1>4, <1>5, <1>6 DEF CallFits, RefusedTouchesNothing
<1>8. ASSUME meddled' = 0 PROVE QuietFits'
  <2>1. QuietFits BY <1>2, <1>8 DEF PatchInv
  <2>2. /\ files = Story[k - 1] /\ files = Retold(first, mutations) /\ Chained(mutations)
        /\ \A n \in 1 .. Len(planned) : ChangeFits(Story, n, planned[n])
    BY <1>2, <2>1 DEF QuietFits
  <2>3. ChangeFits(Story, k, c) BY <1>6, <2>2 DEF c
  <2>4. /\ {c.path, c.dest} \subseteq PatchFiles
        /\ c.before = files[c.path] /\ c.destBefore = files[c.dest]
        /\ c.kind = "move" => c.dest # c.path
        /\ c.kind = "delete" => c.after = Missing
        /\ Done(files, c) = Story[k]
    BY <2>2, <2>3 DEF ChangeFits
  <2>5. Retold(first, mutations \o Told(c)) = Done(files, c) /\ Chained(mutations \o Told(c))
    BY <1>3, <2>2, <2>4, ToldIsDone
  <2>6. Story' = Story BY <1>2 DEF Story
  <2>7. files' = Story'[nextHunk' - 1] BY <1>2, <1>6, <2>4, <2>6
  <2>8. files' = Retold(first, mutations)' BY <1>2, <2>5
  <2>9. Chained(mutations)' BY <1>2, <2>5 DEF Chained
  <2>10. \A n \in 1 .. Len(planned') : ChangeFits(Story', n, planned'[n]) BY <1>2, <2>2, <2>6
  <2> QED BY <1>2, <2>7, <2>8, <2>9, <2>10 DEF QuietFits
<1> QED BY <1>7, <1>8 DEF PatchInv

(* A failing write spoils its own file only. *)
LEMMA WriteFailsKeeps ==
    ASSUME PatchInv, WriteFails
    PROVE  PatchInv'
<1> DEFINE c == planned[nextHunk]
<1>1. CallFits BY DEF PatchInv
<1>2. /\ stage = "writing" /\ stage' = "failed"
      /\ UNCHANGED <<hunks, nextHunk, virtual, planned, mutations, first, meddled>>
      /\ \/ UNCHANGED files
         \/ files' = [files EXCEPT ![Target(c)] = <<>>] /\ torn' = {Target(c)}
         \/ files' = [files EXCEPT ![c.dest] = c.after] /\ torn' = {c.dest}
  BY DEF WriteFails
<1> HIDE DEF c
<1>3. IsDisk(files) BY <1>1 DEF CallFits
<1>4. IsDisk(files)'
  <2>1. \A f, x : IsDisk([files EXCEPT ![f] = x]) BY <1>3, DisksStay
  <2>2. CASE UNCHANGED files BY <1>3, <2>2
  <2>3. CASE files' = [files EXCEPT ![Target(c)] = <<>>] BY <2>1, <2>3
  <2>4. CASE files' = [files EXCEPT ![c.dest] = c.after] BY <2>1, <2>4
  <2> QED BY <1>2, <2>2, <2>3, <2>4
<1>5. CallFits' BY <1>1, <1>2, <1>4 DEF CallFits, RefusedTouchesNothing
<1>6. ASSUME meddled' = 0 PROVE QuietFits'
  <2>1. QuietFits BY <1>2, <1>6 DEF PatchInv
  <2>2. files = Retold(first, mutations) /\ Chained(mutations) BY <1>2, <2>1 DEF QuietFits
  <2>3. Chained(mutations)' BY <1>2, <2>2 DEF Chained
  <2>4. Retold(first, mutations)' = Retold(first, mutations) BY <1>2
  <2>5. \A f \in PatchFiles \ torn' : files'[f] = files[f] BY <1>2, <1>3 DEF IsDisk
  <2>6. \A f \in PatchFiles \ torn' : files'[f] = Retold(first, mutations)'[f]
    BY <2>2, <2>4, <2>5
  <2> QED BY <1>2, <2>3, <2>6 DEF QuietFits
<1> QED BY <1>5, <1>6 DEF PatchInv

(* The last change is behind. *)
LEMMA AllWrittenKeeps ==
    ASSUME PatchInv, AllWritten
    PROVE  PatchInv'
<1>1. CallFits BY DEF PatchInv
<1>2. /\ stage = "writing" /\ nextHunk > Len(planned) /\ stage' = "ok"
      /\ UNCHANGED <<files, hunks, nextHunk, virtual, planned, mutations, first, written, torn,
                     meddled>>
  BY DEF AllWritten
<1>3. /\ nextHunk \in 1 .. Len(hunks) + 1 /\ Len(planned) = Len(hunks) /\ Len(hunks) \in Nat
  BY <1>1, <1>2 DEF CallFits
<1>4. nextHunk - 1 = Len(hunks) BY <1>2, <1>3
<1>5. CallFits' BY <1>1, <1>2 DEF CallFits, RefusedTouchesNothing
<1>6. ASSUME meddled' = 0 PROVE QuietFits'
  <2>1. QuietFits BY <1>2, <1>6 DEF PatchInv
  <2>2. files = Story[Len(hunks)] /\ files = Retold(first, mutations) /\ Chained(mutations)
    BY <1>2, <1>4, <2>1 DEF QuietFits
  <2>3. Chained(mutations)' BY <1>2, <2>2 DEF Chained
  <2>4. Story' = Story /\ Retold(first, mutations)' = Retold(first, mutations) BY <1>2 DEF Story
  <2> QED BY <1>2, <2>2, <2>3, <2>4 DEF QuietFits
<1> QED BY <1>5, <1>6 DEF PatchInv

(* Every step keeps it. *)
LEMMA PatchSteps == PatchInv /\ [PatchNext]_patching => PatchInv'
<1> SUFFICES ASSUME PatchInv, [PatchNext]_patching PROVE PatchInv' OBVIOUS
<1>1. CASE stage = "off" /\ \E text \in Patches : Run(text) BY <1>1, RunKeeps
<1>2. CASE \E f \in PatchFiles, c \in Outside : Meddle(f, c) BY <1>2, MeddleKeeps
<1>3. CASE Compute BY <1>3, ComputeKeeps
<1>4. CASE Denied
  <2>1. /\ stage = "computing" /\ Refuse
        /\ UNCHANGED <<files, mutations, first, written, torn, meddled>>
    BY <1>4 DEF Denied
  <2> QED BY <2>1, RefuseKeeps
<1>5. CASE AllComputed BY <1>5, AllComputedKeeps
<1>6. CASE WriteChange BY <1>6, WriteKeeps
<1>7. CASE WriteFails BY <1>7, WriteFailsKeeps
<1>8. CASE AllWritten BY <1>8, AllWrittenKeeps
<1>9. CASE UNCHANGED patching
  <2>1. UNCHANGED <<files, stage, hunks, nextHunk, virtual, planned, mutations, first, written,
                    torn, meddled>>
    BY <1>9 DEF patching
  <2>2. CallFits' <=> CallFits BY <2>1 DEF CallFits, RefusedTouchesNothing
  <2>3. Story' = Story BY <2>1 DEF Story
  <2>4. \A f \in PatchFiles : Seen(f)' = Seen(f) BY <2>1 DEF Seen
  <2>5. Chained(mutations)' <=> Chained(mutations) BY <2>1 DEF Chained
  <2>6. QuietFits' <=> QuietFits BY <2>1, <2>3, <2>4, <2>5 DEF QuietFits
  <2> QED BY <2>1, <2>2, <2>6 DEF PatchInv
<1> QED BY <1>1, <1>2, <1>3, <1>4, <1>5, <1>6, <1>7, <1>8, <1>9 DEF PatchNext

(* A patch that is refused touches nothing; left alone, a patch that       *)
(* succeeds is its sections one after the other, and what the turn is told *)
(* of it is what became of the files.                                      *)
THEOREM PatchIsFollowed ==
    PatchSpec => [](RefusedTouchesNothing /\ SectionsBuildOn /\ ReportIsTrue)
<1>1. PatchInv => RefusedTouchesNothing /\ SectionsBuildOn /\ ReportIsTrue
  <2> SUFFICES ASSUME PatchInv PROVE RefusedTouchesNothing /\ SectionsBuildOn /\ ReportIsTrue
    OBVIOUS
  <2>1. RefusedTouchesNothing BY DEF PatchInv, CallFits
  <2>2. SectionsBuildOn BY DEF PatchInv, QuietFits, SectionsBuildOn, Story
  <2>3. ASSUME meddled = 0
        PROVE  /\ \A f \in PatchFiles \ torn : files[f] = Retold(first, mutations)[f]
               /\ Chained(mutations)
    <3>1. QuietFits /\ CallFits BY <2>3 DEF PatchInv
    <3>2. CASE stage \in {"off", "computing", "refused"}
      <4>1. mutations = <<>> BY <2>1, <3>2 DEF RefusedTouchesNothing
      <4>2. Retold(first, mutations) = first BY <4>1, NothingTold
      <4> QED BY <3>1, <3>2, <4>2 DEF QuietFits
    <3>3. CASE stage \in {"writing", "ok"} BY <3>1, <3>3 DEF QuietFits
    <3>4. CASE stage = "failed" BY <3>1, <3>4 DEF QuietFits
    <3> QED BY <3>1, <3>2, <3>3, <3>4 DEF CallFits
  <2> QED BY <2>1, <2>2, <2>3 DEF ReportIsTrue
<1>2. PatchInit => PatchInv BY PatchStarts
<1>3. PatchInv /\ [PatchNext]_patching => PatchInv' BY PatchSteps
<1> QED BY <1>1, <1>2, <1>3, PTL DEF PatchSpec
=============================================================================
