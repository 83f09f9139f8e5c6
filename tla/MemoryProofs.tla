---------------------------- MODULE MemoryProofs ----------------------------
(***************************************************************************)
(* Proofs about the memory of a session, for any number of background      *)
(* jobs, turns, folds, writers, sessions and processes.                    *)
(*                                                                         *)
(* MCMemory composes parts that move independently, each with an           *)
(* invariant of its own, proved inductive here:                            *)
(*  - MemoryFlush, the flush at a compaction cycle: one flush per cycle,   *)
(*    and only a turn that completed commits what it staged (FlushInv);    *)
(*  - MemorySync, the queue to the external provider: every accepted turn  *)
(*    is taught once, oldest first, and handed at the end of its own       *)
(*    session (SyncInv);                                                   *)
(*  - SessionArchive, the rows, snapshots and claims in SQLite: recall     *)
(*    quotes finished turns, a resume gets its own window (ArchiveInv).    *)
(* MemoryStore, the fourth, has NotesInv: what a writer is about to write  *)
(* holds all it read and was not asked to drop.  That a batch of any       *)
(* length keeps the rest is shown by the least operation that would not.   *)
(***************************************************************************)
EXTENDS MCMemory, FiniteSetTheorems, WellFoundedInduction, TLAPS

(* A turn is under way.                                                    *)
InTurn == pc \notin {"idle", "clear"}

(* A job, what is staged of it, and a list without repetition.             *)
Places == {"free", "queued", "running", "done"}
Jobbed == [at : Places, turn : 0 .. MaxTurns, cycle : 0 .. MaxFolds, accepted : BOOLEAN]
Stages == [turn : 0 .. MaxTurns, cycle : 0 .. MaxFolds]
Of(r) == [turn |-> r.turn, cycle |-> r.cycle]
Once(s) == \A a, b \in DOMAIN s : a # b => s[a] # s[b]

(* The types, with those of the worker's jobs and of the history.          *)
Fields ==
    /\ TypeOK
    /\ job \in [Jobs -> Jobbed] /\ pending \in Seq(Stages)
    /\ \A c \in memory : c.by \in 0 .. epoch
    /\ failed \subseteq 0 .. epoch

(* A job that is not free is the controller's own, and a turn that flushes *)
(* by itself has none under way.                                           *)
OneJob ==
    /\ \A j \in Jobs : job[j].at # "free" => j = future
    /\ pc = "flush" => ~IsRunning

(* A future the controller kept is the job of the turn that it names; of   *)
(* one that it names no more, the session boundary knows.  Its result was  *)
(* not staged before, unless the turn has overtaken it.                    *)
JobFits ==
    future # NoJob =>
      /\ futureEpoch # None => job[future].turn = futureEpoch
      /\ futureEpoch = None /\ pc # "clear" => job[future].turn \in outlived
      /\ InTurn /\ job[future].turn = epoch => job[future].cycle <= cycle
      /\ InTurn => Of(job[future]) \notin ToSet(pending) \/ epoch \in raced

(* What is staged is of this turn or of a job that outlived a boundary,    *)
(* and the cycle in which the turn staged last counts as flushed.          *)
StagedFits ==
    /\ \A e \in ToSet(pending) : e.turn = epoch \/ e.turn \in outlived
    /\ InTurn => \A e \in ToSet(pending) :
         e.turn = epoch => e.cycle <= cycle /\ (e.cycle = cycle => lastCycle = cycle)
    /\ Once(pending) \/ epoch \in raced
    /\ pc = "flush" => ShouldFlush /\ (future # NoJob => epoch \in raced)

(* The slot an aborted turn gives back was earned by an earlier turn.      *)
SlotFits ==
    /\ InTurn => prior \in settled \cup {None}
    /\ pc = "clear" => lastCycle = None /\ futureEpoch = None
    /\ SlotsAreEarned

(* Nothing is committed, and nobody has failed, in the name of this turn.  *)
MemoryFits ==
    /\ MemoryIsEarned
    /\ InTurn => \A c \in memory : c.by < epoch
    /\ InTurn => \A e \in failed : e < epoch

FlushInv == Fields /\ OneJob /\ JobFits /\ StagedFits /\ SlotFits /\ MemoryFits

-----------------------------------------------------------------------------
(* Lists, futures and results *)

(* A new element leaves a list without repetition.                         *)
LEMMA AppendsOne ==
    ASSUME NEW s \in Seq(Stages), NEW e \in Stages
    PROVE  /\ Append(s, e) \in Seq(Stages)
           /\ ToSet(Append(s, e)) = ToSet(s) \cup {e}
           /\ Once(s) /\ e \notin ToSet(s) => Once(Append(s, e))
<1>1. /\ Append(s, e) \in Seq(Stages) /\ Len(s) \in Nat
      /\ DOMAIN s = 1 .. Len(s) /\ DOMAIN Append(s, e) = 1 .. (Len(s) + 1)
      /\ \A i \in DOMAIN s : Append(s, e)[i] = s[i]
      /\ Append(s, e)[Len(s) + 1] = e
  OBVIOUS
<1>2. ToSet(Append(s, e)) = ToSet(s) \cup {e} BY <1>1 DEF ToSet
<1>3. ASSUME Once(s), e \notin ToSet(s) PROVE Once(Append(s, e))
  BY <1>1, <1>3 DEF Once, ToSet
<1> QED BY <1>1, <1>2, <1>3

(* No repetition but by a turn that raced its own job.                     *)
LEMMA OnceIsEnough ==
    ASSUME FlushInv PROVE OneFlushPerCycle
BY DEF FlushInv, StagedFits, OneFlushPerCycle, Once

(* The jobs under way and the turn's own flush are one at most.            *)
LEMMA AtMostOne ==
    ASSUME FlushInv PROVE OneFlushAtATime
<1> DEFINE Out == {j \in Jobs : Outstanding(j)}
<1>1. Out \subseteq {future} BY DEF FlushInv, OneJob, Outstanding
<1>2. Out = {} \/ Out = {future} BY <1>1
<1>3. Cardinality({}) = 0 /\ Cardinality({future}) = 1 BY FS_EmptySet, FS_Singleton
<1>4. pc = "flush" => Out = {}
  BY <1>2, FlushAssumption DEF FlushInv, OneJob, IsRunning
<1> QED BY <1>2, <1>3, <1>4 DEF OneFlushAtATime

(* cancel_pending keeps a running job as it is, or leaves none.            *)
LEMMA Cancelled ==
    ASSUME FlushInv, CancelPending
    PROVE  \/ future # NoJob /\ UNCHANGED <<future, job>>
           \/ /\ future' = NoJob /\ job' \in [Jobs -> Jobbed]
              /\ \A j \in Jobs : job'[j].at = "free" /\ job'[j].turn \in 0 .. epoch
<1>1. Free \in Jobbed /\ Free.at = "free" /\ Free.turn = 0
  BY FlushAssumption DEF Free, Jobbed, Places
<1>2. CASE future # NoJob /\ job[future].at = "running" BY <1>2 DEF CancelPending
<1>3. CASE ~(future # NoJob /\ job[future].at = "running")
  <2>1. future' = NoJob /\ job' = [j \in Jobs |-> IF j = future THEN Free ELSE job[j]]
    BY <1>3 DEF CancelPending
  <2>2. \A j \in Jobs :
          job[j] \in Jobbed /\ job[j].turn \in 0 .. epoch
            /\ (job[j].at # "free" => j = future)
    BY DEF FlushInv, Fields, TypeOK, OneJob
  <2>3. 0 \in 0 .. epoch BY FlushAssumption DEF FlushInv, Fields, TypeOK
  <2>4. \A j \in Jobs : job'[j] = IF j = future THEN Free ELSE job[j] BY <2>1
  <2>5. \A j \in Jobs :
          job'[j].at = "free" /\ job'[j].turn \in 0 .. epoch /\ job'[j] \in Jobbed
    BY <1>1, <2>2, <2>3, <2>4
  <2> QED BY <2>1, <2>5
<1> QED BY <1>2, <1>3

(* A result that is taken frees its job, and is staged in its own turn.    *)
LEMMA Taken ==
    ASSUME FlushInv, Done, Take
    PROVE  /\ future' = NoJob /\ futureEpoch' = None /\ job' \in [Jobs -> Jobbed]
           /\ \A j \in Jobs : job'[j].at = "free" /\ job'[j].turn \in 0 .. epoch
           /\ \/ UNCHANGED <<lastCycle, pending>>
              \/ lastCycle' = cycle /\ UNCHANGED pending
              \/ Mine /\ active /\ lastCycle' = cycle
                   /\ pending' = Append(pending, Of(job[future]))
<1>1. Free \in Jobbed /\ Free.at = "free" /\ Free.turn = 0
  BY FlushAssumption DEF Free, Jobbed, Places
<1>2. /\ future' = NoJob /\ job' = [job EXCEPT ![future] = Free] /\ future \in Jobs
  BY DEF Take, Forget, Done, FlushInv, Fields, TypeOK
<1>3. \A j \in Jobs :
        job[j] \in Jobbed /\ job[j].turn \in 0 .. epoch
          /\ (job[j].at # "free" => j = future)
  BY DEF FlushInv, Fields, TypeOK, OneJob
<1>4. 0 \in 0 .. epoch BY FlushAssumption DEF FlushInv, Fields, TypeOK
<1>5. job \in [Jobs -> Jobbed] BY DEF FlushInv, Fields
<1>6. job' \in [Jobs -> Jobbed] /\ \A j \in Jobs :
        job'[j] = IF j = future THEN Free ELSE job[j]
  BY <1>1, <1>2, <1>5
<1>7. \A j \in Jobs : job'[j].at = "free" /\ job'[j].turn \in 0 .. epoch
  BY <1>1, <1>3, <1>4, <1>6
<1>8. \/ UNCHANGED <<lastCycle, pending>>
      \/ Mine /\ lastCycle' = cycle /\ UNCHANGED pending
      \/ Mine /\ active /\ lastCycle' = cycle
           /\ pending' = Append(pending, Of(job[future]))
  BY DEF Take, Staged, Of
<1>9. futureEpoch' = None BY DEF Take
<1> QED BY <1>2, <1>6, <1>7, <1>8, <1>9

(* What a join leaves alone, and the places a turn joins and goes on to.   *)
Quiet == SameTurn /\ UNCHANGED <<completed, history>>
Asking ==
    {"ensure", "join", "decide", "sample", "tools", "finalize", "recheck", "lastJoin"}
Onward == Asking \cup {"fold", "commit"}

(* Taking a result keeps the invariant, wherever the turn takes it.        *)
LEMMA TakeKeeps ==
    ASSUME FlushInv, Done, Take, Quiet, pc \in Asking, pc' \in Onward
    PROVE  FlushInv'
<1> USE FlushAssumption DEF None
<1>1. /\ future' = NoJob /\ futureEpoch' = None /\ job' \in [Jobs -> Jobbed]
      /\ \A j \in Jobs : job'[j].at = "free" /\ job'[j].turn \in 0 .. epoch
  BY Taken
<1>2. /\ UNCHANGED <<epoch, active, cycle, prior, sticky, completed, ends, memory,
           failed, outlived, raced, settled>>
      /\ InTurn /\ InTurn' /\ pc' # "flush" /\ pc' # "idle" /\ pc' # "clear"
  BY DEF Quiet, SameTurn, history, InTurn, Asking, Onward
<1>3. /\ future \in Jobs /\ future # NoJob /\ job[future] \in Jobbed
      /\ Of(job[future]) \in Stages
      /\ pending \in Seq(Stages)
  BY DEF Done, FlushInv, Fields, TypeOK, Of, Stages
<1> DEFINE e == Of(job[future])
<1>4. e.turn = job[future].turn /\ e.cycle = job[future].cycle /\ e \in Stages
  BY <1>3 DEF Of
<1>5. e \notin ToSet(pending) \/ epoch \in raced BY <1>2, <1>3 DEF FlushInv, JobFits
<1>6. \/ lastCycle' \in {lastCycle, cycle} /\ UNCHANGED pending
           /\ ToSet(pending)' = ToSet(pending)
      \/ /\ Mine /\ lastCycle' = cycle /\ pending' = Append(pending, e)
         /\ ToSet(pending)' = ToSet(pending) \cup {e}
  <2>1. pending' = pending => ToSet(pending)' = ToSet(pending) OBVIOUS
  <2>2. pending' = Append(pending, e) => ToSet(pending)' = ToSet(pending) \cup {e}
    <3> SUFFICES ASSUME pending' = Append(pending, e)
                 PROVE  ToSet(pending)' = ToSet(pending) \cup {e}
      OBVIOUS
    <3>1. ToSet(Append(pending, e)) = ToSet(pending) \cup {e}
      BY <1>3, <1>4, AppendsOne
    <3>2. ToSet(pending)' = ToSet(pending') OBVIOUS
    <3> QED BY <3>1, <3>2
  <2> QED BY <2>1, <2>2, Taken
<1>7. Mine => e.turn = epoch \/ e.turn \in outlived
  BY <1>2, <1>3, <1>4 DEF Mine, FlushInv, JobFits, InTurn
<1>8. e.turn = epoch => e.cycle <= cycle
  BY <1>2, <1>3, <1>4 DEF FlushInv, JobFits
<1>9. pending' \in Seq(Stages) /\ (Once(pending) => Once(pending)' \/ epoch \in raced)
  <2>1. CASE UNCHANGED pending BY <1>3, <2>1
  <2>2. CASE pending' = Append(pending, e)
    <3>1. Once(pending) => Once(Append(pending, e)) \/ epoch \in raced
      BY <1>3, <1>4, <1>5, AppendsOne
    <3>2. Append(pending, e) \in Seq(Stages) BY <1>3, <1>4, AppendsOne
    <3>3. Once(pending)' <=> Once(pending') OBVIOUS
    <3> QED BY <2>2, <3>1, <3>2, <3>3
  <2> QED BY <1>6, <2>1, <2>2
<1> HIDE DEF e
<1>10. TypeOK'
  <2>1. lastCycle' \in None .. MaxFolds /\ futureEpoch' \in None .. epoch
    BY <1>1, <1>6 DEF FlushInv, Fields, TypeOK
  <2>2. \A j \in Jobs : job'[j].cycle \in 0 .. MaxFolds BY <1>1 DEF Jobbed
  <2>3. pc' \in Onward /\ active BY <1>2 DEF FlushInv, Fields, TypeOK, InTurn
  <2> QED BY <1>1, <1>2, <2>1, <2>2, <2>3 DEF FlushInv, Fields, TypeOK, Asking, Onward
<1>11. Fields' BY <1>1, <1>2, <1>9, <1>10 DEF FlushInv, Fields
<1>12. OneJob' BY <1>1, <1>2 DEF OneJob
<1>13. JobFits' BY <1>1 DEF JobFits
<1>14. StagedFits'
  <2>1. \A x \in ToSet(pending)' : x.turn = epoch \/ x.turn \in outlived
    BY <1>6, <1>7 DEF FlushInv, StagedFits
  <2>2. \A x \in ToSet(pending)' : x.turn = epoch =>
          x.cycle <= cycle /\ (x.cycle = cycle => lastCycle' = cycle)
    BY <1>2, <1>6, <1>8 DEF FlushInv, StagedFits
  <2>3. Once(pending)' \/ epoch \in raced BY <1>9 DEF FlushInv, StagedFits
  <2> QED BY <1>2, <2>1, <2>2, <2>3 DEF StagedFits
<1>15. SlotFits' BY <1>2 DEF FlushInv, SlotFits, SlotsAreEarned
<1>16. MemoryFits'
  BY <1>2 DEF FlushInv, MemoryFits, MemoryIsEarned, OwnTranscript,
     OnlyCompletedTurnsTeach
<1> QED BY <1>11, <1>12, <1>13, <1>14, <1>15, <1>16 DEF FlushInv

(* So does a step that only goes on.                                       *)
LEMMA GoingOnKeeps ==
    ASSUME FlushInv, UNCHANGED <<worker, turn, history>>, pc \in Asking, pc' \in Onward,
           completed' \in BOOLEAN
    PROVE  FlushInv'
<1> USE DEF None, worker, turn, history
<1>1. InTurn /\ InTurn' /\ pc' # "flush" /\ pc' # "idle" /\ pc' # "clear"
  BY DEF InTurn, Asking, Onward
<1>2. Fields' BY <1>1 DEF FlushInv, Fields, TypeOK, Asking, Onward, InTurn
<1>3. OneJob' BY <1>1 DEF FlushInv, OneJob
<1>4. JobFits' BY <1>1 DEF FlushInv, JobFits, InTurn
<1>5. StagedFits' BY <1>1 DEF FlushInv, StagedFits
<1>6. SlotFits' BY <1>1 DEF FlushInv, SlotFits, SlotsAreEarned
<1>7. MemoryFits'
  BY <1>1 DEF FlushInv, MemoryFits, MemoryIsEarned, OwnTranscript,
     OnlyCompletedTurnsTeach
<1> QED BY <1>2, <1>3, <1>4, <1>5, <1>6, <1>7 DEF FlushInv
-----------------------------------------------------------------------------
(* One step of the worker, or of the turn *)

(* The worker starts or ends the job it was given, while the turn goes on. *)
LEMMA WorkerKeeps ==
    ASSUME FlushInv, NEW j \in Jobs, WorkerStarts(j) \/ WorkerEnds(j)
    PROVE  FlushInv'
<1> USE FlushAssumption DEF None
<1>1. /\ UNCHANGED <<pc, completed, turn, future, futureEpoch, history>>
      /\ j = future /\ future # NoJob /\ Outstanding(future)
  BY DEF WorkerStarts, WorkerEnds, FlushInv, OneJob, Outstanding
<1>2. /\ job' \in [Jobs -> Jobbed]
      /\ \A k \in Jobs : k # j => job'[k] = job[k]
      /\ job'[j].at # "free" /\ job'[j].turn = job[j].turn /\ job'[j].cycle = job[j].cycle
  <2>1. job \in [Jobs -> Jobbed] /\ job[j] \in Jobbed BY DEF FlushInv, Fields
  <2>2. CASE WorkerStarts(j)
    <3>1. job' = [job EXCEPT ![j] = [job[j] EXCEPT !.at = "running"]]
      BY <2>2 DEF WorkerStarts
    <3>2. [job[j] EXCEPT !.at = "running"] \in Jobbed BY <2>1 DEF Jobbed, Places
    <3> QED BY <2>1, <3>1, <3>2
  <2>3. CASE WorkerEnds(j)
    <3>1. PICK ok \in BOOLEAN :
            job' = [job EXCEPT ![j] = [job[j] EXCEPT !.at = "done", !.accepted = ok]]
      BY <1>1, <2>3 DEF WorkerEnds
    <3>2. [job[j] EXCEPT !.at = "done", !.accepted = ok] \in Jobbed
      BY <2>1 DEF Jobbed, Places
    <3> QED BY <2>1, <3>1, <3>2
  <2> QED BY <2>2, <2>3
<1> USE DEF turn, history
<1>3. Fields' BY <1>1, <1>2 DEF FlushInv, Fields, TypeOK
<1>4. pc # "flush" BY <1>1 DEF FlushInv, OneJob, IsRunning
<1>5. OneJob' BY <1>1, <1>2, <1>4 DEF FlushInv, OneJob
<1>6. JobFits' BY <1>1, <1>2 DEF FlushInv, JobFits, InTurn, Of
<1>7. StagedFits'
  BY <1>1, <1>4 DEF FlushInv, StagedFits, InTurn
<1>8. SlotFits' BY <1>1 DEF FlushInv, SlotFits, InTurn, SlotsAreEarned
<1>9. MemoryFits'
  BY <1>1 DEF FlushInv, MemoryFits, InTurn, MemoryIsEarned, OwnTranscript,
     OnlyCompletedTurnsTeach
<1> QED BY <1>3, <1>5, <1>6, <1>7, <1>8, <1>9 DEF FlushInv

(* The next turn starts with nothing staged.                               *)
LEMMA StartKeeps == ASSUME FlushInv, OnTurnStart PROVE FlushInv'
<1> USE FlushAssumption DEF None, worker, history
<1>1. /\ pc = "idle" /\ pc' = "ensure" /\ epoch' = epoch + 1 /\ epoch' \in 0 .. MaxTurns
      /\ active' = TRUE
      /\ pending' = <<>> /\ prior' = lastCycle /\ ToSet(pending)' = {}
      /\ UNCHANGED <<completed, cycle, lastCycle, sticky, worker, history>>
  BY DEF OnTurnStart, ToSet, FlushInv, Fields, TypeOK
<1>2. TypeOK' BY <1>1 DEF FlushInv, Fields, TypeOK
<1>3. Fields' BY <1>1, <1>2 DEF FlushInv, Fields, TypeOK
<1>4. OneJob' BY <1>1 DEF FlushInv, OneJob
<1>5. JobFits' BY <1>1 DEF FlushInv, Fields, TypeOK, JobFits
<1>6. StagedFits' BY <1>1 DEF StagedFits, Once
<1>7. SlotFits' BY <1>1 DEF FlushInv, SlotFits, SlotsAreEarned
<1>8. MemoryFits'
  BY <1>1 DEF FlushInv, Fields, TypeOK, MemoryFits, MemoryIsEarned, OwnTranscript,
     OnlyCompletedTurnsTeach
<1> QED BY <1>3, <1>4, <1>5, <1>6, <1>7, <1>8 DEF FlushInv

(* ensure decides to flush only when no job is under way.                  *)
LEMMA DecideKeeps == ASSUME FlushInv, Decide PROVE FlushInv'
<1> USE FlushAssumption DEF None, worker, turn
<1>1. /\ pc = "decide" /\ pc' \in {"flush", "fold"} /\ raced \subseteq raced'
      /\ pc' = "flush" => ShouldFlush /\ ~IsRunning /\ (Done => epoch \in raced')
      /\ UNCHANGED <<completed, turn, worker, ends, memory, failed, outlived, settled>>
  BY DEF Decide
<1>2. future # NoJob /\ ~IsRunning => Done
  BY DEF FlushInv, Fields, TypeOK, IsRunning, Done, Outstanding, Jobbed, Places
<1>3. Fields' BY <1>1 DEF FlushInv, Fields, TypeOK
<1>4. OneJob' BY <1>1 DEF FlushInv, OneJob, IsRunning, Outstanding
<1>5. JobFits' BY <1>1 DEF FlushInv, JobFits, InTurn
<1>6. StagedFits'
  BY <1>1, <1>2 DEF FlushInv, StagedFits, ShouldFlush, InTurn
<1>7. SlotFits' BY <1>1 DEF FlushInv, SlotFits, InTurn, SlotsAreEarned
<1>8. MemoryFits'
  BY <1>1 DEF FlushInv, MemoryFits, InTurn, MemoryIsEarned, OwnTranscript,
     OnlyCompletedTurnsTeach
<1> QED BY <1>3, <1>4, <1>5, <1>6, <1>7, <1>8 DEF FlushInv

(* The turn flushes by itself: this cycle was not staged before.           *)
LEMMA FlushKeeps == ASSUME FlushInv, SyncFlush PROVE FlushInv'
<1> USE FlushAssumption DEF None, worker, history
<1> DEFINE e == [turn |-> epoch, cycle |-> cycle]
<1>1. /\ pc = "flush" /\ pc' = "fold" /\ lastCycle' = cycle
      /\ UNCHANGED <<completed, worker, history>>
      /\ UNCHANGED <<epoch, active, cycle, prior, sticky>>
      /\ UNCHANGED pending \/ pending' = Append(pending, e)
  BY DEF SyncFlush, SameTurn, Staged
<1>2. pending \in Seq(Stages) /\ e \in Stages /\ cycle \in 0 .. MaxFolds
  BY DEF FlushInv, Fields, TypeOK, Stages
<1>3. e \notin ToSet(pending)
  BY <1>1 DEF FlushInv, StagedFits, ShouldFlush, InTurn
<1>4. /\ pending' \in Seq(Stages) /\ (Once(pending) => Once(pending)')
      /\ ToSet(pending)' \subseteq ToSet(pending) \cup {e}
  <2>1. CASE UNCHANGED pending BY <1>2, <2>1
  <2>2. CASE pending' = Append(pending, e)
    <3>1. /\ Append(pending, e) \in Seq(Stages)
          /\ (Once(pending) => Once(Append(pending, e)))
          /\ ToSet(Append(pending, e)) = ToSet(pending) \cup {e}
      BY <1>2, <1>3, AppendsOne
    <3>2. (Once(pending)' <=> Once(pending')) /\ ToSet(pending)' = ToSet(pending')
      OBVIOUS
    <3> QED BY <2>2, <3>1, <3>2
  <2> QED BY <1>1, <2>1, <2>2
<1>5. e.turn = epoch /\ e.cycle = cycle OBVIOUS
<1> HIDE DEF e
<1>6. Fields' BY <1>1, <1>2, <1>4 DEF FlushInv, Fields, TypeOK
<1>7. OneJob' BY <1>1 DEF FlushInv, OneJob
<1>8. JobFits' BY <1>1 DEF FlushInv, JobFits, StagedFits, InTurn
<1>9. StagedFits'
  <2>1. \A x \in ToSet(pending)' : x.turn = epoch \/ x.turn \in outlived
    BY <1>4, <1>5 DEF FlushInv, StagedFits
  <2>2. \A x \in ToSet(pending)' : x.turn = epoch => x.cycle <= cycle
    BY <1>1, <1>2, <1>4, <1>5 DEF FlushInv, StagedFits, InTurn
  <2> QED BY <1>1, <1>4, <2>1, <2>2 DEF FlushInv, StagedFits
<1>10. SlotFits' BY <1>1 DEF FlushInv, SlotFits, InTurn, SlotsAreEarned
<1>11. MemoryFits'
  BY <1>1 DEF FlushInv, MemoryFits, InTurn, MemoryIsEarned, OwnTranscript,
     OnlyCompletedTurnsTeach
<1> QED BY <1>6, <1>7, <1>8, <1>9, <1>10, <1>11 DEF FlushInv

(* A fold starts a cycle of which nothing is staged.                       *)
LEMMA FoldKeeps == ASSUME FlushInv, Fold PROVE FlushInv'
<1> USE FlushAssumption DEF None, worker, history
<1>t. cycle \in 0 .. MaxFolds /\ sticky \in BOOLEAN BY DEF FlushInv, Fields, TypeOK
<1>1. /\ pc = "fold" /\ pc' = "sample" /\ cycle' \in {cycle, cycle + 1}
      /\ cycle' \in 0 .. MaxFolds
      /\ sticky' \in BOOLEAN
      /\ UNCHANGED <<completed, epoch, active, lastCycle, prior, pending, worker,
           history>>
  <2>1. CASE UNCHANGED <<cycle, sticky>> BY <1>t, <2>1 DEF Fold
  <2>2. CASE cycle < MaxFolds /\ cycle' = cycle + 1 /\ UNCHANGED sticky
    BY <1>t, <2>2 DEF Fold
  <2>3. CASE sticky' = TRUE /\ UNCHANGED cycle BY <1>t, <2>3 DEF Fold
  <2> QED BY <2>1, <2>2, <2>3 DEF Fold
<1>2. \A e \in ToSet(pending) : e.turn \in 0 .. MaxTurns /\ e.cycle \in 0 .. MaxFolds
  <2>1. \A i \in DOMAIN pending : pending[i] \in Stages BY DEF FlushInv, Fields
  <2> QED BY <2>1 DEF ToSet, Stages
<1>3. Fields' BY <1>1 DEF FlushInv, Fields, TypeOK
<1>4. OneJob' BY <1>1 DEF FlushInv, OneJob
<1>5. JobFits' BY <1>1 DEF FlushInv, Fields, TypeOK, JobFits, InTurn
<1>6. StagedFits' 
  <2>1. \A e \in ToSet(pending) : e.turn = epoch =>
          e.cycle <= cycle' /\ (e.cycle = cycle' => lastCycle = cycle')
    BY <1>1, <1>2 DEF FlushInv, StagedFits, InTurn
  <2>2. ToSet(pending)' = ToSet(pending) /\ (Once(pending)' <=> Once(pending))
    BY <1>1
  <2> QED BY <1>1, <2>1, <2>2 DEF FlushInv, StagedFits
<1>7. SlotFits' BY <1>1 DEF FlushInv, SlotFits, InTurn, SlotsAreEarned
<1>8. MemoryFits'
  BY <1>1 DEF FlushInv, MemoryFits, InTurn, MemoryIsEarned, OwnTranscript,
     OnlyCompletedTurnsTeach
<1> QED BY <1>3, <1>4, <1>5, <1>6, <1>7, <1>8 DEF FlushInv

(* A prefire takes a free job, and the place of a result nobody read.      *)
LEMMA SubmitKeeps ==
    ASSUME FlushInv, pc = "sample", pc' = "tools", ShouldFlush, ~IsRunning, Submit,
           UNCHANGED <<completed, turn, history>>
    PROVE  FlushInv'
<1> USE FlushAssumption DEF None, turn, history
<1> DEFINE r == [at |-> "queued", turn |-> epoch, cycle |-> cycle, accepted |-> FALSE]
<1>1. PICK j \in Jobs :
        /\ job[j].at = "free" /\ future' = j /\ futureEpoch' = epoch
        /\ job' = [[k \in Jobs |-> IF Done /\ k = future THEN Free ELSE job[k]]
                     EXCEPT ![j] = r]
  BY DEF Submit
<1>2. Free \in Jobbed /\ Free.at = "free" /\ Free.turn = 0
  BY DEF Free, Jobbed, Places
<1>3. r \in Jobbed /\ r.at = "queued" /\ r.turn = epoch /\ r.cycle = cycle
        /\ {0, epoch} \subseteq 0 .. epoch
      /\ Of(r) = [turn |-> epoch, cycle |-> cycle]
  BY DEF FlushInv, Fields, TypeOK, Jobbed, Places, Of
<1> HIDE DEF r
<1>4. \A k \in Jobs :
        job'[k] = IF k = j THEN r ELSE IF Done /\ k = future THEN Free ELSE job[k]
  BY <1>1
<1>5. \A k \in Jobs :
        job[k] \in Jobbed /\ job[k].turn \in 0 .. epoch
          /\ (job[k].at # "free" => k = future)
  BY DEF FlushInv, Fields, TypeOK, OneJob
<1>6. job' \in [Jobs -> Jobbed] BY <1>1, <1>2, <1>3, <1>5
<1>7. future # NoJob => Done
  BY DEF FlushInv, Fields, TypeOK, IsRunning, Done, Outstanding, Jobbed, Places
<1>8. \A k \in Jobs : k # j => job'[k].at = "free"
  BY <1>2, <1>4, <1>5, <1>7
<1>9. \A k \in Jobs : job'[k].turn \in 0 .. epoch
  BY <1>2, <1>3, <1>4, <1>5
<1>10. j \in Jobs /\ j # NoJob /\ job'[j] = r BY <1>4
<1>11. Of(r) \notin ToSet(pending)
  BY <1>3 DEF FlushInv, StagedFits, ShouldFlush, InTurn
<1>12. cycle \in 0 .. MaxFolds /\ epoch \in 0 .. MaxTurns
  BY DEF FlushInv, Fields, TypeOK
<1>13. TypeOK'
  <2>1. \A k \in Jobs : job'[k].cycle \in 0 .. MaxFolds BY <1>6 DEF Jobbed
  <2>2. futureEpoch' \in None .. epoch' BY <1>1, <1>12
  <2>3. future' \in Jobs /\ job'[future'].at # "free" BY <1>1, <1>3, <1>10
  <2> QED BY <1>9, <2>1, <2>2, <2>3 DEF FlushInv, Fields, TypeOK
<1>14. Fields' BY <1>6, <1>13 DEF FlushInv, Fields
<1>15. OneJob' BY <1>1, <1>8 DEF OneJob
<1>16. JobFits'
  <2>1. ToSet(pending)' = ToSet(pending) OBVIOUS
  <2>2. job'[future'] = r BY <1>1, <1>10
  <2> QED BY <1>1, <1>3, <1>11, <1>12, <2>1, <2>2 DEF JobFits
<1>17. StagedFits' BY DEF FlushInv, StagedFits, InTurn
<1>18. SlotFits' BY DEF FlushInv, SlotFits, InTurn, SlotsAreEarned
<1>19. MemoryFits'
  BY DEF FlushInv, MemoryFits, InTurn, MemoryIsEarned, OwnTranscript,
     OnlyCompletedTurnsTeach
<1> QED BY <1>14, <1>15, <1>16, <1>17, <1>18, <1>19 DEF FlushInv

(* A turn that raises has committed nothing, and keeps its slot.           *)
LEMMA RaiseKeeps == ASSUME FlushInv, LoopRaises PROVE FlushInv'
<1> USE FlushAssumption DEF None, worker, turn
<1>1. /\ pc \in {"ensure", "sample", "tools"} /\ pc' = "idle"
      /\ settled' = settled \cup {lastCycle} /\ failed' = failed \cup {epoch}
      /\ UNCHANGED <<completed, turn, worker, ends, memory, outlived, raced>>
  BY DEF LoopRaises
<1>2. epoch \in 0 .. MaxTurns BY DEF FlushInv, Fields, TypeOK
<1>3. Fields' BY <1>1, <1>2 DEF FlushInv, Fields, TypeOK
<1>4. OneJob' BY <1>1 DEF FlushInv, OneJob
<1>5. JobFits' BY <1>1 DEF FlushInv, JobFits, InTurn
<1>6. StagedFits' BY <1>1 DEF FlushInv, StagedFits, InTurn
<1>7. SlotFits' BY <1>1 DEF SlotFits, InTurn, SlotsAreEarned
<1>8. MemoryFits'
  <2>1. \A c \in memory : c.of = epoch => c.of \in outlived
    BY <1>1, <1>2 DEF FlushInv, MemoryFits, MemoryIsEarned, OwnTranscript, InTurn
  <2> QED
    BY <1>1, <2>1 DEF FlushInv, MemoryFits, InTurn, MemoryIsEarned, OwnTranscript,
       OnlyCompletedTurnsTeach
<1> QED BY <1>3, <1>4, <1>5, <1>6, <1>7, <1>8 DEF FlushInv

(* finalize_turn commits, or drops what is staged and gives the slot back. *)
LEMMA CommitKeeps == ASSUME FlushInv, Commit PROVE FlushInv'
<1> USE FlushAssumption DEF None
<1>1. /\ pc = "commit" /\ pc' = "idle" /\ pending' = <<>> /\ active' = FALSE
      /\ ToSet(pending)' = {}
      /\ UNCHANGED <<completed, epoch, cycle, prior, sticky, ends, outlived, raced,
           futureEpoch>>
  BY DEF Commit, GiveBack, worker, ToSet
<1>2. \/ /\ memory' = memory \cup Committed /\ settled' = settled \cup {lastCycle}
         /\ UNCHANGED <<lastCycle, worker, failed>>
      \/ GiveBack /\ failed' = failed \cup {epoch} /\ UNCHANGED <<memory, settled>>
  BY DEF Commit
<1>3. \/ UNCHANGED <<future, job>>
      \/ /\ future' = NoJob /\ job' \in [Jobs -> Jobbed]
         /\ \A j \in Jobs : job'[j].at = "free" /\ job'[j].turn \in 0 .. epoch
  BY <1>2, Cancelled DEF GiveBack, worker
<1>4. epoch \in 0 .. MaxTurns /\ epoch \in 0 .. epoch /\ InTurn
  BY <1>1 DEF FlushInv, Fields, TypeOK, InTurn
<1>5. \A c \in Committed : c.by = epoch /\ (c.of = epoch \/ c.of \in outlived)
  BY DEF FlushInv, StagedFits, Committed
<1>6. \A c \in memory : c.of = epoch => c.of \in outlived
  BY <1>4 DEF FlushInv, MemoryFits, MemoryIsEarned, OwnTranscript
<1>7. epoch \notin failed BY <1>4 DEF FlushInv, MemoryFits
<1>8. {lastCycle', prior'} \subseteq None .. MaxFolds
  BY <1>1, <1>2 DEF GiveBack, FlushInv, Fields, TypeOK
<1>9. TypeOK'
  <2>1. CASE UNCHANGED <<future, job>>
    BY <1>1, <1>8, <2>1 DEF FlushInv, Fields, TypeOK
  <2>2. CASE /\ future' = NoJob /\ job' \in [Jobs -> Jobbed]
             /\ \A j \in Jobs : job'[j].at = "free" /\ job'[j].turn \in 0 .. epoch
    BY <1>1, <1>8, <2>2 DEF FlushInv, Fields, TypeOK, Jobbed
  <2> QED BY <1>3, <2>1, <2>2
<1>10. Fields'
  <2>1. pending' \in Seq(Stages) BY <1>1
  <2>2. job' \in [Jobs -> Jobbed] BY <1>3 DEF FlushInv, Fields
  <2>3. \A c \in memory' : c.by \in 0 .. epoch
    BY <1>2, <1>4, <1>5 DEF FlushInv, Fields
  <2>4. failed' \subseteq 0 .. epoch BY <1>2, <1>4 DEF FlushInv, Fields
  <2> QED BY <1>1, <1>9, <2>1, <2>2, <2>3, <2>4 DEF Fields
<1>11. OneJob' BY <1>1, <1>3 DEF FlushInv, OneJob
<1>12. JobFits' BY <1>1, <1>3, <1>4 DEF FlushInv, JobFits
<1>13. StagedFits' BY <1>1 DEF StagedFits, Once
<1>14. SlotFits'
  <2>1. lastCycle' \in settled' \cup {None}
    BY <1>2, <1>4 DEF GiveBack, FlushInv, SlotFits
  <2> QED BY <1>1, <2>1 DEF SlotFits, SlotsAreEarned, InTurn
<1>15. MemoryFits'
  <2>1. \A c \in memory' : c.of = c.by \/ c.of \in outlived
    BY <1>2, <1>5 DEF FlushInv, MemoryFits, MemoryIsEarned, OwnTranscript
  <2>2. \A c \in memory' : c.of \notin failed' \/ c.of \in outlived
    BY <1>2, <1>5, <1>6, <1>7 DEF FlushInv, MemoryFits, MemoryIsEarned,
       OnlyCompletedTurnsTeach
  <2> QED
    BY <1>1, <2>1, <2>2 DEF MemoryFits, InTurn, MemoryIsEarned, OwnTranscript,
       OnlyCompletedTurnsTeach
<1> QED BY <1>10, <1>11, <1>12, <1>13, <1>14, <1>15 DEF FlushInv

(* The session boundary forgets cycle, slot and whose job is under way.    *)
LEMMA EndKeeps == ASSUME FlushInv, OnSessionEnd PROVE FlushInv'
<1> USE FlushAssumption DEF None
<1>1. /\ pc = "idle" /\ pc' = "clear" /\ cycle' = 0 /\ lastCycle' = None
      /\ pending' = <<>>
      /\ ToSet(pending)' = {} /\ active' = FALSE /\ sticky' = FALSE /\ futureEpoch' = None
      /\ settled' = {}
      /\ UNCHANGED <<completed, epoch, prior, future, job, memory, failed, outlived,
           raced>>
  BY DEF OnSessionEnd, ToSet
<1>t. {0, None} \subseteq None .. MaxFolds /\ None \in None .. epoch
        /\ 0 \in 0 .. MaxFolds
  BY DEF FlushInv, Fields, TypeOK
<1>2. Fields'
  <2>1. TypeOK' BY <1>1, <1>t DEF FlushInv, Fields, TypeOK
  <2> QED BY <1>1, <2>1 DEF FlushInv, Fields
<1>3. OneJob' BY <1>1 DEF FlushInv, OneJob
<1>4. JobFits' BY <1>1 DEF JobFits, InTurn
<1>5. StagedFits' BY <1>1 DEF StagedFits, Once
<1>6. SlotFits' BY <1>1 DEF SlotFits, SlotsAreEarned, InTurn
<1>7. MemoryFits'
  BY <1>1 DEF FlushInv, MemoryFits, InTurn, MemoryIsEarned, OwnTranscript,
     OnlyCompletedTurnsTeach
<1> QED BY <1>2, <1>3, <1>4, <1>5, <1>6, <1>7 DEF FlushInv

(* prefire.clear() keeps a running job, which outlives the boundary.       *)
LEMMA ClearKeeps == ASSUME FlushInv, Clear PROVE FlushInv'
<1> USE FlushAssumption DEF None, turn
<1>1. /\ pc = "clear" /\ pc' = "idle" /\ outlived \subseteq outlived'
      /\ future' # NoJob => job[future].turn \in outlived'
      /\ UNCHANGED <<completed, turn, futureEpoch, ends, memory, failed, raced, settled>>
  BY DEF Clear
<1>2. \/ UNCHANGED <<future, job>>
      \/ /\ future' = NoJob /\ job' \in [Jobs -> Jobbed]
         /\ \A j \in Jobs : job'[j].at = "free" /\ job'[j].turn \in 0 .. epoch
  BY Cancelled DEF Clear
<1>3. TypeOK'
  <2>1. CASE UNCHANGED <<future, job>> BY <1>1, <2>1 DEF FlushInv, Fields, TypeOK
  <2>2. CASE /\ future' = NoJob /\ job' \in [Jobs -> Jobbed]
             /\ \A j \in Jobs : job'[j].at = "free" /\ job'[j].turn \in 0 .. epoch
    BY <1>1, <2>2 DEF FlushInv, Fields, TypeOK, Jobbed
  <2> QED BY <1>2, <2>1, <2>2
<1>4. Fields' BY <1>1, <1>2, <1>3 DEF FlushInv, Fields
<1>5. OneJob' BY <1>1, <1>2 DEF FlushInv, OneJob
<1>6. JobFits' BY <1>1, <1>2 DEF FlushInv, JobFits, InTurn
<1>7. StagedFits' BY <1>1 DEF FlushInv, StagedFits, InTurn
<1>8. SlotFits' BY <1>1 DEF FlushInv, SlotFits, SlotsAreEarned, InTurn
<1>9. MemoryFits'
  BY <1>1 DEF FlushInv, MemoryFits, InTurn, MemoryIsEarned, OwnTranscript,
     OnlyCompletedTurnsTeach
<1> QED BY <1>4, <1>5, <1>6, <1>7, <1>8, <1>9 DEF FlushInv

-----------------------------------------------------------------------------
(* Every state of every session *)

(* A session starts with an idle worker.                                   *)
THEOREM FlushStarts == ASSUME Init PROVE FlushInv
<1> USE FlushAssumption DEF Init, None
<1>t. /\ None \in None .. MaxFolds /\ None \in None .. 0 /\ 0 \in 0 .. MaxFolds
      /\ 0 \in 0 .. MaxTurns /\ 0 \in 0 .. 0
  OBVIOUS
<1>1. TypeOK BY <1>t DEF TypeOK, Free
<1>2. Fields BY <1>1 DEF Fields, Free, Jobbed, Places
<1>3. OneJob BY DEF OneJob, Free
<1>4. JobFits BY DEF JobFits
<1>5. StagedFits BY DEF StagedFits, ToSet, Once
<1>6. SlotFits BY DEF SlotFits, SlotsAreEarned
<1>7. MemoryFits
  BY DEF MemoryFits, MemoryIsEarned, OwnTranscript, OnlyCompletedTurnsTeach
<1> QED BY <1>2, <1>3, <1>4, <1>5, <1>6, <1>7 DEF FlushInv

(* No step of turn, worker or session boundary breaks the invariant.       *)
THEOREM FlushStep == ASSUME FlushInv, [Next]_vars PROVE FlushInv'
<1>u. CASE UNCHANGED vars
  <2> USE <1>u DEF vars, turn, worker, history
  <2>1. Fields' BY DEF FlushInv, Fields, TypeOK
  <2>2. OneJob' BY DEF FlushInv, OneJob, IsRunning, Outstanding
  <2>3. JobFits' BY DEF FlushInv, JobFits, InTurn
  <2>4. StagedFits' BY DEF FlushInv, StagedFits, ShouldFlush, InTurn
  <2>5. SlotFits' BY DEF FlushInv, SlotFits, SlotsAreEarned, InTurn
  <2>6. MemoryFits'
    BY DEF FlushInv, MemoryFits, InTurn, MemoryIsEarned, OwnTranscript,
       OnlyCompletedTurnsTeach
  <2> QED BY <2>1, <2>2, <2>3, <2>4, <2>5, <2>6 DEF FlushInv
<1>t. completed \in BOOLEAN BY DEF FlushInv, Fields, TypeOK
<1>1. CASE OnTurnStart BY <1>1, StartKeeps
<1>2. CASE Suppressed BY <1>t, <1>2, GoingOnKeeps DEF Suppressed, Asking, Onward
<1>3. CASE TryJoin
  <2>1. CASE Done BY <1>3, <2>1, TakeKeeps DEF TryJoin, Quiet, Asking, Onward
  <2>2. CASE ~Done
    BY <1>3, <1>t, <2>2, GoingOnKeeps DEF TryJoin, SameTurn, turn, Asking, Onward
  <2> QED BY <2>1, <2>2
<1>4. CASE EnsureJoin
  <2>1. CASE Done /\ Take
    BY <1>4, <2>1, TakeKeeps DEF EnsureJoin, Join, Quiet, Asking, Onward
  <2>2. CASE UNCHANGED <<worker, lastCycle, pending>>
    BY <1>4, <1>t, <2>2, GoingOnKeeps DEF EnsureJoin, Join, SameTurn, turn, Asking,
       Onward
  <2> QED BY <1>4, <2>1, <2>2 DEF EnsureJoin, Join
<1>5. CASE Decide BY <1>5, DecideKeeps
<1>6. CASE SyncFlush BY <1>6, FlushKeeps
<1>7. CASE Fold BY <1>7, FoldKeeps
<1>8. CASE Schedule
  <2>1. CASE ShouldFlush /\ ~IsRunning /\ Submit
    BY <1>8, <2>1, SubmitKeeps DEF Schedule
  <2>2. CASE UNCHANGED worker
    BY <1>8, <1>t, <2>2, GoingOnKeeps DEF Schedule, Asking, Onward
  <2> QED BY <1>8, <2>1, <2>2 DEF Schedule
<1>9. CASE NextRound BY <1>9, <1>t, GoingOnKeeps DEF NextRound, Asking, Onward
<1>10. CASE LoopEnds BY <1>10, GoingOnKeeps DEF LoopEnds, Asking, Onward
<1>11. CASE LoopRaises BY <1>11, RaiseKeeps
<1>12. CASE FinalTryJoin
  <2>1. CASE Done BY <1>12, <2>1, TakeKeeps DEF FinalTryJoin, Quiet, Asking, Onward
  <2>2. CASE ~Done
    BY <1>12, <1>t, <2>2, GoingOnKeeps DEF FinalTryJoin, SameTurn, turn, Asking,
       Onward
  <2> QED BY <2>1, <2>2
<1>13. CASE FinalRecheck
  BY <1>13, <1>t, GoingOnKeeps DEF FinalRecheck, Asking, Onward
<1>14. CASE FinalJoin
  <2>1. CASE Done /\ Take
    BY <1>14, <2>1, TakeKeeps DEF FinalJoin, Join, Quiet, Asking, Onward
  <2>2. CASE UNCHANGED <<worker, lastCycle, pending>>
    BY <1>14, <1>t, <2>2, GoingOnKeeps DEF FinalJoin, Join, SameTurn, turn, Asking,
       Onward
  <2> QED BY <1>14, <2>1, <2>2 DEF FinalJoin, Join
<1>15. CASE Commit BY <1>15, CommitKeeps
<1>16. CASE OnSessionEnd BY <1>16, EndKeeps
<1>17. CASE Clear BY <1>17, ClearKeeps
<1>18. ASSUME NEW j \in Jobs, WorkerStarts(j) \/ WorkerEnds(j) PROVE FlushInv'
  BY <1>18, WorkerKeeps
<1> QED
  BY <1>u, <1>1, <1>2, <1>3, <1>4, <1>5, <1>6, <1>7, <1>8, <1>9, <1>10, <1>11,
     <1>12, <1>13, <1>14, <1>15, <1>16, <1>17, <1>18 DEF Next, TurnStep

-----------------------------------------------------------------------------
(* The queue to the external provider *)

(* A job to teach a turn, a session boundary, and the boundary's second    *)
(* half, while the provider reads what the ended session left it.          *)
SyncJobs == [kind : {"sync"}, turn : 1 .. Turns, sid : SessionIds]
BoundaryJobs == [kind : {"boundary"}, new : SessionIds]
Poppings == [kind : {"popping"}, new : SessionIds, ended : SessionIds]

(* What waits in the queue, how a turn ended, and where close() is.        *)
Deliveries == SyncJobs \cup BoundaryJobs
Ended == [sid : SessionIds, completed : BOOLEAN]
Closing == {"none", "popping", "flushing", "shutting", "draining", "closed"}

(* The types, and what is in a session's list: completed turns of its own. *)
SyncTables ==
    /\ {kernelSid, sid, bound} \subseteq SessionIds
    /\ queued \in Seq(Deliveries) /\ doing \in {Idle} \cup Deliveries \cup Poppings
    /\ completedMsgs \in [SessionIds -> Seq(1 .. Turns)]
    /\ turnsDone \in Seq(Ended) /\ Len(turnsDone) <= Turns /\ taught \in Seq(1 .. Turns)
    /\ handed \in [1 .. Turns -> Nat] /\ {shutdown, overtaken} \subseteq BOOLEAN
    /\ closer \in Closing /\ provider \in {"open", "closed"}
    /\ shutdown => closer \in {"draining", "closed"}
    /\ provider = "closed" => shutdown
    /\ \A n \in 1 .. Turns : n \notin DOMAIN turnsDone => handed[n] = 0
    /\ \A s \in SessionIds : \A n \in ToSet(completedMsgs[s]) :
         n \in DOMAIN turnsDone /\ turnsDone[n].sid = s /\ turnsDone[n].completed

(* A job to teach a turn names the turn's session.                         *)
Named(j) == j.kind = "sync" =>
  j.turn \in DOMAIN turnsDone /\ j.sid = turnsDone[j.turn].sid
JobsFit == Named(doing) /\ \A i \in DOMAIN queued : Named(queued[i])

(* The session a job belongs to (for a boundary: the one it opens), and    *)
(* the one the worker will be in when what it is doing is done.            *)
Level(j) == IF j.kind = "sync" THEN j.sid ELSE j.new
Base == IF doing.kind \in {"boundary", "popping"} THEN doing.new ELSE bound

(* The queue runs through the sessions in order, from the worker's to the  *)
(* host's: each later session has its boundary in it, ahead of the         *)
(* session's turns and behind those of the one before.                     *)
IsBoundary(j) == j.kind = "boundary"
LinedUp ==
    /\ sid = bound /\ Base <= kernelSid
    /\ doing.kind = "sync" => doing.sid = bound
    /\ doing.kind \in {"boundary", "popping"} => doing.new = bound + 1
    /\ doing.kind = "popping" => doing.ended = bound
    /\ \A i \in DOMAIN queued : Base <= Level(queued[i]) /\ Level(queued[i]) <= kernelSid
    /\ \A i, k \in DOMAIN queued : i < k => Level(queued[i]) <= Level(queued[k])
    /\ \A k \in DOMAIN queued : IsBoundary(queued[k]) => Base < queued[k].new
    /\ \A i, k \in DOMAIN queued : IsBoundary(queued[k]) /\ i < k =>
         Level(queued[i]) < queued[k].new
    /\ \A l \in SessionIds : Base < l /\ l <= kernelSid =>
         \E k \in DOMAIN queued : IsBoundary(queued[k]) /\ queued[k].new = l
    /\ \A i \in DOMAIN queued : ~IsBoundary(queued[i]) /\ Base < queued[i].sid =>
         \E k \in DOMAIN queued :
           k < i /\ IsBoundary(queued[k]) /\ queued[k].new = queued[i].sid
    /\ closer # "none" => ~BoundaryIsPending
LevelsFit == ~overtaken => LinedUp

(* A completed turn is in the list of its session, was handed to the       *)
(* provider once, or was rewound; a session behind the worker's has        *)
(* nothing left in its list.  The list is emptied a step after it is       *)
(* handed, so that meanwhile its turns are in it and count as handed.      *)
Handing == doing.kind = "popping" \/ closer = "popping"
Handed ==
    /\ \A n \in DOMAIN turnsDone : handed[n] <= 1
    /\ \A s \in SessionIds : \A n \in ToSet(completedMsgs[s]) :
         handed[n] = IF Handing /\ s = sid THEN 1 ELSE 0
    /\ \A n \in DOMAIN turnsDone : turnsDone[n].completed =>
         n \in ToSet(completedMsgs[turnsDone[n].sid]) \/ handed[n] = 1 \/ n \in rewound
    /\ \A s \in SessionIds : s < bound => ToSet(completedMsgs[s]) = {}
HandsFit == ~overtaken => Handed

(* Order and handing are kept unless close() called the provider ahead of  *)
(* a boundary that still waited (`overtaken`, a divergence of its own).    *)
SyncInv == SyncTables /\ JobsFit /\ TaughtOnce /\ ClosedIsLast /\ LevelsFit /\ HandsFit

-----------------------------------------------------------------------------
(* Jobs, lists and what is handed *)

(* What kind says of a job.                                                *)
LEMMA Kinds ==
    ASSUME SyncInv
    PROVE  /\ \A i \in DOMAIN queued : queued[i] \in Deliveries
           /\ \A j \in Deliveries :
                /\ j.kind = "sync" => j \in SyncJobs
                /\ j.kind = "boundary" => j \in BoundaryJobs
                /\ j.kind \in {"sync", "boundary"}
           /\ doing.kind \in {"none", "sync", "boundary", "popping"}
           /\ doing.kind = "popping" => doing \in Poppings
           /\ doing.kind = "boundary" => doing \in BoundaryJobs
           /\ doing.kind = "sync" => doing \in SyncJobs
           /\ doing.kind = "none" => doing = Idle
BY DEF SyncInv, SyncTables, Deliveries, SyncJobs, BoundaryJobs, Poppings, Idle

(* The elements of a sequence are of the set it is over.                   *)
LEMMA Elements == ASSUME NEW S, NEW q \in Seq(S) PROVE ToSet(q) \subseteq S
<1>1. \A i \in DOMAIN q : q[i] \in S OBVIOUS
<1> QED BY <1>1 DEF ToSet

(* The lists and the turns they number.                                    *)
LEMMA Lists ==
    ASSUME SyncInv
    PROVE  /\ DOMAIN queued = 1 .. Len(queued) /\ Len(queued) \in Nat
           /\ DOMAIN turnsDone = 1 .. Len(turnsDone) /\ Len(turnsDone) \in Nat
           /\ DOMAIN taught = 1 .. Len(taught) /\ Len(taught) \in Nat
           /\ DOMAIN turnsDone \subseteq 1 .. Turns /\ SessionIds \subseteq Nat
           /\ \A n \in DOMAIN turnsDone : turnsDone[n] \in Ended
           /\ ToSet(taught) \subseteq 1 .. Turns
<1>1. taught \in Seq(1 .. Turns) /\ queued \in Seq(Deliveries) /\ turnsDone \in Seq(Ended)
      /\ Len(turnsDone) <= Turns
  BY DEF SyncInv, SyncTables
<1>2. DOMAIN turnsDone \subseteq 1 .. Turns BY <1>1, SyncAssumption
<1>3. ToSet(taught) \subseteq 1 .. Turns
  BY <1>1, Elements
<1> QED BY <1>1, <1>2, <1>3 DEF SessionIds

(* The invariant says all that TurnsAreTaught does.                        *)
LEMMA SyncIsEnough == ASSUME SyncInv PROVE TurnsAreTaught
<1>1. SyncTypeOK
  <2>1. \A s \in SessionIds : ToSet(completedMsgs[s]) \subseteq 1 .. Turns
    BY Lists DEF SyncInv, SyncTables
  <2> QED BY <2>1, Kinds DEF SyncInv, SyncTables, SyncTypeOK, Closing
<1>2. BoundToItsSession
  BY Kinds DEF SyncInv, JobsFit, Named, LevelsFit, LinedUp, BoundToItsSession
<1>3. EndHandsOnce
  <2>1. \A n \in DOMAIN turnsDone : turnsDone[n].sid \in SessionIds BY Lists DEF Ended
  <2> QED BY <2>1 DEF SyncInv, HandsFit, Handed, EndHandsOnce
<1> QED BY <1>1, <1>2, <1>3 DEF SyncInv, TurnsAreTaught

(* Teaching is about the queue, the job in work and what was taught.       *)
LEMMA TaughtStays ==
    ASSUME TaughtOnce, UNCHANGED <<taught, queued, turnsDone>>, InWork' = InWork
    PROVE  TaughtOnce'
<1>1. Syncs' = Syncs /\ ToSet(taught)' = ToSet(taught) BY DEF Syncs, ToSet
<1>2. Accepted' = Accepted BY <1>1 DEF Accepted
<1>3. OldestFirst' BY <1>1 DEF TaughtOnce, OldestFirst
<1> QED BY <1>2, <1>3 DEF TaughtOnce

(* Contains(s, n) is membership.                                           *)
LEMMA Contained ==
    ASSUME SyncInv, NEW s \in SessionIds, NEW n
    PROVE  Contains(completedMsgs[s], n) <=> n \in ToSet(completedMsgs[s])
<1>1. completedMsgs[s] \in Seq(1 .. Turns) BY DEF SyncInv, SyncTables
<1> QED BY <1>1 DEF Contains, ToSet

(* on_session_end counts the turns of the list it is given.                *)
LEMMA HandingAdds ==
    ASSUME SyncInv, NEW s \in SessionIds, Hand(completedMsgs[s])
    PROVE  /\ handed' \in [1 .. Turns -> Nat]
           /\ \A n \in 1 .. Turns :
                handed'[n] =
                  IF n \in ToSet(completedMsgs[s]) THEN handed[n] + 1 ELSE handed[n]
<1>1. handed' = [n \in 1 .. Turns |->
                   IF Contains(completedMsgs[s], n) THEN handed[n] + 1 ELSE handed[n]]
  BY DEF Hand, SyncInv, SyncTables
<1>2. \A n \in 1 .. Turns :
        handed'[n] = IF n \in ToSet(completedMsgs[s]) THEN handed[n] + 1 ELSE handed[n]
  BY <1>1, Contained
<1>3. \A n \in 1 .. Turns : handed[n] \in Nat BY DEF SyncInv, SyncTables
<1> QED BY <1>1, <1>2, <1>3

(* Emptying the list of one session leaves the others.                     *)
LEMMA Emptied ==
    ASSUME SyncInv, NEW s \in SessionIds,
           completedMsgs' = [completedMsgs EXCEPT ![s] = <<>>]
    PROVE  /\ completedMsgs' \in [SessionIds -> Seq(1 .. Turns)]
           /\ ToSet(completedMsgs'[s]) = {}
           /\ \A d \in SessionIds : d # s =>
                ToSet(completedMsgs'[d]) = ToSet(completedMsgs[d])
<1>1. /\ completedMsgs' \in [SessionIds -> Seq(1 .. Turns)] /\ completedMsgs'[s] = <<>>
      /\ \A d \in SessionIds : d # s => completedMsgs'[d] = completedMsgs[d]
  BY DEF SyncInv, SyncTables
<1>2. ToSet(<<>>) = {} BY DEF ToSet
<1> QED BY <1>1, <1>2 DEF ToSet

-----------------------------------------------------------------------------
(* One step of the host, or of the worker of the queue *)

(* A turn that completed is put behind every job of its session.           *)
LEMMA EndTurnFits ==
    ASSUME SyncInv, NEW learned \in BOOLEAN, EndTurn(learned)
    PROVE  SyncInv'
<1> DEFINE n == Len(turnsDone) + 1
           e == [sid |-> kernelSid, completed |-> learned]
           j == Sync(n, kernelSid)
<1>1. /\ closer = "none" /\ Len(turnsDone) < Turns /\ turnsDone' = Append(turnsDone, e)
      /\ \/ /\ learned /\ queued' = Append(queued, j)
            /\ completedMsgs' =
             [completedMsgs EXCEPT ![kernelSid] = Append(completedMsgs[kernelSid], n)]
         \/ ~learned /\ UNCHANGED <<completedMsgs, queued>>
      /\ UNCHANGED <<kernelSid, sid, doing, shutdown, closer, bound, provider, folds,
                     taught, handed, rewound, overtaken>>
  BY DEF EndTurn, Learns, SubmitBackground, SyncInv, SyncTables
<1>2. /\ kernelSid \in SessionIds /\ n \in 1 .. Turns /\ e \in Ended /\ e.sid = kernelSid
      /\ e.completed = learned /\ j \in Deliveries /\ j.kind = "sync" /\ j.turn = n
      /\ j.sid = kernelSid
  <2>1. kernelSid \in SessionIds /\ turnsDone \in Seq(Ended) BY DEF SyncInv, SyncTables
  <2>2. n \in 1 .. Turns BY <1>1, <2>1, SyncAssumption
  <2> QED BY <2>1, <2>2 DEF Ended, Sync, Deliveries, SyncJobs
<1>3. /\ turnsDone' \in Seq(Ended) /\ Len(turnsDone') = n
      /\ DOMAIN turnsDone' = DOMAIN turnsDone \cup {n}
      /\ n \notin DOMAIN turnsDone /\ turnsDone'[n] = e
      /\ \A k \in DOMAIN turnsDone :
           turnsDone'[k] = turnsDone[k] /\ k < n /\ k \in 1 .. Turns
  <2>1. turnsDone \in Seq(Ended) BY DEF SyncInv, SyncTables
  <2> HIDE DEF e
  <2> QED BY <1>1, <1>2, <2>1, Lists
<1> HIDE DEF e, j, n
<1>4. \/ /\ learned /\ queued' \in Seq(Deliveries)
         /\ DOMAIN queued' = DOMAIN queued \cup {Len(queued) + 1}
         /\ \A i \in DOMAIN queued : queued'[i] = queued[i] /\ i < Len(queued) + 1
         /\ queued'[Len(queued) + 1] = j /\ Len(queued) + 1 \notin DOMAIN queued
      \/ ~learned /\ queued' = queued
  <2>1. queued \in Seq(Deliveries) /\ j \in Deliveries BY <1>2 DEF SyncInv, SyncTables
  <2>2. /\ Append(queued, j) \in Seq(Deliveries)
        /\ DOMAIN Append(queued, j) = DOMAIN queued \cup {Len(queued) + 1}
        /\ \A i \in DOMAIN queued :
             Append(queued, j)[i] = queued[i] /\ i < Len(queued) + 1
        /\ Append(queued, j)[Len(queued) + 1] = j /\ Len(queued) + 1 \notin DOMAIN queued
    BY <2>1, Lists
  <2> QED BY <1>1, <2>2
<1>5. /\ completedMsgs' \in [SessionIds -> Seq(1 .. Turns)]
      /\ \A s \in SessionIds : s # kernelSid =>
           ToSet(completedMsgs'[s]) = ToSet(completedMsgs[s])
      /\ ToSet(completedMsgs'[kernelSid]) =
           ToSet(completedMsgs[kernelSid]) \cup (IF learned THEN {n} ELSE {})
  <2>1. completedMsgs[kernelSid] \in Seq(1 .. Turns)
          /\ completedMsgs \in [SessionIds -> Seq(1 .. Turns)]
    BY <1>2 DEF SyncInv, SyncTables
  <2>2. CASE ~learned /\ UNCHANGED completedMsgs BY <1>1, <2>1, <2>2 DEF ToSet
  <2>3. CASE learned
          /\ completedMsgs' =
             [completedMsgs EXCEPT ![kernelSid] = Append(completedMsgs[kernelSid], n)]
    <3> DEFINE q == completedMsgs[kernelSid]
    <3>1. /\ Append(q, n) \in Seq(1 .. Turns) /\ DOMAIN Append(q, n) = 1 .. (Len(q) + 1)
          /\ Len(q) \in Nat
          /\ DOMAIN q = 1 .. Len(q)
          /\ (\A i \in DOMAIN q : Append(q, n)[i] = q[i]) /\ Append(q, n)[Len(q) + 1] = n
      BY <1>2, <2>1
    <3>2. /\ completedMsgs' \in [SessionIds -> Seq(1 .. Turns)]
          /\ completedMsgs'[kernelSid] = Append(q, n)
          /\ \A s \in SessionIds : s # kernelSid => completedMsgs'[s] = completedMsgs[s]
      BY <1>2, <2>1, <2>3, <3>1
    <3>3. ToSet(Append(q, n)) = ToSet(q) \cup {n} BY <3>1 DEF ToSet
    <3>4. ToSet(completedMsgs'[kernelSid]) = ToSet(Append(q, n)) BY <1>1, <3>2 DEF ToSet
    <3>5. \A s \in SessionIds : s # kernelSid =>
            ToSet(completedMsgs'[s]) = ToSet(completedMsgs[s])
      BY <3>2 DEF ToSet
    <3> QED BY <2>3, <3>2, <3>3, <3>4, <3>5
  <2> QED BY <1>1, <2>2, <2>3
<1>6. SyncTables'
  <2>1. \A s \in SessionIds : \A k \in ToSet(completedMsgs'[s]) :
          k \in DOMAIN turnsDone' /\ turnsDone'[k].sid = s /\ turnsDone'[k].completed
    <3> SUFFICES ASSUME NEW s \in SessionIds, NEW k \in ToSet(completedMsgs'[s])
                 PROVE  k \in DOMAIN turnsDone' /\ turnsDone'[k].sid = s
                          /\ turnsDone'[k].completed
      OBVIOUS
    <3>1. CASE k \in ToSet(completedMsgs[s]) BY <1>3, <3>1 DEF SyncInv, SyncTables
    <3>2. CASE s = kernelSid /\ k = n /\ learned BY <1>2, <1>3, <3>2
    <3>3. k \in ToSet(completedMsgs[s]) \/ (s = kernelSid /\ k = n /\ learned) BY <1>5
    <3> QED BY <3>1, <3>2, <3>3
  <2>2. queued' \in Seq(Deliveries) BY <1>4 DEF SyncInv, SyncTables
  <2>3. Len(turnsDone') <= Turns BY <1>2, <1>3
  <2> QED BY <1>1, <1>3, <1>5, <2>1, <2>2, <2>3 DEF SyncInv, SyncTables
<1>7. JobsFit' BY <1>1, <1>2, <1>3, <1>4 DEF SyncInv, JobsFit, Named
<1>8. \A m \in Accepted : m < n /\ m # n
  BY <1>3 DEF SyncInv, TaughtOnce
<1>9. TaughtOnce'
  <2>1. ToSet(taught)' = ToSet(taught) /\ InWork' = InWork BY <1>1 DEF ToSet, InWork
  <2>2. \/ learned /\ Syncs' = Syncs \cup {Len(queued) + 1}
        \/ ~learned /\ Syncs' = Syncs
    BY <1>2, <1>4 DEF Syncs
  <2>3. \A i \in Syncs :
          i \in DOMAIN queued /\ queued'[i] = queued[i] /\ queued[i].turn \in Accepted
    BY <1>4 DEF Syncs, Accepted
  <2>4. Accepted' = IF learned THEN Accepted \cup {n} ELSE Accepted
    BY <1>2, <1>4, <2>1, <2>2, <2>3 DEF Accepted
  <2>5. Accepted' = {k \in DOMAIN turnsDone' : turnsDone'[k].completed}
    BY <1>2, <1>3, <2>4 DEF SyncInv, TaughtOnce
  <2>6. OldestFirst'
    <3>1. \A m \in ToSet(taught) \cup InWork : m < n BY <1>8 DEF Accepted
    <3>2. \A i \in Syncs : queued[i].turn < n /\ i < Len(queued) + 1
      BY <1>8, <2>3, Lists
    <3>3. \A i \in Syncs' : i \in Syncs \/ (i = Len(queued) + 1 /\ queued'[i].turn = n)
      BY <1>2, <1>4, <2>2
    <3>4. ~(Len(queued) + 1 < Len(queued) + 1) BY Lists
    <3>5. \A i, k \in Syncs' : i < k => queued'[i].turn < queued'[k].turn
      BY <2>3, <3>2, <3>3, Lists DEF SyncInv, TaughtOnce, OldestFirst, Syncs
    <3>6. \A m \in ToSet(taught) \cup InWork : \A i \in Syncs' : m < queued'[i].turn
      BY <2>3, <3>1, <3>3 DEF SyncInv, TaughtOnce, OldestFirst
    <3> QED BY <1>1, <2>1, <3>5, <3>6 DEF SyncInv, TaughtOnce, OldestFirst
  <2> QED BY <2>5, <2>6 DEF TaughtOnce
<1>10. ClosedIsLast' BY <1>1 DEF SyncInv, SyncTables, ClosedIsLast
<1>11. LevelsFit'
  <2> SUFFICES ASSUME ~overtaken PROVE LinedUp' BY <1>1 DEF LevelsFit
  <2>1. LinedUp BY DEF SyncInv, LevelsFit
  <2>2. Base' = Base BY <1>1 DEF Base
  <2>3. CASE ~learned /\ queued' = queued
    BY <1>1, <2>1, <2>2, <2>3 DEF LinedUp, Level, IsBoundary, BoundaryIsPending
  <2>4. CASE learned /\ queued' # queued
    <3> DEFINE new == Len(queued) + 1
    <3>1. /\ DOMAIN queued' = DOMAIN queued \cup {new} /\ new \notin DOMAIN queued
          /\ \A i \in DOMAIN queued : queued'[i] = queued[i] /\ i < new /\ i \in Nat
          /\ queued'[new].kind = "sync" /\ queued'[new].sid = kernelSid /\ new \in Nat
      BY <1>2, <1>4, <2>4, Lists
    <3> HIDE DEF new
    <3>2. /\ \A i \in DOMAIN queued :
               Level(queued'[i]) = Level(queued[i])
                 /\ (IsBoundary(queued'[i]) <=> IsBoundary(queued[i]))
          /\ Level(queued'[new]) = kernelSid /\ ~IsBoundary(queued'[new])
      BY <1>1, <3>1 DEF Level, IsBoundary
    <3>3. kernelSid <= kernelSid /\ Base <= kernelSid /\ kernelSid \in SessionIds
      BY <1>2, <2>1, Lists DEF LinedUp
    <3>4. \A i \in DOMAIN queued' :
            Base <= Level(queued'[i]) /\ Level(queued'[i]) <= kernelSid
      BY <2>1, <3>1, <3>2, <3>3 DEF LinedUp
    <3>5. \A i, k \in DOMAIN queued' : i < k => Level(queued'[i]) <= Level(queued'[k])
      BY <2>1, <3>1, <3>2, <3>3, <3>4 DEF LinedUp
    <3>6. /\ \A k \in DOMAIN queued' : IsBoundary(queued'[k]) =>
               k \in DOMAIN queued /\ IsBoundary(queued[k])
          /\ \A k \in DOMAIN queued : IsBoundary(queued[k]) =>
               k \in DOMAIN queued' /\ IsBoundary(queued'[k]) /\ queued'[k] = queued[k]
      BY <3>1, <3>2
    <3>7. \A k \in DOMAIN queued' : IsBoundary(queued'[k]) => Base < queued'[k].new
      BY <2>1, <3>6 DEF LinedUp
    <3>8. \A i, k \in DOMAIN queued' : IsBoundary(queued'[k]) /\ i < k =>
            Level(queued'[i]) < queued'[k].new
      BY <2>1, <3>1, <3>2, <3>6 DEF LinedUp
    <3>9. \A l \in SessionIds : Base < l /\ l <= kernelSid =>
            \E k \in DOMAIN queued : IsBoundary(queued[k]) /\ queued[k].new = l
      BY <2>1 DEF LinedUp
    <3>10. \A l \in SessionIds : Base < l /\ l <= kernelSid =>
            \E k \in DOMAIN queued' : IsBoundary(queued'[k]) /\ queued'[k].new = l
      BY <3>6, <3>9
    <3>11. \A i \in DOMAIN queued' : ~IsBoundary(queued'[i]) /\ Base < queued'[i].sid =>
            \E k \in DOMAIN queued' :
              k < i /\ IsBoundary(queued'[k]) /\ queued'[k].new = queued'[i].sid
      BY <2>1, <3>1, <3>2, <3>3, <3>6, <3>9 DEF LinedUp
    <3> QED BY <1>1, <2>1, <2>2, <3>4, <3>5, <3>7, <3>8, <3>10, <3>11 DEF LinedUp
  <2> QED BY <1>1, <2>3, <2>4
<1>12. HandsFit'
  <2> SUFFICES ASSUME ~overtaken PROVE Handed' BY <1>1 DEF HandsFit
  <2>1. LinedUp /\ Handed BY DEF SyncInv, LevelsFit, HandsFit
  <2>2. handed[n] = 0 BY <1>2, <1>3 DEF SyncInv, SyncTables
  <2>3. ~(Handing /\ kernelSid = sid) /\ bound <= kernelSid
    <3>1. {bound, kernelSid} \subseteq Nat BY Lists DEF SyncInv, SyncTables
    <3> QED BY <1>1, <2>1, <3>1, Kinds DEF LinedUp, Handing, Base
  <2>4. Handing' = Handing BY <1>1 DEF Handing
  <2>5. \A s \in SessionIds : s < bound => s # kernelSid
    BY <2>3, Lists DEF SyncInv, SyncTables
  <2>6. \A k \in DOMAIN turnsDone' : handed[k] <= 1 BY <1>3, <2>1, <2>2 DEF Handed
  <2>7. \A s \in SessionIds : \A k \in ToSet(completedMsgs'[s]) :
          handed[k] = IF Handing /\ s = sid THEN 1 ELSE 0
    BY <1>5, <2>1, <2>2, <2>3 DEF Handed
  <2>8. \A k \in DOMAIN turnsDone' : turnsDone'[k].completed =>
          k \in ToSet(completedMsgs'[turnsDone'[k].sid]) \/ handed[k] = 1 \/ k \in rewound
    <3>1. \A k \in DOMAIN turnsDone : turnsDone[k].sid \in SessionIds BY Lists DEF Ended
    <3>2. \A s \in SessionIds : ToSet(completedMsgs[s]) \subseteq ToSet(completedMsgs'[s])
      BY <1>5
    <3>3. learned => n \in ToSet(completedMsgs'[kernelSid]) BY <1>5
    <3> QED BY <1>2, <1>3, <2>1, <3>1, <3>2, <3>3 DEF Handed
  <2>9. \A s \in SessionIds : s < bound => ToSet(completedMsgs'[s]) = {}
    BY <1>5, <2>1, <2>5 DEF Handed
  <2> QED BY <1>1, <2>4, <2>6, <2>7, <2>8, <2>9 DEF Handed
<1> QED BY <1>6, <1>7, <1>9, <1>10, <1>11, <1>12 DEF SyncInv

(* A fold rebinds to the same session, with no boundary waiting.           *)
LEMMA FoldFits == ASSUME SyncInv, FoldRebinds PROVE SyncInv'
<1>1. /\ closer = "none" /\ sid' = kernelSid /\ bound' = kernelSid
      /\ rewound' = rewound \cup ToSet(completedMsgs[kernelSid])
      /\ completedMsgs' = [completedMsgs EXCEPT ![kernelSid] = <<>>]
      /\ overtaken' = (overtaken \/ BoundaryIsPending)
      /\ UNCHANGED <<kernelSid, queued, doing, shutdown, closer, provider, turnsDone,
                     taught, handed>>
  BY DEF FoldRebinds
<1>2. kernelSid \in SessionIds /\ kernelSid \in Nat BY Lists DEF SyncInv, SyncTables
<1>3. /\ completedMsgs' \in [SessionIds -> Seq(1 .. Turns)]
      /\ ToSet(completedMsgs'[kernelSid]) = {}
      /\ \A s \in SessionIds : s # kernelSid =>
           ToSet(completedMsgs'[s]) = ToSet(completedMsgs[s])
  BY <1>1, <1>2, Emptied
<1>4. SyncTables' BY <1>1, <1>2, <1>3 DEF SyncInv, SyncTables
<1>5. JobsFit' BY <1>1 DEF SyncInv, JobsFit, Named
<1>6. TaughtOnce' BY <1>1, TaughtStays DEF SyncInv, InWork
<1>7. ClosedIsLast' BY <1>1 DEF SyncInv, ClosedIsLast
<1> SUFFICES ASSUME ~overtaken' PROVE LinedUp' /\ Handed'
  BY <1>4, <1>5, <1>6, <1>7 DEF SyncInv, LevelsFit, HandsFit
<1>8. LinedUp /\ Handed /\ ~BoundaryIsPending BY <1>1 DEF SyncInv, LevelsFit, HandsFit
<1>9. Base = bound /\ bound = kernelSid
  <2>1. Base = bound BY <1>8 DEF Base, BoundaryIsPending
  <2>2. \A i \in DOMAIN queued : ~IsBoundary(queued[i])
    BY <1>8 DEF BoundaryIsPending, IsBoundary
  <2>3. bound \in Nat BY Lists DEF SyncInv, SyncTables
  <2> QED BY <1>2, <1>8, <2>1, <2>2, <2>3 DEF LinedUp
<1>10. sid' = sid /\ bound' = bound BY <1>1, <1>8, <1>9 DEF LinedUp
<1>11. LinedUp'
  BY <1>1, <1>8, <1>10 DEF LinedUp, Base, Level, IsBoundary, BoundaryIsPending
<1>12. Handed'
  <2>1. \A n \in DOMAIN turnsDone : turnsDone[n].sid \in SessionIds BY Lists DEF Ended
  <2> QED BY <1>1, <1>2, <1>3, <1>8, <1>10, <2>1 DEF Handed, Handing
<1> QED BY <1>11, <1>12

(* A new session queues its boundary behind all of the old session's jobs. *)
LEMMA NewSessionFits == ASSUME SyncInv, NewSession PROVE SyncInv'
<1> DEFINE new == kernelSid + 1
           end == Len(queued) + 1
           j == Boundary(new)
<1>1. /\ closer = "none" /\ kernelSid < MaxSessions /\ kernelSid' = new
      /\ queued' = Append(queued, j)
      /\ UNCHANGED <<sid, completedMsgs, doing, shutdown, closer, bound, provider, folds,
                     turnsDone, taught, handed, rewound, overtaken>>
  BY DEF NewSession, SubmitBackground, SyncInv, SyncTables, Boundary
<1>2. /\ kernelSid \in SessionIds /\ kernelSid \in Nat /\ new \in SessionIds
      /\ j \in Deliveries /\ j.kind = "boundary" /\ j.new = new
  <2>1. kernelSid \in SessionIds BY DEF SyncInv, SyncTables
  <2>2. new \in SessionIds BY <1>1, <2>1, SyncAssumption DEF SessionIds
  <2> QED BY <2>1, <2>2, SyncAssumption DEF SessionIds, Boundary, Deliveries, BoundaryJobs
<1>n. kernelSid < new /\ new = kernelSid + 1 BY <1>2
<1> HIDE DEF j, new
<1>3. /\ queued' \in Seq(Deliveries) /\ DOMAIN queued' = DOMAIN queued \cup {end}
      /\ end \notin DOMAIN queued
      /\ \A i \in DOMAIN queued : queued'[i] = queued[i] /\ i < end /\ i \in Nat
      /\ queued'[end] = j /\ end \in Nat
  <2>1. queued \in Seq(Deliveries) /\ j \in Deliveries BY <1>2 DEF SyncInv, SyncTables
  <2> QED BY <1>1, <2>1, Lists
<1> HIDE DEF end
<1>4. SyncTables' BY <1>1, <1>2, <1>3 DEF SyncInv, SyncTables
<1>5. JobsFit' BY <1>1, <1>2, <1>3 DEF SyncInv, JobsFit, Named
<1>6. TaughtOnce'
  <2>1. Syncs' = Syncs /\ \A i \in Syncs : queued'[i] = queued[i] BY <1>2, <1>3 DEF Syncs
  <2>2. ToSet(taught)' = ToSet(taught) /\ InWork' = InWork BY <1>1 DEF ToSet, InWork
  <2>3. Accepted' = Accepted BY <2>1, <2>2 DEF Accepted
  <2>4. OldestFirst' BY <1>1, <2>1, <2>2 DEF SyncInv, TaughtOnce, OldestFirst
  <2> QED BY <1>1, <2>3, <2>4 DEF SyncInv, TaughtOnce
<1>7. ClosedIsLast' BY <1>1 DEF SyncInv, SyncTables, ClosedIsLast
<1> SUFFICES ASSUME ~overtaken PROVE LinedUp' /\ Handed'
  BY <1>1, <1>4, <1>5, <1>6, <1>7 DEF SyncInv, LevelsFit, HandsFit
<1>8. LinedUp /\ Handed BY DEF SyncInv, LevelsFit, HandsFit
<1>9. Base' = Base /\ Base <= kernelSid /\ Base \in Nat
  <2>1. Base \in SessionIds
    BY Kinds DEF Base, SyncInv, SyncTables, BoundaryJobs, Poppings
  <2> QED BY <1>1, <1>8, <2>1, Lists DEF Base, LinedUp
<1>10. LinedUp'
  <2>1. /\ \A i \in DOMAIN queued : Level(queued'[i]) = Level(queued[i])
        /\ Level(queued'[end]) = new /\ IsBoundary(queued'[end]) /\ queued'[end].new = new
    BY <1>2, <1>3 DEF Level, IsBoundary
  <2>2. \A i \in DOMAIN queued : Level(queued[i]) \in Nat
    BY Kinds, Lists DEF Level, SyncJobs, BoundaryJobs
  <2>3. \A i \in DOMAIN queued' : Base <= Level(queued'[i]) /\ Level(queued'[i]) <= new
    BY <1>2, <1>n, <1>3, <1>8, <1>9, <2>1, <2>2 DEF LinedUp
  <2>4. \A i \in DOMAIN queued : Level(queued[i]) < new
    BY <1>2, <1>n, <1>8, <2>2 DEF LinedUp
  <2>5. \A i, k \in DOMAIN queued' : i < k => Level(queued'[i]) <= Level(queued'[k])
    BY <1>2, <1>3, <1>8, <2>1, <2>2, <2>4 DEF LinedUp
  <2>6. \A k \in DOMAIN queued' : IsBoundary(queued'[k]) => Base < queued'[k].new
    BY <1>2, <1>n, <1>3, <1>8, <1>9, <2>1 DEF LinedUp
  <2>7. \A i, k \in DOMAIN queued' : IsBoundary(queued'[k]) /\ i < k =>
          Level(queued'[i]) < queued'[k].new
    BY <1>3, <1>8, <2>1, <2>4 DEF LinedUp
  <2>8. \A l \in SessionIds : Base < l /\ l <= new =>
          \E k \in DOMAIN queued' : IsBoundary(queued'[k]) /\ queued'[k].new = l
    <3> SUFFICES ASSUME NEW l \in SessionIds, Base < l, l <= new
                 PROVE  \E k \in DOMAIN queued' :
                          IsBoundary(queued'[k]) /\ queued'[k].new = l
      OBVIOUS
    <3>1. CASE l = new BY <1>3, <2>1, <3>1
    <3>2. CASE l # new
      <4>1. l <= kernelSid BY <1>2, <1>n, <3>2, Lists
      <4>2. PICK k \in DOMAIN queued : IsBoundary(queued[k]) /\ queued[k].new = l
        BY <1>8, <4>1 DEF LinedUp
      <4> QED BY <1>3, <4>2
    <3> QED BY <3>1, <3>2
  <2>9. \A i \in DOMAIN queued' : ~IsBoundary(queued'[i]) /\ Base < queued'[i].sid =>
          \E k \in DOMAIN queued' :
            k < i /\ IsBoundary(queued'[k]) /\ queued'[k].new = queued'[i].sid
    BY <1>3, <1>8, <2>1 DEF LinedUp
  <2> QED
    BY SMTT(30), <1>1, <1>8, <1>9, <1>2, <1>n, <2>3, <2>5, <2>6, <2>7, <2>8, <2>9
       DEF LinedUp
<1>11. Handed' BY <1>1, <1>8 DEF Handed, Handing
<1> QED BY <1>10, <1>11

(* The host closes the memory, step by step.                               *)
LEMMA CloseFits ==
    ASSUME SyncInv, CloseEnds \/ CloseFlushes \/ FlushReturns
                    \/ ShutdownAll \/ CloseGoesOn
    PROVE  SyncInv'
<1>1. /\ UNCHANGED <<kernelSid, sid, queued, doing, bound, provider, turnsDone, taught,
           rewound>>
      /\ closer \in Closing /\ closer' \in Closing /\ closer' # "none"
      /\ shutdown' => closer' \in {"draining", "closed"}
      /\ shutdown => shutdown'
      /\ sid \in SessionIds
      /\ overtaken' = (overtaken \/ (closer = "none" /\ BoundaryIsPending))
  BY DEF CloseEnds, CloseFlushes, FlushReturns, ShutdownAll, CloseGoesOn, SyncInv,
     SyncTables, Closing
<1>2. \/ closer = "none" /\ closer' = "popping" /\ Hand(completedMsgs[sid])
           /\ UNCHANGED completedMsgs
      \/ /\ closer = "popping" /\ closer' # "popping" /\ UNCHANGED handed
         /\ completedMsgs' = [completedMsgs EXCEPT ![sid] = <<>>]
      \/ /\ closer \notin {"none", "popping"} /\ closer' # "popping"
         /\ UNCHANGED <<handed, completedMsgs>>
  BY DEF CloseEnds, CloseFlushes, FlushReturns, ShutdownAll, CloseGoesOn
<1>3. /\ completedMsgs' \in [SessionIds -> Seq(1 .. Turns)]
      /\ \A s \in SessionIds : s # sid =>
           ToSet(completedMsgs'[s]) = ToSet(completedMsgs[s])
      /\ ToSet(completedMsgs'[sid]) =
           IF closer = "popping" THEN {} ELSE ToSet(completedMsgs[sid])
  <2>1. CASE UNCHANGED completedMsgs /\ closer # "popping"
    BY <1>1, <2>1 DEF SyncInv, SyncTables
  <2>2. CASE completedMsgs' = [completedMsgs EXCEPT ![sid] = <<>>] /\ closer = "popping"
    BY <1>1, <2>2, Emptied
  <2> QED BY <1>2, <2>1, <2>2
<1>4. /\ handed' \in [1 .. Turns -> Nat]
      /\ \A n \in 1 .. Turns :
           handed'[n] = IF closer = "none" /\ n \in ToSet(completedMsgs[sid])
                                            THEN handed[n] + 1 ELSE handed[n]
  <2>1. CASE closer = "none" /\ Hand(completedMsgs[sid]) BY <1>1, <2>1, HandingAdds
  <2>2. CASE closer # "none" /\ UNCHANGED handed BY <2>2 DEF SyncInv, SyncTables
  <2> QED BY <1>2, <2>1, <2>2
<1>5. SyncTables'
  <2>1. \A s \in SessionIds : \A n \in ToSet(completedMsgs'[s]) :
          n \in DOMAIN turnsDone' /\ turnsDone'[n].sid = s /\ turnsDone'[n].completed
    <3>1. \A s \in SessionIds : \A n \in ToSet(completedMsgs'[s]) :
            n \in ToSet(completedMsgs[s])
      BY <1>3
    <3> QED BY <1>1, <3>1 DEF SyncInv, SyncTables
  <2>2. \A n \in 1 .. Turns : n \notin DOMAIN turnsDone => handed'[n] = 0
    <3>1. \A n \in ToSet(completedMsgs[sid]) : n \in DOMAIN turnsDone
      BY <1>1 DEF SyncInv, SyncTables
    <3> QED BY <1>4, <3>1 DEF SyncInv, SyncTables
  <2>3. /\ {kernelSid, sid, bound} \subseteq SessionIds
        /\ queued \in Seq(Deliveries) /\ doing \in {Idle} \cup Deliveries \cup Poppings
        /\ turnsDone \in Seq(Ended) /\ Len(turnsDone) <= Turns
        /\ taught \in Seq(1 .. Turns)
        /\ provider \in {"open", "closed"} /\ (provider = "closed" => shutdown)
        /\ {shutdown, overtaken} \subseteq BOOLEAN
    BY DEF SyncInv, SyncTables
  <2>4. {shutdown', overtaken'} \subseteq BOOLEAN /\ (provider' = "closed" => shutdown')
    <3>1. shutdown' \in BOOLEAN
      BY <2>3 DEF CloseEnds, CloseFlushes, FlushReturns, ShutdownAll, CloseGoesOn
    <3>2. overtaken' \in BOOLEAN BY <1>1 DEF BoundaryIsPending
    <3>3. provider' = "closed" => shutdown' BY <1>1, <2>3
    <3> QED BY <3>1, <3>2, <3>3
  <2> QED BY <1>1, <1>3, <1>4, <2>1, <2>2, <2>3, <2>4 DEF SyncTables
<1>6. JobsFit' BY <1>1 DEF SyncInv, JobsFit, Named
<1>7. TaughtOnce' BY <1>1, TaughtStays DEF SyncInv, InWork
<1>8. ClosedIsLast' BY <1>1 DEF SyncInv, ClosedIsLast
<1> SUFFICES ASSUME ~overtaken' PROVE LinedUp' /\ Handed'
  BY <1>5, <1>6, <1>7, <1>8 DEF SyncInv, LevelsFit, HandsFit
<1>9. LinedUp /\ Handed /\ ~BoundaryIsPending
  BY <1>1 DEF SyncInv, LevelsFit, HandsFit, LinedUp
<1>10. LinedUp' BY <1>1, <1>9 DEF LinedUp, Base, Level, IsBoundary, BoundaryIsPending
<1>11. Handed'
  <2>1. doing.kind # "popping" BY <1>9 DEF BoundaryIsPending
  <2>2. Handing <=> closer = "popping" BY <2>1 DEF Handing
  <2>3. Handing' <=> closer' = "popping" BY <1>1, <2>1 DEF Handing
  <2>4. \A n \in DOMAIN turnsDone :
          n \in 1 .. Turns /\ turnsDone[n].sid \in SessionIds /\ handed[n] \in Nat
    BY Lists DEF Ended, SyncInv, SyncTables
  <2>5. \A n \in ToSet(completedMsgs[sid]) :
          n \in 1 .. Turns /\ handed[n] = IF closer = "popping" THEN 1 ELSE 0
    BY <1>1, <1>9, <2>2, Lists DEF Handed, SyncInv, SyncTables
  <2>6. \A n \in DOMAIN turnsDone : handed'[n] <= 1
    BY <1>4, <1>9, <2>4, <2>5 DEF Handed
  <2>7. \A s \in SessionIds : \A n \in ToSet(completedMsgs'[s]) :
          handed'[n] = IF Handing' /\ s = sid THEN 1 ELSE 0
    <3> SUFFICES ASSUME NEW s \in SessionIds, NEW n \in ToSet(completedMsgs'[s])
                 PROVE  handed'[n] = IF Handing' /\ s = sid THEN 1 ELSE 0
      OBVIOUS
    <3>1. n \in ToSet(completedMsgs[s]) /\ n \in 1 .. Turns
      BY <1>3, Lists DEF SyncInv, SyncTables
    <3>2. CASE s = sid BY <1>2, <1>3, <1>4, <2>3, <2>5, <3>1, <3>2
    <3>3. CASE s # sid
      <4>1. n \notin ToSet(completedMsgs[sid])
        <5>1. \A d \in SessionIds : \A k \in ToSet(completedMsgs[d]) :
                turnsDone[k].sid = d
          BY DEF SyncInv, SyncTables
        <5> QED BY <1>1, <3>1, <3>3, <5>1
      <4>2. handed[n] = 0 BY <1>9, <3>1, <3>3 DEF Handed
      <4> QED BY <1>4, <3>1, <3>3, <4>1, <4>2
    <3> QED BY <3>2, <3>3
  <2>8. \A n \in DOMAIN turnsDone : turnsDone[n].completed =>
          n \in ToSet(completedMsgs'[turnsDone[n].sid]) \/ handed'[n] = 1 \/ n \in rewound
    <3> SUFFICES ASSUME NEW n \in DOMAIN turnsDone, turnsDone[n].completed
                 PROVE  n \in ToSet(completedMsgs'[turnsDone[n].sid]) \/ handed'[n] = 1
                          \/ n \in rewound
      OBVIOUS
    <3>1. n \in ToSet(completedMsgs[turnsDone[n].sid]) \/ handed[n] = 1 \/ n \in rewound
      BY <1>9 DEF Handed
    <3>2. CASE n \in ToSet(completedMsgs[turnsDone[n].sid])
      BY <1>3, <1>4, <2>4, <2>5, <3>2
    <3>3. CASE handed[n] = 1 BY <1>4, <2>4, <2>5, <3>3
    <3> QED BY <3>1, <3>2, <3>3
  <2>9. \A s \in SessionIds : s < bound => ToSet(completedMsgs'[s]) = {}
    BY <1>3, <1>9 DEF Handed
  <2> QED BY <1>1, <2>6, <2>7, <2>8, <2>9 DEF Handed
<1> QED BY <1>10, <1>11

(* close() closes the provider once it has shut the queue.                 *)
LEMMA DrainFits == ASSUME SyncInv, DrainThenClose PROVE SyncInv'
<1>1. /\ shutdown /\ queued = <<>> /\ doing = Idle /\ provider' = "closed"
      /\ UNCHANGED <<sid, completedMsgs, queued, doing, bound, taught, handed, host>>
  BY DEF DrainThenClose
<1> USE DEF host
<1>2. SyncTables' BY <1>1 DEF SyncInv, SyncTables
<1>3. JobsFit' BY <1>1 DEF SyncInv, JobsFit, Named
<1>4. TaughtOnce' BY <1>1, TaughtStays DEF SyncInv, InWork
<1>5. ClosedIsLast' BY <1>1 DEF ClosedIsLast
<1>6. LevelsFit'
  BY <1>1 DEF SyncInv, LevelsFit, LinedUp, Base, Level, IsBoundary, BoundaryIsPending
<1>7. HandsFit' BY <1>1 DEF SyncInv, HandsFit, Handed, Handing
<1> QED BY <1>2, <1>3, <1>4, <1>5, <1>6, <1>7 DEF SyncInv

(* The worker takes the job at the head: a turn of the session it is in,   *)
(* or the boundary to the next.                                            *)
LEMMA TakesFits == ASSUME SyncInv, WorkerTakes PROVE SyncInv'
<1> DEFINE j == queued[1]
<1>1. /\ doing = Idle /\ queued # <<>> /\ queued' = Tail(queued) /\ doing' = j
      /\ UNCHANGED <<sid, completedMsgs, bound, provider, taught, handed, host>>
  BY DEF WorkerTakes, SyncInv, SyncTables
<1>2. /\ queued' \in Seq(Deliveries) /\ 1 \in DOMAIN queued /\ j \in Deliveries
      /\ \A i \in DOMAIN queued' :
           i + 1 \in DOMAIN queued /\ queued'[i] = queued[i + 1] /\ i \in Nat /\ 1 < i + 1
      /\ \A i \in DOMAIN queued : i # 1 =>
           i - 1 \in DOMAIN queued' /\ queued'[i - 1] = queued[i]
      /\ DOMAIN queued \subseteq Nat
  <2>1. queued \in Seq(Deliveries) BY DEF SyncInv, SyncTables
  <2>2. /\ Tail(queued) \in Seq(Deliveries) /\ Len(queued) \in Nat /\ Len(queued) > 0
        /\ DOMAIN queued = 1 .. Len(queued)
        /\ DOMAIN Tail(queued) = 1 .. (Len(queued) - 1)
        /\ \A i \in 1 .. (Len(queued) - 1) : Tail(queued)[i] = queued[i + 1]
    BY <1>1, <2>1
  <2>3. 1 \in DOMAIN queued /\ j \in Deliveries BY <2>1, <2>2
  <2>4. \A i \in DOMAIN queued : i # 1 =>
          i - 1 \in 1 .. (Len(queued) - 1) /\ (i - 1) + 1 = i
    BY <2>2
  <2>5. \A i \in 1 .. (Len(queued) - 1) :
          i + 1 \in DOMAIN queued /\ i \in Nat /\ 1 < i + 1
    BY <2>2
  <2>6. \A i \in DOMAIN queued : i # 1 => Tail(queued)[i - 1] = queued[i] BY <2>2, <2>4
  <2> QED BY <1>1, <2>2, <2>3, <2>4, <2>5, <2>6
<1>3. \A i \in DOMAIN queued : i # 1 => 1 < i BY Lists
<1>k. doing.kind = "none" /\ j.kind \in {"sync", "boundary"} BY <1>1, <1>2, Kinds DEF Idle
<1> HIDE DEF j
<1> USE DEF host
<1>4. SyncTables' BY <1>1, <1>2 DEF SyncInv, SyncTables
<1>5. JobsFit' BY <1>1, <1>2 DEF SyncInv, JobsFit, Named, j
<1>6. TaughtOnce'
  <2>1. \A i \in Syncs' :
          i + 1 \in Syncs /\ queued'[i] = queued[i + 1] /\ i \in Nat /\ 1 < i + 1
    BY <1>2 DEF Syncs
  <2>2. \A i \in Syncs : i # 1 => i - 1 \in Syncs' /\ queued'[i - 1] = queued[i]
    BY <1>2 DEF Syncs
  <2>3. InWork = {} /\ InWork' = IF j.kind = "sync" THEN {j.turn} ELSE {}
    BY <1>1, <1>k DEF InWork
  <2>4. (1 \in Syncs <=> j.kind = "sync") /\ queued[1] = j BY <1>2 DEF Syncs, j
  <2>5. ToSet(taught)' = ToSet(taught) BY <1>1 DEF ToSet
  <2>6. {queued[i].turn : i \in Syncs} = InWork' \cup {queued'[i].turn : i \in Syncs'}
    BY <2>1, <2>2, <2>3, <2>4
  <2>7. Accepted' = Accepted BY <2>3, <2>5, <2>6 DEF Accepted
  <2>8. OldestFirst'
    <3>1. \A i, k \in Syncs' : i < k => queued'[i].turn < queued'[k].turn
      BY <2>1 DEF SyncInv, TaughtOnce, OldestFirst
    <3>2. \A n \in ToSet(taught) : \A m \in InWork' : n < m
      BY <2>3, <2>4 DEF SyncInv, TaughtOnce, OldestFirst
    <3>3. \A n \in ToSet(taught) : \A i \in Syncs' : n < queued'[i].turn
      BY <2>1 DEF SyncInv, TaughtOnce, OldestFirst
    <3>4. \A n \in InWork' : \A i \in Syncs' : n < queued'[i].turn
      BY <2>1, <2>3, <2>4 DEF SyncInv, TaughtOnce, OldestFirst
    <3> QED BY <1>1, <2>5, <3>1, <3>2, <3>3, <3>4 DEF SyncInv, TaughtOnce, OldestFirst
  <2> QED BY <1>1, <2>7, <2>8 DEF SyncInv, TaughtOnce
<1>7. ClosedIsLast' BY <1>1 DEF SyncInv, ClosedIsLast
<1> SUFFICES ASSUME ~overtaken PROVE LinedUp' /\ Handed'
  BY <1>1, <1>4, <1>5, <1>6, <1>7 DEF SyncInv, LevelsFit, HandsFit
<1>8. LinedUp /\ Handed BY DEF SyncInv, LevelsFit, HandsFit
<1>9. /\ Base = bound /\ bound \in SessionIds /\ kernelSid \in SessionIds
      /\ SessionIds \subseteq Nat
      /\ \A i \in DOMAIN queued : Level(queued[i]) \in SessionIds
  BY <1>k, Kinds, Lists DEF Base, SyncInv, SyncTables, Level, SyncJobs, BoundaryJobs
<1>10. j.kind = "boundary" => j.new = bound + 1
  <2> SUFFICES ASSUME j.kind = "boundary" PROVE j.new = bound + 1 OBVIOUS
  <2>1. Level(j) = j.new /\ bound < j.new /\ j.new <= kernelSid /\ j.new \in SessionIds
    BY <1>2, <1>8, <1>9 DEF LinedUp, Level, IsBoundary, j
  <2>2. bound + 1 \in SessionIds /\ bound + 1 <= kernelSid
    BY <1>9, <2>1, SyncAssumption DEF SessionIds
  <2>3. bound < bound + 1 BY <1>9
  <2>4. PICK k \in DOMAIN queued : IsBoundary(queued[k]) /\ queued[k].new = bound + 1
    BY <1>8, <1>9, <2>2, <2>3 DEF LinedUp
  <2>5. j.new <= Level(queued[k])
    <3>1. CASE k = 1
      <4>1. Level(queued[k]) = j.new BY <2>1, <3>1 DEF j
      <4>2. j.new \in Nat BY <1>9, <2>1
      <4> QED BY <4>1, <4>2
    <3>2. CASE k # 1 BY <1>2, <1>3, <1>8, <2>1, <3>2 DEF LinedUp, j
    <3> QED BY <3>1, <3>2
  <2>6. Level(queued[k]) = bound + 1 BY <2>4 DEF Level, IsBoundary
  <2>7. j.new \in Nat /\ bound \in Nat BY <1>9, <2>1
  <2> QED BY <2>1, <2>5, <2>6, <2>7
<1>11. j.kind = "sync" => j.sid = bound
  <2> SUFFICES ASSUME j.kind = "sync" PROVE j.sid = bound OBVIOUS
  <2>1. Level(j) = j.sid /\ bound <= j.sid /\ j.sid \in SessionIds
    BY <1>2, <1>8, <1>9 DEF LinedUp, Level, j
  <2>2. ~(bound < j.sid)
    BY <1>2, <1>3, <1>8, <1>9, Lists DEF LinedUp, IsBoundary, j
  <2>3. j.sid \in Nat /\ bound \in Nat BY <1>9, <2>1
  <2> QED BY <2>1, <2>2, <2>3
<1>12. /\ Base' = IF j.kind = "boundary" THEN bound + 1 ELSE bound
       /\ Base' <= Level(j) /\ Level(j) = Base' /\ Level(j) <= kernelSid
  BY <1>1, <1>2, <1>k, <1>8, <1>9, <1>10, <1>11 DEF Base, Level, LinedUp, j
<1>13. Level(queued[1]) = Base' BY <1>12 DEF j
<1>14. Base' \in Nat /\ bound <= Base' BY <1>9, <1>12
<1>15. LinedUp'
  <2>1. \A i \in DOMAIN queued' :
          Base' <= Level(queued'[i]) /\ Level(queued'[i]) <= kernelSid
    BY <1>2, <1>8, <1>13 DEF LinedUp
  <2>2. \A i, k \in DOMAIN queued' : i < k => Level(queued'[i]) <= Level(queued'[k])
    BY <1>2, <1>8 DEF LinedUp
  <2>3. \A k \in DOMAIN queued' : IsBoundary(queued'[k]) => Base' < queued'[k].new
    BY <1>2, <1>8, <1>13 DEF LinedUp
  <2>4. \A i, k \in DOMAIN queued' : IsBoundary(queued'[k]) /\ i < k =>
          Level(queued'[i]) < queued'[k].new
    BY <1>2, <1>8 DEF LinedUp
  <2>5. IsBoundary(queued[1]) => queued[1].new = Base'
    BY <1>13 DEF Level, IsBoundary
  <2>6. \A l \in SessionIds : Base' < l /\ l <= kernelSid =>
          \E k \in DOMAIN queued' : IsBoundary(queued'[k]) /\ queued'[k].new = l
    <3> SUFFICES ASSUME NEW l \in SessionIds, Base' < l, l <= kernelSid
                 PROVE  \E k \in DOMAIN queued' :
                          IsBoundary(queued'[k]) /\ queued'[k].new = l
      OBVIOUS
    <3>1. Base < l BY <1>9, <1>14
    <3>2. PICK k \in DOMAIN queued : IsBoundary(queued[k]) /\ queued[k].new = l
      BY <1>8, <3>1 DEF LinedUp
    <3>3. k # 1 BY <1>9, <1>14, <2>5, <3>2
    <3> QED BY <1>2, <3>2, <3>3
  <2>7. \A i \in DOMAIN queued' : ~IsBoundary(queued'[i]) /\ Base' < queued'[i].sid =>
          \E k \in DOMAIN queued' :
            k < i /\ IsBoundary(queued'[k]) /\ queued'[k].new = queued'[i].sid
    <3> SUFFICES ASSUME NEW i \in DOMAIN queued', ~IsBoundary(queued'[i]),
                        Base' < queued'[i].sid
                 PROVE  \E k \in DOMAIN queued' :
                          k < i /\ IsBoundary(queued'[k])
                            /\ queued'[k].new = queued'[i].sid
      OBVIOUS
    <3>1. queued'[i] = queued[i + 1] /\ i + 1 \in DOMAIN queued /\ i \in Nat BY <1>2
    <3>2. queued[i + 1].sid \in SessionIds
      <4>1. Level(queued[i + 1]) = queued[i + 1].sid
        BY <3>1, Kinds DEF Level, IsBoundary
      <4> QED BY <1>9, <3>1, <4>1
    <3>3. Base < queued[i + 1].sid
      <4>1. bound \in Nat /\ queued[i + 1].sid \in Nat /\ Base' < queued[i + 1].sid
        BY <1>9, <3>1, <3>2
      <4> QED BY <1>9, <1>14, <4>1
    <3>4. PICK k \in DOMAIN queued :
            k < i + 1 /\ IsBoundary(queued[k]) /\ queued[k].new = queued[i + 1].sid
      BY <1>8, <3>1, <3>3 DEF LinedUp
    <3>5. k # 1 BY <1>9, <1>14, <2>5, <3>1, <3>2, <3>4
    <3>6. k - 1 \in DOMAIN queued' /\ queued'[k - 1] = queued[k] /\ k - 1 < i
      BY <1>2, <3>1, <3>4, <3>5
    <3> QED BY <3>1, <3>4, <3>6
  <2>8. closer # "none" => ~BoundaryIsPending'
    <3>1. j.kind # "popping" /\ (j.kind = "boundary" => BoundaryIsPending)
      BY <1>2, <1>k DEF BoundaryIsPending, j
    <3>2. (\E i \in DOMAIN queued' : queued'[i].kind = "boundary") => BoundaryIsPending
      BY <1>2 DEF BoundaryIsPending
    <3>3. BoundaryIsPending' => BoundaryIsPending
      BY <1>1, <3>1, <3>2 DEF BoundaryIsPending
    <3> QED BY <1>8, <3>3 DEF LinedUp
  <2>9. sid = bound /\ Base' <= kernelSid BY <1>8, <1>12 DEF LinedUp
  <2> QED
    BY <1>1, <1>k, <1>10, <1>11, <2>1, <2>2, <2>3, <2>4, <2>6, <2>7, <2>8, <2>9
       DEF LinedUp
<1>16. Handed'
  <2>1. Handing' = Handing BY <1>1, <1>k DEF Handing
  <2> QED BY <1>1, <1>8, <2>1 DEF Handed
<1> QED BY <1>15, <1>16

(* The turn taught is newer than every turn taught before.                 *)
LEMMA SyncTurnFits == ASSUME SyncInv, SyncTurn PROVE SyncInv'
<1> USE DEF host
<1>1. /\ doing.kind = "sync" /\ doing \in SyncJobs /\ taught' = Append(taught, doing.turn)
      /\ doing' = Idle
      /\ UNCHANGED <<sid, completedMsgs, queued, bound, provider, handed, host>>
      /\ doing.turn \in 1 .. Turns
  BY Kinds DEF SyncTurn, SyncJobs
<1>2. /\ taught' \in Seq(1 .. Turns) /\ ToSet(taught') = ToSet(taught) \cup {doing.turn}
      /\ DOMAIN taught' = DOMAIN taught \cup {Len(taught) + 1}
      /\ taught'[Len(taught) + 1] = doing.turn
      /\ \A i \in DOMAIN taught : taught'[i] = taught[i] /\ i < Len(taught) + 1
      /\ Len(taught) \in Nat
  <2>1. taught \in Seq(1 .. Turns) BY DEF SyncInv, SyncTables
  <2> DEFINE t == doing.turn
  <2>2. t \in 1 .. Turns BY <1>1
  <2> HIDE DEF t
  <2>3. /\ Append(taught, t) \in Seq(1 .. Turns)
        /\ DOMAIN Append(taught, t) = 1 .. (Len(taught) + 1)
        /\ DOMAIN taught = 1 .. Len(taught) /\ Len(taught) \in Nat
        /\ (\A i \in DOMAIN taught : Append(taught, t)[i] = taught[i])
             /\ Append(taught, t)[Len(taught) + 1] = t
    BY <2>1, <2>2
  <2>4. DOMAIN Append(taught, t) = DOMAIN taught \cup {Len(taught) + 1} BY <2>3
  <2>5. ToSet(Append(taught, t)) = ToSet(taught) \cup {t} BY <2>3, <2>4 DEF ToSet
  <2>6. \A i \in DOMAIN taught : i < Len(taught) + 1 BY <2>3
  <2> QED BY <1>1, <2>3, <2>4, <2>5, <2>6 DEF t
<1>3. doing'.kind = "none" BY <1>1 DEF Idle
<1>4. SyncTables' BY <1>1, <1>2 DEF SyncInv, SyncTables
<1>5. JobsFit' BY <1>1, <1>3 DEF SyncInv, JobsFit, Named
<1>6. TaughtOnce'
  <2>1. InWork = {doing.turn} /\ InWork' = {} /\ Syncs' = Syncs
    BY <1>1, <1>3 DEF InWork, Syncs
  <2>2. Accepted' = Accepted BY <1>1, <1>2, <2>1 DEF Accepted
  <2>3. \A n \in ToSet(taught) : n < doing.turn
    BY <2>1 DEF SyncInv, TaughtOnce, OldestFirst
  <2>4. \A i \in DOMAIN taught : taught[i] \in ToSet(taught) BY DEF ToSet
  <2>5. \A i, k \in DOMAIN taught' : i < k => taught'[i] < taught'[k]
    <3> SUFFICES ASSUME NEW i \in DOMAIN taught', NEW k \in DOMAIN taught', i < k
                 PROVE  taught'[i] < taught'[k]
      OBVIOUS
    <3>1. i \in DOMAIN taught
      <4>1. ~(Len(taught) + 1 < k)
        <5>1. k \in DOMAIN taught => k < Len(taught) + 1 /\ k \in Nat BY <1>2, Lists
        <5> QED BY <1>2, <5>1
      <4> QED BY <1>2, <4>1
    <3>2. CASE k \in DOMAIN taught
      BY <1>2, <3>1, <3>2 DEF SyncInv, TaughtOnce, OldestFirst
    <3>3. CASE k = Len(taught) + 1 BY <1>2, <2>3, <2>4, <3>1, <3>3
    <3> QED BY <1>2, <3>2, <3>3
  <2>6. OldestFirst'
    <3>1. \A n \in ToSet(taught') : \A i \in Syncs : n < queued[i].turn
      BY <1>2, <2>1 DEF SyncInv, TaughtOnce, OldestFirst
    <3>2. \A i, k \in Syncs : i < k => queued[i].turn < queued[k].turn
      BY DEF SyncInv, TaughtOnce, OldestFirst
    <3> QED BY <1>1, <2>1, <2>5, <3>1, <3>2 DEF OldestFirst
  <2> QED BY <1>1, <2>2, <2>6 DEF SyncInv, TaughtOnce
<1>7. ClosedIsLast' BY <1>1 DEF SyncInv, ClosedIsLast
<1> SUFFICES ASSUME ~overtaken PROVE LinedUp' /\ Handed'
  BY <1>1, <1>4, <1>5, <1>6, <1>7 DEF SyncInv, LevelsFit, HandsFit
<1>8. LinedUp /\ Handed BY DEF SyncInv, LevelsFit, HandsFit
<1>9. Base = bound /\ Base' = bound /\ (BoundaryIsPending' => BoundaryIsPending)
        /\ Handing' = Handing
  BY <1>1, <1>3 DEF Base, BoundaryIsPending, Handing
<1>10. LinedUp' BY <1>1, <1>3, <1>8, <1>9 DEF LinedUp, Level, IsBoundary
<1>11. Handed' BY <1>1, <1>8, <1>9 DEF Handed
<1> QED BY <1>10, <1>11

(* At a boundary the provider is handed the list of the session that ends. *)
LEMMA BoundaryEndsFits == ASSUME SyncInv, BoundaryEnds PROVE SyncInv'
<1> USE DEF host
<1> DEFINE p == [kind |-> "popping", new |-> doing.new, ended |-> sid]
<1>1. /\ doing.kind = "boundary" /\ doing \in BoundaryJobs /\ Hand(completedMsgs[sid])
      /\ doing' = p
      /\ UNCHANGED <<sid, completedMsgs, queued, bound, provider, taught, host>>
      /\ sid \in SessionIds /\ doing.new \in SessionIds
  BY Kinds DEF BoundaryEnds, BoundaryJobs, SyncInv, SyncTables
<1>2. p \in Poppings /\ p.kind = "popping" /\ p.new = doing.new /\ p.ended = sid
  BY <1>1 DEF Poppings
<1> HIDE DEF p
<1>3. /\ handed' \in [1 .. Turns -> Nat]
      /\ \A n \in 1 .. Turns :
           handed'[n] = IF n \in ToSet(completedMsgs[sid]) THEN handed[n] + 1 ELSE handed[n]
  BY <1>1, HandingAdds
<1>4. SyncTables'
  <2>1. \A n \in 1 .. Turns : n \notin DOMAIN turnsDone => handed'[n] = 0
    <3>1. \A n \in ToSet(completedMsgs[sid]) : n \in DOMAIN turnsDone
      BY <1>1 DEF SyncInv, SyncTables
    <3> QED BY <1>3, <3>1 DEF SyncInv, SyncTables
  <2> QED BY <1>1, <1>2, <1>3, <2>1 DEF SyncInv, SyncTables
<1>5. JobsFit' BY <1>1, <1>2 DEF SyncInv, JobsFit, Named
<1>6. TaughtOnce' BY <1>1, <1>2, TaughtStays DEF SyncInv, InWork
<1>7. ClosedIsLast'
  <2>1. doing # Idle BY <1>1 DEF Idle
  <2> QED BY <1>1, <2>1 DEF SyncInv, ClosedIsLast
<1> SUFFICES ASSUME ~overtaken PROVE LinedUp' /\ Handed'
  BY <1>1, <1>4, <1>5, <1>6, <1>7 DEF SyncInv, LevelsFit, HandsFit
<1>8. LinedUp /\ Handed BY DEF SyncInv, LevelsFit, HandsFit
<1>9. Base = doing.new /\ Base' = doing.new /\ BoundaryIsPending /\ closer = "none"
  BY <1>1, <1>2, <1>8 DEF Base, BoundaryIsPending, LinedUp
<1>10. LinedUp' BY <1>1, <1>2, <1>8, <1>9 DEF LinedUp, Level, IsBoundary
<1>11. Handed'
  <2>1. ~Handing /\ Handing' BY <1>1, <1>2, <1>9 DEF Handing
  <2>2. \A s \in SessionIds : \A n \in ToSet(completedMsgs[s]) :
          n \in 1 .. Turns /\ turnsDone[n].sid = s /\ handed[n] = 0
    BY <1>8, <2>1, Lists DEF Handed, SyncInv, SyncTables
  <2>3. \A n \in DOMAIN turnsDone : n \in 1 .. Turns /\ handed[n] \in Nat
    BY Lists DEF SyncInv, SyncTables
  <2>4. \A n \in DOMAIN turnsDone : handed'[n] <= 1
    BY <1>1, <1>3, <1>8, <2>2, <2>3 DEF Handed
  <2>5. \A s \in SessionIds : \A n \in ToSet(completedMsgs[s]) :
          handed'[n] = IF s = sid THEN 1 ELSE 0
    <3> SUFFICES ASSUME NEW s \in SessionIds, NEW n \in ToSet(completedMsgs[s])
                 PROVE  handed'[n] = IF s = sid THEN 1 ELSE 0
      OBVIOUS
    <3>1. n \in 1 .. Turns /\ handed[n] = 0 /\ turnsDone[n].sid = s BY <2>2
    <3>2. n \in ToSet(completedMsgs[sid]) <=> s = sid BY <1>1, <2>2, <3>1
    <3> QED BY <1>3, <3>1, <3>2
  <2>6. \A n \in DOMAIN turnsDone : turnsDone[n].completed =>
          n \in ToSet(completedMsgs[turnsDone[n].sid]) \/ handed'[n] = 1 \/ n \in rewound
    <3> SUFFICES ASSUME NEW n \in DOMAIN turnsDone, turnsDone[n].completed,
                        n \notin ToSet(completedMsgs[turnsDone[n].sid]), n \notin rewound
                 PROVE  handed'[n] = 1
      OBVIOUS
    <3>1. handed[n] = 1 BY <1>8 DEF Handed
    <3>2. n \notin ToSet(completedMsgs[sid]) BY <1>1, <2>2, <3>1
    <3> QED BY <1>3, <2>3, <3>1, <3>2
  <2> QED BY <1>1, <1>8, <2>1, <2>4, <2>5, <2>6 DEF Handed
<1> QED BY <1>10, <1>11

(* Then the list is emptied, and the worker is in the new session.         *)
LEMMA BoundarySwitchesFits == ASSUME SyncInv, BoundarySwitches PROVE SyncInv'
<1> USE DEF host
<1>1. /\ doing.kind = "popping" /\ doing \in Poppings /\ doing' = Idle
      /\ doing.new \in SessionIds /\ doing.ended \in SessionIds
      /\ completedMsgs' = [completedMsgs EXCEPT ![doing.ended] = <<>>]
      /\ sid' = doing.new /\ bound' = doing.new
      /\ UNCHANGED <<queued, provider, taught, handed, host>>
  BY Kinds DEF BoundarySwitches, Poppings
<1>2. /\ completedMsgs' \in [SessionIds -> Seq(1 .. Turns)]
      /\ ToSet(completedMsgs'[doing.ended]) = {}
      /\ \A d \in SessionIds : d # doing.ended =>
           ToSet(completedMsgs'[d]) = ToSet(completedMsgs[d])
  BY <1>1, Emptied
<1>3. doing'.kind = "none" BY <1>1 DEF Idle
<1>4. SyncTables'
  <2>1. \A s \in SessionIds : \A n \in ToSet(completedMsgs'[s]) :
          n \in DOMAIN turnsDone' /\ turnsDone'[n].sid = s /\ turnsDone'[n].completed
    <3>1. \A s \in SessionIds : \A n \in ToSet(completedMsgs'[s]) :
            n \in ToSet(completedMsgs[s])
      BY <1>2
    <3> QED BY <1>1, <3>1 DEF SyncInv, SyncTables
  <2>2. SyncTables BY DEF SyncInv
  <2>3. {kernelSid', sid', bound'} \subseteq SessionIds /\ doing' \in {Idle}
    BY <1>1, <2>2 DEF SyncTables
  <2>4. /\ queued' \in Seq(Deliveries) /\ turnsDone' \in Seq(Ended) /\ Len(turnsDone') <= Turns
        /\ taught' \in Seq(1 .. Turns) /\ handed' \in [1 .. Turns -> Nat]
        /\ {shutdown', overtaken'} \subseteq BOOLEAN
        /\ closer' \in Closing /\ provider' \in {"open", "closed"}
    BY <1>1, <2>2 DEF SyncTables
  <2>5. /\ shutdown' => closer' \in {"draining", "closed"}
        /\ provider' = "closed" => shutdown'
        /\ \A n \in 1 .. Turns : n \notin DOMAIN turnsDone' => handed'[n] = 0
    BY <1>1, <2>2 DEF SyncTables
  <2> QED BY <1>2, <2>1, <2>3, <2>4, <2>5 DEF SyncTables
<1>5. JobsFit' BY <1>1, <1>3 DEF SyncInv, JobsFit, Named
<1>6. TaughtOnce' BY <1>1, <1>3, TaughtStays DEF SyncInv, InWork
<1>7. ClosedIsLast' BY <1>1 DEF SyncInv, ClosedIsLast
<1> SUFFICES ASSUME ~overtaken PROVE LinedUp' /\ Handed'
  BY <1>1, <1>4, <1>5, <1>6, <1>7 DEF SyncInv, LevelsFit, HandsFit
<1>8. LinedUp /\ Handed BY DEF SyncInv, LevelsFit, HandsFit
<1>9. /\ Base = doing.new /\ Base' = doing.new /\ BoundaryIsPending /\ closer = "none"
      /\ doing.new = bound + 1 /\ doing.ended = bound /\ sid = bound
      /\ bound \in SessionIds
  BY <1>1, <1>3, <1>8 DEF Base, BoundaryIsPending, LinedUp, SyncInv, SyncTables
<1>10. LinedUp' BY <1>1, <1>3, <1>8, <1>9 DEF LinedUp, Level, IsBoundary
<1>11. Handed'
  <2>1. Handing /\ ~Handing' BY <1>1, <1>3, <1>9 DEF Handing
  <2>2. \A s \in SessionIds : \A n \in ToSet(completedMsgs'[s]) :
          s # bound /\ n \in ToSet(completedMsgs[s])
    BY <1>2, <1>9
  <2>3. \A s \in SessionIds : \A n \in ToSet(completedMsgs'[s]) : handed[n] = 0
    BY <1>8, <1>9, <2>2 DEF Handed
  <2>4. \A n \in DOMAIN turnsDone : turnsDone[n].completed =>
          n \in ToSet(completedMsgs'[turnsDone[n].sid]) \/ handed[n] = 1 \/ n \in rewound
    <3> SUFFICES ASSUME NEW n \in DOMAIN turnsDone, turnsDone[n].completed
                 PROVE  n \in ToSet(completedMsgs'[turnsDone[n].sid]) \/ handed[n] = 1
                          \/ n \in rewound
      OBVIOUS
    <3>1. turnsDone[n].sid \in SessionIds BY Lists DEF Ended
    <3>2. CASE turnsDone[n].sid = bound BY <1>8, <1>9, <2>1, <3>2 DEF Handed
    <3>3. CASE turnsDone[n].sid # bound BY <1>2, <1>8, <1>9, <3>1, <3>3 DEF Handed
    <3> QED BY <3>2, <3>3
  <2>5. \A s \in SessionIds : s < bound' => ToSet(completedMsgs'[s]) = {}
    <3> SUFFICES ASSUME NEW s \in SessionIds, s < bound + 1
                 PROVE  ToSet(completedMsgs'[s]) = {}
      BY <1>1, <1>9
    <3>1. s = bound \/ s < bound
      <4>1. s \in Nat /\ bound \in Nat BY <1>9, Lists
      <4> QED BY <4>1
    <3> QED BY <1>2, <1>8, <1>9, <3>1 DEF Handed
  <2> QED BY <1>1, <1>8, <2>1, <2>3, <2>4, <2>5 DEF Handed
<1> QED BY <1>10, <1>11

-----------------------------------------------------------------------------
(* A provider starts in the first session with an empty queue.             *)
THEOREM SyncStarts == SyncInit => SyncInv
<1> SUFFICES ASSUME SyncInit PROVE SyncInv OBVIOUS
<1>1. /\ kernelSid = 1 /\ sid = 1 /\ bound = 1 /\ 1 \in SessionIds
      /\ completedMsgs = [s \in SessionIds |-> <<>>] /\ queued = <<>> /\ doing = Idle
      /\ shutdown = FALSE /\ closer = "none" /\ provider = "open" /\ overtaken = FALSE
      /\ turnsDone = <<>> /\ taught = <<>> /\ handed = [n \in 1 .. Turns |-> 0]
  BY SyncAssumption DEF SyncInit, SessionIds
<1>2. ToSet(<<>>) = {} /\ DOMAIN <<>> = {} BY DEF ToSet
<1>3. SyncTables
  <2>1. Len(turnsDone) <= Turns /\ Len(turnsDone) = 0 BY <1>1, SyncAssumption
  <2>2. completedMsgs \in [SessionIds -> Seq(1 .. Turns)]
          /\ handed \in [1 .. Turns -> Nat]
    BY <1>1
  <2>3. \A s \in SessionIds : ToSet(completedMsgs[s]) = {} BY <1>1, <1>2
  <2>4. \A n \in 1 .. Turns : handed[n] = 0 BY <1>1
  <2>5. queued \in Seq(Deliveries) /\ turnsDone \in Seq(Ended)
          /\ taught \in Seq(1 .. Turns)
    BY <1>1
  <2> HIDE DEF SyncInit
  <2>6. {shutdown, overtaken} \subseteq BOOLEAN
          /\ (shutdown => closer \in {"draining", "closed"})
    BY <1>1
  <2> QED BY <1>1, <2>1, <2>2, <2>3, <2>4, <2>5, <2>6 DEF SyncTables, Closing
<1>4. JobsFit BY <1>1 DEF JobsFit, Named, Idle
<1>5. TaughtOnce
  <2>1. InWork = {} /\ Syncs = {} /\ ToSet(taught) = {}
    BY <1>1, <1>2 DEF InWork, Idle, Syncs
  <2> QED BY <1>1, <1>2, <2>1 DEF TaughtOnce, Accepted, OldestFirst
<1>6. ClosedIsLast BY <1>1 DEF ClosedIsLast
<1>7. LinedUp
  <2>1. Base = 1 /\ ~BoundaryIsPending /\ doing.kind = "none"
    BY <1>1, <1>2 DEF Base, BoundaryIsPending, Idle
  <2>2. \A l \in SessionIds : ~(1 < l /\ l <= 1) BY DEF SessionIds
  <2> QED BY <1>1, <1>2, <2>1, <2>2 DEF LinedUp
<1>8. Handed
  <2>1. \A s \in SessionIds : ToSet(completedMsgs[s]) = {} BY <1>1, <1>2
  <2> QED BY <1>1, <1>2, <2>1 DEF Handed
<1> QED BY <1>3, <1>4, <1>5, <1>6, <1>7, <1>8 DEF SyncInv, LevelsFit, HandsFit

(* No step of host or worker breaks the invariant of the queue.            *)
THEOREM SyncStep == SyncInv /\ [SyncNext]_syncs => SyncInv'
<1> SUFFICES ASSUME SyncInv, [SyncNext]_syncs PROVE SyncInv' OBVIOUS
<1>1. ASSUME NEW learned \in BOOLEAN, EndTurn(learned) PROVE SyncInv' BY <1>1, EndTurnFits
<1>2. CASE FoldRebinds BY <1>2, FoldFits
<1>3. CASE NewSession BY <1>3, NewSessionFits
<1>4. CASE CloseEnds \/ CloseFlushes \/ FlushReturns \/ ShutdownAll \/ CloseGoesOn
  BY <1>4, CloseFits
<1>5. CASE DrainThenClose BY <1>5, DrainFits
<1>6. CASE WorkerTakes BY <1>6, TakesFits
<1>7. CASE SyncTurn BY <1>7, SyncTurnFits
<1>8. CASE BoundaryEnds BY <1>8, BoundaryEndsFits
<1>9. CASE BoundarySwitches BY <1>9, BoundarySwitchesFits
<1>10. CASE UNCHANGED syncs
  <2>1. SyncTables' /\ JobsFit' /\ ClosedIsLast'
    BY <1>10 DEF syncs, SyncInv, SyncTables, JobsFit, Named, ClosedIsLast
  <2>2. TaughtOnce' BY <1>10, TaughtStays DEF syncs, SyncInv, InWork
  <2>3. LevelsFit'
    BY <1>10 DEF syncs, SyncInv, LevelsFit, LinedUp, Base, Level, IsBoundary,
       BoundaryIsPending
  <2>4. HandsFit' BY <1>10 DEF syncs, SyncInv, HandsFit, Handed, Handing
  <2> QED BY <2>1, <2>2, <2>3, <2>4 DEF SyncInv
<1> QED BY <1>1, <1>2, <1>3, <1>4, <1>5, <1>6, <1>7, <1>8, <1>9, <1>10 DEF SyncNext

-----------------------------------------------------------------------------
(* The archive of sessions *)

(* Where a process is, and when it has a turn.                             *)
At(p) == proc[p].at
Working == {"first", "second", "ending", "saving", "marking"}
(* The places of a process, what it holds, a turn and a row.               *)
Where == {"off", "claimed", "idle"} \cup Working
Attachment == [at : Where, id : Ids \cup {Off.id}, turn : TurnIds \cup {NoTurn}]
Turned == [id : Ids, cwd : {Workspace[p] : p \in Procs},
           ended : {"running", "completed", "failed"}]
Row == [turn : TurnIds, part : {1, 2}]

(* The types of the tables and of the processes.                           *)
Tables ==
    /\ owner \in [Ids -> {Nowhere} \cup {Workspace[p] : p \in Procs}]
    /\ rows \in Seq(Row)
    /\ outcome \in [TurnIds -> {"pending", "completed", "failed"}]
    /\ proc \in [Procs -> Attachment]
    /\ DOMAIN window = Procs /\ DOMAIN last = Ids
    /\ turnOf \in Seq(Turned) /\ Len(turnOf) <= Cardinality(TurnIds)
    /\ alone \in [Ids -> BOOLEAN]

(* An attached process is in the workspace that owns its session, and the  *)
(* turn it works on is its own and of that session.                        *)
ProcsFit ==
    \A p \in Procs :
        /\ At(p) # "off" => proc[p].id \in Ids /\ owner[proc[p].id] = Workspace[p]
        /\ At(p) \in Working =>
             proc[p].turn \in DOMAIN turnOf /\ turnOf[proc[p].turn].id = proc[p].id
        /\ At(p) \in {"first", "second", "ending"} =>
             turnOf[proc[p].turn].ended = "running"
        /\ At(p) \in {"saving", "marking"} => turnOf[proc[p].turn].ended # "running"
        /\ \A q \in Procs :
             At(p) \in Working /\ At(q) \in Working /\ proc[p].turn = proc[q].turn =>
               p = q

(* A row belongs to a turn that began, which ran in the workspace of its   *)
(* session; a row says "completed" of a turn that did.                     *)
RowsFit ==
    /\ \A t \in DOMAIN turnOf :
         /\ owner[turnOf[t].id] = turnOf[t].cwd
         /\ outcome[t] = "completed" => turnOf[t].ended = "completed"
    /\ \A t \in TurnIds : t \notin DOMAIN turnOf => outcome[t] = "pending"
    /\ \A r \in ToSet(rows) : r.turn \in DOMAIN turnOf

(* A session that was never attached twice at a time is in one process,    *)
(* whose window is the snapshot but while the turn has it in hand.         *)
WindowsFit ==
    /\ \A p, q \in Procs :
         At(p) # "off" /\ At(q) # "off" /\ proc[p].id = proc[q].id
           /\ alone[proc[p].id] => p = q
    /\ snapshot = last
    /\ \A p \in Procs :
         At(p) \in {"idle", "first", "second", "ending", "marking"} /\ alone[proc[p].id]
           /\ last[proc[p].id] # <<>> => window[p] = last[proc[p].id]

ArchiveInv == Tables /\ ProcsFit /\ RowsFit /\ WindowsFit

-----------------------------------------------------------------------------
(* One step of a process *)

(* The invariant says all that ArchiveIsRight does.                        *)
LEMMA ArchiveIsEnough == ASSUME ArchiveInv PROVE ArchiveIsRight
<1>0. \A p \in Procs : proc[p] \in Attachment BY DEF ArchiveInv, Tables
<1>1. ArchiveTypeOK
  BY <1>0 DEF ArchiveInv, Tables, RowsFit, ArchiveTypeOK, Attachment, Where, Working
<1>2. RecallIsEarned BY DEF ArchiveInv, RowsFit, RecallIsEarned, Recalled
<1>3. ResumeIsExact BY DEF ArchiveInv, WindowsFit, ResumeIsExact, At
<1>4. OwnWorkspace BY DEF ArchiveInv, ProcsFit, OwnWorkspace, At
<1> QED BY <1>1, <1>2, <1>3, <1>4 DEF ArchiveIsRight

(* A process that goes on keeps its session and its turn.                  *)
LEMMA Moves ==
    ASSUME Tables, NEW p \in Procs, NEW step \in Where, Goes(p, step)
    PROVE  /\ proc' \in [Procs -> Attachment]
           /\ proc'[p].at = step /\ proc'[p].id = proc[p].id
           /\ proc'[p].turn = proc[p].turn
           /\ \A q \in Procs : q # p => proc'[q] = proc[q]
<1>1. proc \in [Procs -> Attachment] /\ proc[p] \in Attachment BY DEF Tables
<1>2. proc' = [proc EXCEPT ![p] = [proc[p] EXCEPT !.at = step]] BY DEF Goes
<1>3. [proc[p] EXCEPT !.at = step] \in Attachment BY <1>1 DEF Attachment
<1> QED BY <1>1, <1>2, <1>3 DEF Attachment

(* The turns that began, and what a process holds.                         *)
LEMMA Ranges ==
    ASSUME ArchiveInv
    PROVE  /\ DOMAIN turnOf = 1 .. Len(turnOf) /\ Len(turnOf) \in Nat
           /\ DOMAIN turnOf \subseteq TurnIds /\ NoTurn \notin TurnIds
           /\ \A t \in DOMAIN turnOf : turnOf[t] \in Turned
           /\ \A p \in Procs : proc[p] \in Attachment
BY ArchiveAssumption DEF ArchiveInv, Tables, NoTurn

(* A claim is of a session nobody owns, or of one of the same workspace.   *)
LEMMA ClaimFits ==
    ASSUME ArchiveInv, NEW p \in Procs, NEW s \in Ids, Claim(p, s)
    PROVE  ArchiveInv'
<1> DEFINE x == [at |-> "claimed", id |-> s, turn |-> NoTurn]
<1>1. x \in Attachment /\ x.at = "claimed" /\ x.id = s /\ x.turn = NoTurn
  BY DEF Attachment, Where
<1> HIDE DEF x
<1>2. /\ proc[p].at = "off" /\ owner[s] \in {Nowhere, Workspace[p]}
      /\ owner' = [owner EXCEPT ![s] = Workspace[p]] /\ proc' = [proc EXCEPT ![p] = x]
      /\ alone' = [alone EXCEPT ![s] = alone[s] /\ Attached(s) = {}]
      /\ UNCHANGED <<rows, outcome, snapshot, window, failing, turnOf, last>>
  BY DEF Claim, x
<1>3. /\ proc'[p] = x /\ \A q \in Procs : q # p => proc'[q] = proc[q]
      /\ owner'[s] = Workspace[p] /\ \A i \in Ids : i # s => owner'[i] = owner[i]
      /\ \A i \in Ids : alone'[i] => alone[i]
      /\ alone'[s] => Attached(s) = {}
  BY <1>2 DEF ArchiveInv, Tables
<1>4. Tables' BY <1>1, <1>2 DEF ArchiveInv, Tables
<1>5. \A i \in Ids : owner[i] # Nowhere => owner'[i] = owner[i] BY <1>2, <1>3
<1>6. \A q \in Procs : Workspace[q] # Nowhere BY ArchiveAssumption
<1>7. ProcsFit'
  BY <1>1, <1>2, <1>3, <1>5, <1>6 DEF ArchiveInv, ProcsFit, At, Working
<1>8. RowsFit'
  <2>1. \A t \in DOMAIN turnOf : turnOf[t].id \in Ids /\ turnOf[t].cwd # Nowhere
    BY <1>6, Ranges DEF Turned
  <2> QED BY <1>2, <1>5, <2>1 DEF ArchiveInv, RowsFit, ToSet
<1>9. WindowsFit'
  <2>1. \A q \in Procs : proc[q].at # "off" => proc[q].id \in Ids
    BY DEF ArchiveInv, ProcsFit, At
  <2>2. alone'[s] => \A q \in Procs : proc[q].at # "off" => proc[q].id # s
    BY <1>3 DEF Attached
  <2> QED BY <1>1, <1>2, <1>3, <2>1, <2>2 DEF ArchiveInv, WindowsFit, At
<1> QED BY <1>4, <1>7, <1>8, <1>9 DEF ArchiveInv

(* The window of a claimed session is its snapshot, when it has one.       *)
LEMMA HydrateFits == ASSUME ArchiveInv, NEW p \in Procs, Hydrate(p) PROVE ArchiveInv'
<1>1. /\ proc[p].at = "claimed" /\ Goes(p, "idle")
      /\ UNCHANGED <<db, failing, turnOf, alone, last>>
      /\ DOMAIN window' = DOMAIN window
      /\ \A q \in Procs : q # p => window'[q] = window[q]
      /\ snapshot[proc[p].id] # <<>> => window'[p] = snapshot[proc[p].id]
  BY DEF Hydrate, ArchiveInv, Tables
<1>2. /\ proc' \in [Procs -> Attachment]
      /\ proc'[p].at = "idle" /\ proc'[p].id = proc[p].id /\ proc'[p].turn = proc[p].turn
      /\ \A q \in Procs : q # p => proc'[q] = proc[q]
  BY <1>1, Moves DEF ArchiveInv, Where
<1> USE DEF db
<1>3. Tables' BY <1>1, <1>2 DEF ArchiveInv, Tables
<1>4. ProcsFit' BY <1>1, <1>2 DEF ArchiveInv, ProcsFit, At, Working
<1>5. RowsFit' BY <1>1 DEF ArchiveInv, RowsFit, ToSet
<1>6. WindowsFit' BY <1>1, <1>2 DEF ArchiveInv, WindowsFit, At
<1> QED BY <1>3, <1>4, <1>5, <1>6 DEF ArchiveInv

(* A process that quits or is killed leaves the tables as they are.        *)
LEMMA LeaveFits ==
    ASSUME ArchiveInv, NEW p \in Procs, Quit(p) \/ Killed(p)
    PROVE  ArchiveInv'
<1>1. Off \in Attachment /\ Off.at = "off"
  <2>1. Off.id \in {Off.id} /\ NoTurn \in TurnIds \cup {NoTurn} OBVIOUS
  <2> DEFINE i == CHOOSE k \in Ids : TRUE
  <2>2. Off = [at |-> "off", id |-> i, turn |-> NoTurn] BY DEF Off
  <2> HIDE DEF i
  <2> QED BY <2>1, <2>2 DEF Attachment, Where
<1>2. /\ proc' = [proc EXCEPT ![p] = Off] /\ window' = [window EXCEPT ![p] = <<>>]
      /\ UNCHANGED <<db, turnOf, alone, last>>
  BY DEF Quit, Killed
<1>3. proc'[p] = Off
        /\ (\A q \in Procs : q # p => proc'[q] = proc[q] /\ window'[q] = window[q])
  BY <1>2 DEF ArchiveInv, Tables
<1> USE DEF db
<1>4. Tables' BY <1>1, <1>2 DEF ArchiveInv, Tables
<1>5. ProcsFit' BY <1>1, <1>2, <1>3 DEF ArchiveInv, ProcsFit, At, Working
<1>6. RowsFit' BY <1>2 DEF ArchiveInv, RowsFit, ToSet
<1>7. WindowsFit' BY <1>1, <1>2, <1>3 DEF ArchiveInv, WindowsFit, At
<1> QED BY <1>4, <1>5, <1>6, <1>7 DEF ArchiveInv

(* The next turn is of the session the process is attached to.             *)
LEMMA BeginFits == ASSUME ArchiveInv, NEW p \in Procs, BeginTurn(p) PROVE ArchiveInv'
<1> DEFINE n == Len(turnOf) + 1
           e == [id |-> proc[p].id, cwd |-> Workspace[p], ended |-> "running"]
<1>1. /\ proc[p].at = "idle" /\ Len(turnOf) < Cardinality(TurnIds)
      /\ turnOf' = Append(turnOf, e)
      /\ proc' = [proc EXCEPT ![p].at = "first", ![p].turn = Len(turnOf')]
      /\ UNCHANGED <<db, window, failing, alone, last>>
  BY DEF BeginTurn
<1>2. e \in Turned /\ e.id = proc[p].id /\ e.cwd = Workspace[p] /\ e.ended = "running"
      /\ owner[e.id] = e.cwd
  BY <1>1 DEF ArchiveInv, ProcsFit, At, Turned
<1> HIDE DEF e
<1>3. /\ turnOf' \in Seq(Turned) /\ Len(turnOf') = n /\ DOMAIN turnOf' = 1 .. n
      /\ DOMAIN turnOf = 1 .. Len(turnOf)
      /\ \A t \in DOMAIN turnOf : turnOf'[t] = turnOf[t]
      /\ turnOf'[n] = e /\ n \in TurnIds /\ Len(turnOf) \in Nat
      /\ n <= Cardinality(TurnIds)
  <2>1. turnOf \in Seq(Turned) BY DEF ArchiveInv, Tables
  <2> QED BY <1>1, <1>2, <2>1, ArchiveAssumption
<1>4. DOMAIN turnOf' = DOMAIN turnOf \cup {n} /\ n \notin DOMAIN turnOf BY <1>3
<1> HIDE DEF n
<1>5. /\ proc' \in [Procs -> Attachment] /\ proc'[p].at = "first" /\ proc'[p].turn = n
      /\ proc'[p].id = proc[p].id
      /\ \A q \in Procs : q # p => proc'[q] = proc[q]
  <2>1. proc \in [Procs -> Attachment] /\ proc[p] \in Attachment BY DEF ArchiveInv, Tables
  <2>2. proc' = [proc EXCEPT ![p] = [proc[p] EXCEPT !.at = "first", !.turn = n]]
    BY <1>1, <1>3
  <2>3. [proc[p] EXCEPT !.at = "first", !.turn = n] \in Attachment
    BY <1>3, <2>1 DEF Attachment, Where, Working
  <2> QED BY <2>1, <2>2, <2>3 DEF Attachment
<1> USE DEF db
<1>6. Tables' BY <1>1, <1>3, <1>5 DEF ArchiveInv, Tables
<1>7. ProcsFit'
  <2>1. \A q \in Procs : At(q) \in Working => proc[q].turn \in DOMAIN turnOf
    BY DEF ArchiveInv, ProcsFit
  <2> QED BY <1>1, <1>2, <1>3, <1>4, <1>5, <2>1 DEF ArchiveInv, ProcsFit, At, Working
<1>8. RowsFit'
  <2>1. outcome[n] = "pending" BY <1>3, <1>4 DEF ArchiveInv, RowsFit
  <2> QED BY <1>1, <1>2, <1>3, <1>4, <2>1 DEF ArchiveInv, RowsFit, ToSet
<1>9. WindowsFit' BY <1>1, <1>5 DEF ArchiveInv, WindowsFit, At
<1> QED BY <1>6, <1>7, <1>8, <1>9 DEF ArchiveInv

(* The row of a message is appended, or is not.                            *)
LEMMA AppendFits ==
    ASSUME ArchiveInv, NEW p \in Procs, AppendMessage(p) \/ AppendFails(p)
    PROVE  ArchiveInv'
<1>1. /\ proc[p].at \in {"first", "second"}
      /\ \E step \in {"second", "ending"} : Goes(p, step)
      /\ UNCHANGED <<owner, outcome, snapshot, window, turnOf, alone, last>>
  BY DEF AppendMessage, AppendFails, RowDone, db
<1>2. PICK step \in {"second", "ending"} : Goes(p, step) BY <1>1
<1>3. /\ proc' \in [Procs -> Attachment]
      /\ proc'[p].at = step /\ proc'[p].id = proc[p].id /\ proc'[p].turn = proc[p].turn
      /\ \A q \in Procs : q # p => proc'[q] = proc[q]
  BY <1>2, Moves DEF ArchiveInv, Where, Working
<1>4. proc[p].turn \in DOMAIN turnOf /\ proc[p].turn \in TurnIds
  BY <1>1, Ranges DEF ArchiveInv, ProcsFit, At, Working
<1>5. rows' \in Seq(Row) /\ \A r \in ToSet(rows)' :
        r \in ToSet(rows) \/ r.turn = proc[p].turn
  <2>0. rows \in Seq(Row) BY DEF ArchiveInv, Tables
  <2>1. CASE UNCHANGED rows BY <2>0, <2>1 DEF ToSet
  <2>2. CASE \E i \in {1, 2} : rows' = Append(rows, Parts(proc[p].turn)[i])
    <3>1. PICK i \in {1, 2} : rows' = Append(rows, Parts(proc[p].turn)[i]) BY <2>2
    <3>2. Parts(proc[p].turn)[i] = [turn |-> proc[p].turn, part |-> i] BY DEF Parts
    <3>3. Parts(proc[p].turn)[i] \in Row /\ Parts(proc[p].turn)[i].turn = proc[p].turn
      BY <1>4, <3>2 DEF Row
    <3>4. /\ rows' \in Seq(Row) /\ DOMAIN rows' = 1 .. (Len(rows) + 1)
          /\ DOMAIN rows = 1 .. Len(rows)
          /\ Len(rows) \in Nat /\ (\A k \in DOMAIN rows : rows'[k] = rows[k])
          /\ rows'[Len(rows) + 1] = Parts(proc[p].turn)[i]
      BY <2>0, <3>1, <3>3
    <3> QED BY <3>3, <3>4 DEF ToSet
  <2> QED BY <2>1, <2>2 DEF AppendMessage, AppendFails, db
<1>6. Tables' BY <1>1, <1>3, <1>5 DEF ArchiveInv, Tables
<1>7. ProcsFit' BY <1>1, <1>3 DEF ArchiveInv, ProcsFit, At, Working
<1>8. RowsFit' BY <1>1, <1>4, <1>5 DEF ArchiveInv, RowsFit
<1>9. WindowsFit' BY <1>1, <1>3 DEF ArchiveInv, WindowsFit, At
<1> QED BY <1>6, <1>7, <1>8, <1>9 DEF ArchiveInv

(* The loop returns: the turn completed or failed.                         *)
LEMMA ReturnFits ==
    ASSUME ArchiveInv, NEW p \in Procs, NEW how \in {"completed", "failed"},
           LoopReturns(p, how)
    PROVE  ArchiveInv'
<1> DEFINE t == proc[p].turn
<1>1. /\ proc[p].at = "ending" /\ Goes(p, "saving")
      /\ DOMAIN window' = DOMAIN window
      /\ \A q \in Procs : q # p => window'[q] = window[q]
      /\ turnOf' = [turnOf EXCEPT ![t].ended = how]
      /\ UNCHANGED <<db, failing, alone, last>>
  BY DEF LoopReturns, ArchiveInv, Tables
<1>2. /\ proc' \in [Procs -> Attachment]
      /\ proc'[p].at = "saving" /\ proc'[p].id = proc[p].id /\ proc'[p].turn = t
      /\ \A q \in Procs : q # p => proc'[q] = proc[q]
  BY <1>1, Moves DEF ArchiveInv, Where, Working
<1>3. /\ t \in DOMAIN turnOf /\ turnOf[t].ended = "running"
      /\ \A q \in Procs : q # p /\ At(q) \in Working => proc[q].turn # t
  BY <1>1 DEF ArchiveInv, ProcsFit, At, Working
<1>4. turnOf \in Seq(Turned) /\ turnOf[t] \in Turned BY <1>3 DEF ArchiveInv, Tables
<1> HIDE DEF t
<1>5. /\ turnOf' \in Seq(Turned) /\ DOMAIN turnOf' = DOMAIN turnOf
      /\ Len(turnOf') = Len(turnOf)
      /\ \A k \in DOMAIN turnOf : k # t => turnOf'[k] = turnOf[k]
      /\ turnOf'[t].ended = how /\ turnOf'[t].id = turnOf[t].id
      /\ turnOf'[t].cwd = turnOf[t].cwd
  <2>1. [turnOf[t] EXCEPT !.ended = how] \in Turned BY <1>4 DEF Turned
  <2>2. turnOf' = [turnOf EXCEPT ![t] = [turnOf[t] EXCEPT !.ended = how]] BY <1>1
  <2>3. turnOf'[t] = [turnOf[t] EXCEPT !.ended = how] BY <1>3, <2>2
  <2>4. turnOf' \in Seq(Turned) /\ DOMAIN turnOf' = DOMAIN turnOf
          /\ Len(turnOf') = Len(turnOf)
    BY <1>3, <1>4, <2>1, <2>2
  <2> QED BY <1>4, <2>2, <2>3, <2>4 DEF Turned
<1> USE DEF db
<1>6. Tables' BY <1>1, <1>2, <1>5 DEF ArchiveInv, Tables
<1>7. ProcsFit'
  <2>1. proc[p].id \in Ids /\ owner[proc[p].id] = Workspace[p]
          /\ turnOf[t].id = proc[p].id
    BY <1>1 DEF ArchiveInv, ProcsFit, At, Working, t
  <2>2. \A q \in Procs : q # p /\ At(q) \in Working =>
          turnOf'[proc[q].turn] = turnOf[proc[q].turn] /\ proc[q].turn \in DOMAIN turnOf'
    BY <1>3, <1>5 DEF ArchiveInv, ProcsFit
  <2>3. \A q, k \in Procs : q # p /\ k # p /\ At(q) \in Working /\ At(k) \in Working
           /\ proc[q].turn = proc[k].turn => q = k
    BY DEF ArchiveInv, ProcsFit
  <2>4. \A q \in Procs : q # p =>
          /\ At(q) # "off" => proc[q].id \in Ids /\ owner[proc[q].id] = Workspace[q]
          /\ At(q) \in Working => turnOf[proc[q].turn].id = proc[q].id
          /\ At(q) \in {"first", "second", "ending"} =>
               turnOf[proc[q].turn].ended = "running"
          /\ At(q) \in {"saving", "marking"} => turnOf[proc[q].turn].ended # "running"
    BY DEF ArchiveInv, ProcsFit
  <2> QED BY <1>1, <1>2, <1>3, <1>5, <2>1, <2>2, <2>3, <2>4 DEF ProcsFit, At, Working
<1>8. RowsFit'
  <2>1. outcome[t] # "completed" BY <1>3 DEF ArchiveInv, RowsFit
  <2> QED BY <1>1, <1>5, <2>1 DEF ArchiveInv, RowsFit, ToSet
<1>9. WindowsFit' BY <1>1, <1>2 DEF ArchiveInv, WindowsFit, At
<1> QED BY <1>6, <1>7, <1>8, <1>9 DEF ArchiveInv

(* The window is saved at the end of a turn or by a rewind.                *)
LEMMA SaveFits ==
    ASSUME ArchiveInv, NEW p \in Procs, SaveSnapshot(p) \/ SaveFails(p) \/ Rewind(p)
    PROVE  ArchiveInv'
<1> DEFINE s == proc[p].id
<1>1. /\ proc[p].at \in {"saving", "idle"} /\ UNCHANGED <<owner, rows, outcome, turnOf>>
      /\ \/ proc[p].at = "saving" /\ Goes(p, "marking")
         \/ proc[p].at = "idle" /\ UNCHANGED proc
      /\ DOMAIN window' = DOMAIN window
      /\ \A q \in Procs : q # p => window'[q] = window[q]
  BY DEF SaveSnapshot, SaveFails, Rewind, db, ArchiveInv, Tables
<1>2. \/ /\ snapshot' = [snapshot EXCEPT ![s] = window'[p]]
         /\ last' = [last EXCEPT ![s] = window'[p]]
         /\ UNCHANGED alone
      \/ alone' = [alone EXCEPT ![s] = FALSE] /\ UNCHANGED <<snapshot, last, window>>
  BY DEF SaveSnapshot, SaveFails, Rewind, db
<1>3. /\ proc' \in [Procs -> Attachment]
      /\ proc'[p].at \in {"marking", "idle"} /\ proc'[p].id = s
      /\ proc'[p].turn = proc[p].turn
      /\ proc[p].at = "saving" <=> proc'[p].at = "marking"
      /\ \A q \in Procs : q # p => proc'[q] = proc[q]
  <2>1. CASE proc[p].at = "saving" /\ Goes(p, "marking")
    BY <2>1, Moves DEF ArchiveInv, Where, Working
  <2>2. CASE proc[p].at = "idle" /\ UNCHANGED proc BY <2>2 DEF ArchiveInv, Tables
  <2> QED BY <1>1, <2>1, <2>2
<1>4. s \in Ids BY <1>1 DEF ArchiveInv, ProcsFit, At
<1> HIDE DEF s
<1>5. Tables' BY <1>1, <1>2, <1>3 DEF ArchiveInv, Tables
<1>6. ProcsFit'
  <2>1. proc[p].at = "idle" => proc'[p] = proc[p] BY <1>1
  <2>2. proc[p].id = s BY DEF s
  <2>3. proc[p].at = "saving" \/ proc'[p] = proc[p] BY <1>1, <2>1
  <2> QED BY <1>1, <1>3, <2>2, <2>3 DEF ArchiveInv, ProcsFit, At, Working
<1>7. RowsFit' BY <1>1 DEF ArchiveInv, RowsFit, ToSet
<1>8. WindowsFit'
  <2>1. snapshot' = last' BY <1>2 DEF ArchiveInv, WindowsFit
  <2>2. /\ \A i \in Ids : alone'[i] => alone[i]
        /\ \A i \in Ids : i # s => last'[i] = last[i]
        /\ alone'[s] => last'[s] = window'[p]
    BY <1>2, <1>4 DEF ArchiveInv, Tables
  <2>3. \A q \in Procs : At(q) # "off" => proc[q].id \in Ids BY DEF ArchiveInv, ProcsFit
  <2>4. proc[p].id = s /\ At(p) # "off" BY <1>1 DEF s, At
  <2> QED BY <1>1, <1>3, <2>1, <2>2, <2>3, <2>4 DEF ArchiveInv, WindowsFit, At
<1> QED BY <1>5, <1>6, <1>7, <1>8 DEF ArchiveInv

(* The rows of a turn are classified by how it ended, or stay pending.     *)
LEMMA MarkFits ==
    ASSUME ArchiveInv, NEW p \in Procs, MarkTurnOutcome(p) \/ MarkFails(p)
    PROVE  ArchiveInv'
<1> DEFINE t == proc[p].turn
<1>1. /\ proc[p].at = "marking"
      /\ proc' = [proc EXCEPT ![p].at = "idle", ![p].turn = NoTurn]
      /\ UNCHANGED <<owner, rows, snapshot, window, turnOf, alone, last>>
      /\ UNCHANGED outcome \/ outcome' = [outcome EXCEPT ![t] = turnOf[t].ended]
  BY DEF MarkTurnOutcome, MarkFails, db
<1>2. /\ t \in DOMAIN turnOf /\ t \in TurnIds
      /\ turnOf[t].ended \in {"completed", "failed"}
  BY <1>1, Ranges DEF ArchiveInv, ProcsFit, At, Working, Turned
<1> HIDE DEF t
<1>3. /\ proc' \in [Procs -> Attachment] /\ proc'[p].at = "idle"
      /\ proc'[p].id = proc[p].id
      /\ \A q \in Procs : q # p => proc'[q] = proc[q]
  <2>1. proc \in [Procs -> Attachment] /\ proc[p] \in Attachment BY DEF ArchiveInv, Tables
  <2>2. proc' = [proc EXCEPT ![p] = [proc[p] EXCEPT !.at = "idle", !.turn = NoTurn]]
    BY <1>1
  <2>3. [proc[p] EXCEPT !.at = "idle", !.turn = NoTurn] \in Attachment
    BY <2>1 DEF Attachment, Where
  <2> QED BY <2>1, <2>2, <2>3 DEF Attachment
<1>4. /\ outcome' \in [TurnIds -> {"pending", "completed", "failed"}]
      /\ \A k \in TurnIds :
           outcome'[k] = outcome[k] \/ (k = t /\ outcome'[k] = turnOf[t].ended)
  BY <1>1, <1>2 DEF ArchiveInv, Tables
<1>5. Tables' BY <1>1, <1>3, <1>4 DEF ArchiveInv, Tables
<1>6. ProcsFit' BY <1>1, <1>3 DEF ArchiveInv, ProcsFit, At, Working
<1>7. RowsFit'
  <2>1. DOMAIN turnOf \subseteq TurnIds BY Ranges
  <2> QED BY <1>1, <1>2, <1>4, <2>1 DEF ArchiveInv, RowsFit, ToSet
<1>8. WindowsFit' BY <1>1, <1>3 DEF ArchiveInv, WindowsFit, At
<1> QED BY <1>5, <1>6, <1>7, <1>8 DEF ArchiveInv

-----------------------------------------------------------------------------
(* An archive starts empty, with no process attached.                      *)
THEOREM ArchiveStarts == ASSUME ArchiveInit PROVE ArchiveInv
<1> DEFINE i == CHOOSE k \in Ids : TRUE
<1>1. Off = [at |-> "off", id |-> i, turn |-> NoTurn] BY DEF Off
<1> HIDE DEF i
<1>2. Off.id = i /\ Off.at = "off" /\ Off \in Attachment BY <1>1 DEF Attachment, Where
<1>3. \A p \in Procs : proc[p] = Off BY DEF ArchiveInit
<1>4. rows = <<>> /\ turnOf = <<>> /\ Len(turnOf) = 0 /\ DOMAIN turnOf = {}
        /\ ToSet(rows) = {}
  BY DEF ArchiveInit, ToSet
<1>5. Tables BY <1>2, <1>4, ArchiveAssumption DEF ArchiveInit, Tables
<1>6. ProcsFit BY <1>2, <1>3 DEF ProcsFit, At, Working
<1>7. RowsFit BY <1>4 DEF ArchiveInit, RowsFit
<1>8. WindowsFit BY <1>2, <1>3 DEF ArchiveInit, WindowsFit, At
<1> QED BY <1>5, <1>6, <1>7, <1>8 DEF ArchiveInv

(* No step of any process breaks the invariant of the archive.             *)
THEOREM ArchiveStep == ASSUME ArchiveInv, [ArchiveNext]_archive PROVE ArchiveInv'
<1>u. CASE UNCHANGED archive
  <2> USE <1>u DEF archive
  <2>1. Tables' BY DEF ArchiveInv, Tables
  <2>2. ProcsFit' BY DEF ArchiveInv, ProcsFit, At
  <2>3. RowsFit' BY DEF ArchiveInv, RowsFit, ToSet
  <2>4. WindowsFit' BY DEF ArchiveInv, WindowsFit, At
  <2> QED BY <2>1, <2>2, <2>3, <2>4 DEF ArchiveInv
<1>1. CASE ArchiveNext
  <2>1. PICK p \in Procs :
          \/ \E s \in Ids : Claim(p, s)
          \/ Hydrate(p) \/ Quit(p) \/ Killed(p) \/ BeginTurn(p) \/ AppendMessage(p)
               \/ AppendFails(p)
          \/ \E how \in {"completed", "failed"} : LoopReturns(p, how)
          \/ SaveSnapshot(p) \/ SaveFails(p) \/ MarkTurnOutcome(p) \/ MarkFails(p)
               \/ Rewind(p)
    BY <1>1 DEF ArchiveNext
  <2> QED
    BY <2>1, ClaimFits, HydrateFits, LeaveFits, BeginFits, AppendFits, ReturnFits,
       SaveFits, MarkFits
<1> QED BY <1>u, <1>1

-----------------------------------------------------------------------------
(* The curated file *)

(* What the variables hold; the file and what a store keeps of it are      *)
(* finite.                                                                 *)
Operation == [kind : {"add", "replace", "remove"}, old : SUBSET Entry, new : Entry]
EntrySets == {S \in SUBSET Entry : IsFiniteSet(S)}
Result == [ok : BOOLEAN, set : EntrySets]
NoteTypes ==
    /\ NotesTypeOK
    /\ owed \in [entries : SUBSET Entry, glued : SUBSET Entry]
    /\ op \in [Writers -> Operations \cup {NoCall}]
    /\ seen \in [Writers -> [entries : SUBSET Entry, glued : SUBSET Entry, readable : BOOLEAN]]
    /\ IsFiniteSet(mfile.entries) /\ \A s \in Stores : IsFiniteSet(live[s])

(* One operation at most drops what it names, and adds one entry.          *)
LEMMA ApplyKeeps ==
    ASSUME NEW r \in Result, NEW o \in Operation
    PROVE  /\ Apply(r, o) \in Result
           /\ \A e \in r.set : e \in Apply(r, o).set \/ (o.kind # "add" /\ e \in o.old)
<1> DEFINE matches == r.set \cap o.old
           next == CASE o.kind = "add" -> r.set \cup {o.new}
                     [] o.kind = "replace" -> (r.set \ matches) \cup {o.new}
                     [] o.kind = "remove" -> r.set \ matches
<1>1. /\ r.set \in SUBSET Entry /\ IsFiniteSet(r.set)
      /\ r.ok \in BOOLEAN /\ r = [ok |-> r.ok, set |-> r.set]
  BY DEF Result, EntrySets
<1>2. o.new \in Entry /\ o.kind \in {"add", "replace", "remove"}
  BY DEF Operation
<1>3. Apply(r, o) = [ok |-> FALSE, set |-> r.set] \/ Apply(r, o) = [ok |-> r.ok, set |-> next]
  <2>1. CASE ~r.ok \/ (o.kind # "add" /\ Cardinality(matches) # 1)
    BY <1>1, <2>1 DEF Apply
  <2>2. CASE ~(~r.ok \/ (o.kind # "add" /\ Cardinality(matches) # 1))
    BY <1>1, <2>2 DEF Apply
  <2>3. QED BY <2>1, <2>2
<1>4. next \in SUBSET Entry /\ (\A e \in r.set : e \in next \/ (o.kind # "add" /\ e \in o.old))
  BY <1>1, <1>2
<1>5. IsFiniteSet(next)
  <2>1. IsFiniteSet(r.set \cup {o.new}) BY <1>1, FS_AddElement
  <2>2. IsFiniteSet(r.set \ matches) BY <1>1, FS_Subset
  <2>3. IsFiniteSet((r.set \ matches) \cup {o.new}) BY <2>2, FS_AddElement
  <2>4. QED BY <1>2, <2>1, <2>2, <2>3
<1> HIDE DEF next, matches
<1>6. Apply(r, o) \in Result
  <2>1. next \in EntrySets /\ r.set \in EntrySets
    BY <1>1, <1>4, <1>5 DEF EntrySets
  <2>2. [ok |-> FALSE, set |-> r.set] \in Result BY <2>1 DEF Result
  <2>3. r.ok \in BOOLEAN BY <1>1
  <2>4. [ok |-> r.ok, set |-> next] \in Result BY <2>1, <2>3 DEF Result
  <2>5. QED BY <1>3, <2>2, <2>4
<1>7. QED BY <1>1, <1>3, <1>4, <1>6

(* A set of numbers has a least one.                                       *)
LEMMA Least == ASSUME NEW T \in SUBSET Nat, T # {} PROVE \E m \in T : \A k \in T : m <= k
<1>1. PICK m \in T : \A k \in T : ~(<<k, m>> \in OpToRel(<, Nat))
  BY NatLessThanWellFounded, WFMin
<1>2. ASSUME NEW k \in T PROVE m <= k
  <2>1. ~(k < m) BY <1>1 DEF OpToRel
  <2>2. QED BY <2>1
<1>3. QED BY <1>2

(* The results of a call's first n operations, one after the other.        *)
Runs(S, c, n, g) ==
    /\ g = [i \in 0 .. n |-> g[i]] /\ g[0] = [ok |-> TRUE, set |-> S]
    /\ \A i \in 1 .. n : g[i] = Apply(g[i - 1], c.ops[i])
(* There are such results, for every number of operations.                 *)
LEMMA RunsExist ==
    ASSUME NEW S, NEW c, NEW n \in Nat
    PROVE  \E g : Runs(S, c, n, g)
<1> DEFINE T == {m \in Nat : ~ \E g : Runs(S, c, m, g)}
<1> SUFFICES ASSUME T # {} PROVE FALSE
  OBVIOUS
<1>1. PICK m \in T : \A k \in T : m <= k
  <2>1. T \in SUBSET Nat OBVIOUS
  <2> HIDE DEF T
  <2>2. QED BY <2>1, Least
<1>2. m # 0
  <2> DEFINE g == [i \in 0 .. 0 |-> [ok |-> TRUE, set |-> S]]
  <2>1. Runs(S, c, 0, g)
    BY DEF Runs
  <2>2. QED BY <2>1
<1>3. m \in Nat /\ m - 1 \in Nat /\ m - 1 \notin T
  <2>1. T \in SUBSET Nat OBVIOUS
  <2> HIDE DEF T
  <2>2. m \in Nat /\ m - 1 \in Nat /\ ~(m <= m - 1) BY <1>1, <1>2, <2>1
  <2>3. QED BY <1>1, <2>2
<1>4. PICK h : Runs(S, c, m - 1, h)
  BY <1>3
<1> DEFINE g == [i \in 0 .. m |-> IF i = m THEN Apply(h[m - 1], c.ops[m]) ELSE h[i]]
<1>5. Runs(S, c, m, g)
  <2>1. g = [i \in 0 .. m |-> g[i]] /\ g[0] = [ok |-> TRUE, set |-> S]
    <3>1. 0 \in 0 .. m /\ 0 # m BY <1>2, <1>3
    <3>2. g[0] = h[0] BY <3>1
    <3>3. QED BY <1>4, <3>2 DEF Runs
  <2>2. ASSUME NEW i \in 1 .. m PROVE g[i] = Apply(g[i - 1], c.ops[i])
    <3>1. i - 1 \in 0 .. m - 1 /\ i - 1 # m /\ i - 1 \in 0 .. m /\ i \in 0 .. m
      BY <1>3
    <3>2. g[i - 1] = h[i - 1] BY <3>1
    <3>3. CASE i = m BY <3>1, <3>2, <3>3
    <3>4. CASE i # m
      <4>1. i \in 1 .. m - 1 BY <1>3, <3>4
      <4>2. QED BY <1>4, <3>1, <3>2, <3>4, <4>1 DEF Runs
    <3>5. QED BY <3>3, <3>4
  <2>3. QED BY <2>1, <2>2 DEF Runs
<1>6. QED BY <1>1, <1>5

(* The results of the model are these.                                     *)
LEMMA ResultsRun ==
    ASSUME NEW S, NEW c, Len(c.ops) \in Nat
    PROVE  Runs(S, c, Len(c.ops), Results(S, c))
<1> DEFINE n == Len(c.ops)
           F(f) == f = [i \in 0 .. n |-> IF i = 0 THEN [ok |-> TRUE, set |-> S]
                                         ELSE Apply(f[i - 1], c.ops[i])]
<1>1. Results(S, c) = CHOOSE f : F(f)
  BY DEF Results
<1>2. PICK g : Runs(S, c, n, g) BY RunsExist
<1>3. F(g)
  <2> DEFINE h == [i \in 0 .. n |-> IF i = 0 THEN [ok |-> TRUE, set |-> S]
                                         ELSE Apply(g[i - 1], c.ops[i])]
  <2>1. ASSUME NEW i \in 0 .. n PROVE g[i] = h[i]
    <3>1. i = 0 \/ i \in 1 .. n OBVIOUS
    <3>2. QED BY <1>2, <3>1 DEF Runs
  <2>2. g = [i \in 0 .. n |-> g[i]] BY <1>2 DEF Runs
  <2>3. QED BY <2>1, <2>2
<1>4. F(CHOOSE f : F(f)) BY <1>3
<1> HIDE DEF F
<1>5. F(Results(S, c)) BY <1>1, <1>4
<1>6. QED
  <2>1. 0 \in 0 .. n /\ \A i \in 1 .. n : i \in 0 .. n /\ i # 0 OBVIOUS
  <2>2. QED BY <1>5, <2>1 DEF F, Runs

(* A call drops no entry that it does not name.                            *)
LEMMA CallKeeps ==
    ASSUME NEW S \in SUBSET Entry, IsFiniteSet(S), NEW c \in Operations
    PROVE  /\ Outcome(S, c) \in Result
           /\ \A e \in S : \/ e \in Outcome(S, c).set
                           \/ \E i \in DOMAIN c.ops : c.ops[i].kind # "add" /\ e \in c.ops[i].old
<1> DEFINE n == Len(c.ops)
           g == Results(S, c)
           Good(i) == /\ g[i] \in Result
                      /\ \A e \in S : \/ e \in g[i].set
                                      \/ \E j \in DOMAIN c.ops :
                                           c.ops[j].kind # "add" /\ e \in c.ops[j].old
           T == {i \in 0 .. n : ~Good(i)}
<1>1. n \in Nat /\ DOMAIN c.ops = 1 .. n /\ \A i \in 1 .. n : c.ops[i] \in Operation
  <2>1. c.ops \in Seq(Operation) BY StoreAssumption DEF Ops, Operation
  <2>2. QED BY <2>1
<1>2. Runs(S, c, n, g) BY <1>1, ResultsRun
<1> HIDE DEF g
<1>3. T = {}
  <2> SUFFICES ASSUME T # {} PROVE FALSE
    OBVIOUS
  <2>1. \A i : i \in T <=> i \in 0 .. n /\ ~Good(i) OBVIOUS
  <2>2. Good(0)
    <3>1. [ok |-> TRUE, set |-> S] \in Result BY DEF Result, EntrySets
    <3>2. g[0] = [ok |-> TRUE, set |-> S] BY <1>2 DEF Runs
    <3>3. QED BY <3>1, <3>2
  <2> HIDE DEF T, Good
  <2>8. T \in SUBSET Nat BY <1>1, <2>1
  <2>9. PICK m \in T : \A k \in T : m <= k BY <2>8, Least
  <2>3. m - 1 \in 0 .. n /\ m \in 1 .. n /\ Good(m - 1)
    <3>1. m \in 0 .. n /\ m # 0 BY <2>1, <2>2
    <3>2. m \in 1 .. n /\ m - 1 \in 0 .. n /\ ~(m <= m - 1) BY <1>1, <3>1
    <3>3. QED BY <2>1, <2>9, <3>2
  <2>4. g[m] = Apply(g[m - 1], c.ops[m]) BY <1>2, <2>3 DEF Runs
  <2>5. c.ops[m] \in Operation /\ m \in DOMAIN c.ops BY <1>1, <2>3
  <2>6. Good(m) BY <2>3, <2>4, <2>5, ApplyKeeps DEF Good
  <2>7. QED BY <2>1, <2>6
<1>4. Good(n) BY <1>1, <1>3
<1>5. QED BY <1>4 DEF Outcome, g

(* Who has decided what to write has lost nothing it read and was not asked *)
(* to drop, and nothing foreign was in it; what is owed by then, it read.   *)
Inside == {"locked", "writing", "written", "done"}
Names(c, e) == \E i \in DOMAIN c.ops : c.ops[i].kind # "add" /\ e \in c.ops[i].old
Decided(w) ==
    /\ seen[w].glued = {}
    /\ \A e \in seen[w].entries : e \in live[StoreOf[w]] \/ Names(op[w], e)
    /\ IsSingle(op[w], "remove") \/ Cardinality(live[StoreOf[w]]) <= Limit
    /\ seen[w].readable => owed.entries \subseteq seen[w].entries /\ owed.glued = {}
Fits(w) ==
    /\ at[w] \in Inside => flock = w
    /\ at[w] # "idle" => op[w] \in Operations
    /\ at[w] \in {"writing", "written"} => Decided(w)
WritersFit == \A w \in Writers : Fits(w)

USE DEF Inside

(* The inductive invariant of the curated file.                            *)
NotesInv == NoteTypes /\ NothingIsForgotten /\ WritersFit

(* The file begins empty.                                                  *)
LEMMA NotesStart == ASSUME NotesInit PROVE NotesInv
<1>1. NoteTypes
  BY StoreAssumption, FS_EmptySet DEF NotesInit, NoteTypes, NotesTypeOK, Unread
<1>2. NothingIsForgotten /\ WritersFit
  BY DEF NotesInit, NothingIsForgotten, WritersFit, Fits
<1>3. QED BY <1>1, <1>2 DEF NotesInv

(* The invariant is at least what the run checks.                          *)
LEMMA NotesAreSafeThen == ASSUME NotesInv PROVE NotesAreSafe
<1>1. RoomIsKept
  BY DEF NotesInv, WritersFit, Fits, Decided, RoomIsKept
<1>2. QED BY <1>1 DEF NotesInv, NoteTypes, NotesAreSafe

(* After its reload a call decides.                                        *)
LEMMA SettleKeeps ==
    ASSUME NotesInv, NEW w \in Writers, at[w] = "locked",
           NEW r \in [entries : SUBSET Entry, glued : SUBSET Entry, readable : BOOLEAN],
           IsFiniteSet(r.entries), r.glued \subseteq r.entries,
           r.glued = {} \/ IsSingle(op[w], "add"),
           r.readable => owed.entries \subseteq r.entries /\ owed.glued \subseteq r.glued,
           Settle(w, r), UNCHANGED <<mfile, flock, op, owed>>
    PROVE  NotesInv'
<1> DEFINE c == op[w]
           out == Outcome(r.entries, c)
           stay == Refused(r, c) \/ NothingToDo(r, c)
           s == StoreOf[w]
<1>1. c \in Operations /\ flock = w /\ s \in Stores
  BY StoreAssumption DEF NotesInv, WritersFit, Fits
<1>2. out \in Result /\ \A e \in r.entries : e \in out.set \/ Names(c, e)
  BY <1>1, CallKeeps DEF Names
<1>3. /\ live' = [live EXCEPT ![s] = IF stay THEN r.entries ELSE out.set]
      /\ at' = [at EXCEPT ![w] = IF stay THEN "done" ELSE "writing"]
      /\ seen' = [seen EXCEPT ![w] = r]
  BY DEF Settle
<1>4. \/ at' = [at EXCEPT ![w] = "done"] /\ live' = [live EXCEPT ![s] = r.entries]
      \/ /\ at' = [at EXCEPT ![w] = "writing"] /\ live' = [live EXCEPT ![s] = out.set]
         /\ out.ok /\ ~TooBig(out.set, r.glued, c)
  BY <1>3 DEF Refused
<1>5. out.set \in SUBSET Entry /\ IsFiniteSet(out.set)
  BY <1>2 DEF Result, EntrySets
<1> HIDE DEF c, out, stay, s
<1>6. NoteTypes'
  <2>1. live' \in [Stores -> SUBSET Entry] /\ \A x \in Stores : IsFiniteSet(live'[x])
    BY <1>1, <1>4, <1>5 DEF NotesInv, NoteTypes, NotesTypeOK
  <2>2. at' \in [Writers -> {"idle", "waiting", "locked", "writing", "written", "done"}]
    BY <1>4 DEF NotesInv, NoteTypes, NotesTypeOK
  <2>3. seen' \in [Writers -> [entries : SUBSET Entry, glued : SUBSET Entry, readable : BOOLEAN]]
    BY <1>3 DEF NotesInv, NoteTypes
  <2>4. QED BY <2>1, <2>2, <2>3 DEF NotesInv, NoteTypes, NotesTypeOK
<1>7. NothingIsForgotten' BY DEF NotesInv, NothingIsForgotten
<1>8. ASSUME NEW v \in Writers, v # w PROVE Fits(v)'
  <2>1. at'[v] = at[v] /\ at[v] \notin Inside
    BY <1>1, <1>4, <1>8 DEF NotesInv, NoteTypes, NotesTypeOK, WritersFit, Fits
  <2>2. QED BY <2>1 DEF NotesInv, WritersFit, Fits
<1>9. Fits(w)'
  <2>1. CASE at' = [at EXCEPT ![w] = "done"]
    <3>1. at'[w] = "done" BY <2>1 DEF NotesInv, NoteTypes, NotesTypeOK
    <3>2. QED BY <3>1, <1>1 DEF Fits, c
  <2>2. CASE /\ at' = [at EXCEPT ![w] = "writing"] /\ live' = [live EXCEPT ![s] = out.set]
             /\ out.ok /\ ~TooBig(out.set, r.glued, c)
    <3>1. at'[w] = "writing" /\ live'[s] = out.set /\ seen'[w] = r /\ op'[w] = c
      BY <1>1, <1>3, <2>2 DEF NotesInv, NoteTypes, NotesTypeOK, c
    <3>2. IsSingle(c, "remove") \/ Cardinality(out.set) <= Limit
      <4>1. Cardinality(out.set) \in Nat BY <1>5, FS_CardinalityType
      <4>2. Limit \in Nat BY StoreAssumption
      <4>3. QED BY <2>2, <4>1, <4>2 DEF TooBig
    <3>3. r.glued = {}
      <4>1. CASE IsSingle(c, "add")
        <5>1. \A i \in DOMAIN c.ops : c.ops[i].kind = "add"
          <6>1. Len(c.ops) = 1 /\ c.ops[1].kind = "add"
            BY <1>1, <4>1, StoreAssumption DEF IsSingle
          <6>2. DOMAIN c.ops = 1 .. 1
            <7>1. c.ops \in Seq(Operation) BY <1>1, StoreAssumption DEF Ops, Operation
            <7>2. QED BY <6>1, <7>1
          <6>3. QED BY <6>1, <6>2
        <5>2. QED BY <1>2, <2>2, <4>1, <5>1 DEF TooBig, IsSingle, Names
      <4>2. QED BY <4>1 DEF c
    <3>4. Decided(w)'
      BY <1>2, <3>1, <3>2, <3>3 DEF Decided, Names, s
    <3>5. QED BY <1>1, <3>1, <3>4 DEF Fits
  <2>3. QED BY <1>4, <2>1, <2>2
<1>10. QED BY <1>6, <1>7, <1>8, <1>9 DEF NotesInv, WritersFit

(* Every step of a writer, an editor or a death keeps the invariant.       *)
LEMMA NotesStep == ASSUME NotesInv, [NotesNext]_notes PROVE NotesInv'
<1>1. ASSUME NEW w \in Writers, NEW c \in Operations, Call(w, c) PROVE NotesInv'
  <2>1. /\ at'[w] = "waiting" /\ op'[w] = c
        /\ \A v \in Writers : v = w \/ (at'[v] = at[v] /\ op'[v] = op[v])
    BY <1>1 DEF Call, NotesInv, NoteTypes, NotesTypeOK
  <2>2. NoteTypes'
    BY <1>1 DEF Call, NotesInv, NoteTypes, NotesTypeOK
  <2>3. \A v \in Writers : Fits(v)'
    BY <1>1, <2>1 DEF Call, NotesInv, WritersFit, Fits, Decided, Names
  <2>4. QED BY <1>1, <2>2, <2>3 DEF Call, NotesInv, WritersFit, NothingIsForgotten
<1>2. ASSUME NEW w \in Writers, Lock(w) PROVE NotesInv'
  <2>1. at'[w] = "locked" /\ flock' = w /\ \A v \in Writers : v = w \/ at'[v] = at[v]
    BY <1>2 DEF Lock, NotesInv, NoteTypes, NotesTypeOK
  <2>2. NoteTypes'
    BY <1>2 DEF Lock, NotesInv, NoteTypes, NotesTypeOK
  <2>3. \A v \in Writers : at[v] \notin Inside
    BY <1>2, StoreAssumption DEF Lock, NotesInv, WritersFit, Fits
  <2>4. \A v \in Writers : Fits(v)'
    BY <1>2, <2>1, <2>3 DEF Lock, NotesInv, WritersFit, Fits
  <2>5. QED BY <1>2, <2>2, <2>4 DEF Lock, NotesInv, WritersFit, NothingIsForgotten
<1>3. ASSUME NEW w \in Writers, Reload(w) PROVE NotesInv'
  <2>1. CASE Drifted(op[w])
    <3>1. /\ at'[w] = "done" /\ flock = w /\ flock' = flock
          /\ \A v \in Writers : v = w \/ (at'[v] = at[v] /\ at[v] \notin Inside)
      BY <1>3, <2>1 DEF Reload, NotesInv, NoteTypes, NotesTypeOK, WritersFit, Fits
    <3>2. NoteTypes'
      <4>1. StoreOf[w] \in Stores /\ mfile.entries \in SUBSET Entry /\ IsFiniteSet(mfile.entries)
        BY StoreAssumption DEF NotesInv, NoteTypes, NotesTypeOK
      <4>2. QED BY <1>3, <2>1, <4>1 DEF Reload, NotesInv, NoteTypes, NotesTypeOK
    <3>3. \A v \in Writers : Fits(v)'
      BY <1>3, <2>1, <3>1 DEF Reload, NotesInv, WritersFit, Fits
    <3>4. QED BY <1>3, <2>1, <3>2, <3>3 DEF Reload, NotesInv, WritersFit, NothingIsForgotten
  <2>2. CASE ~Drifted(op[w])
    <3> DEFINE r == [entries |-> mfile.entries, glued |-> mfile.glued, readable |-> TRUE]
    <3>1. /\ r \in [entries : SUBSET Entry, glued : SUBSET Entry, readable : BOOLEAN]
          /\ IsFiniteSet(r.entries) /\ r.glued \subseteq r.entries
      BY DEF NotesInv, NoteTypes, NotesTypeOK
    <3>2. r.glued = {} \/ IsSingle(op[w], "add")
      BY <2>2 DEF Drifted
    <3>3. owed.entries \subseteq r.entries /\ owed.glued \subseteq r.glued
      BY DEF NotesInv, NothingIsForgotten
    <3>4. at[w] = "locked" /\ Settle(w, r) /\ UNCHANGED <<mfile, flock, op, owed>>
      BY <1>3, <2>2 DEF Reload
    <3> HIDE DEF r
    <3>5. QED BY <3>1, <3>2, <3>3, <3>4, SettleKeeps
  <2>3. QED BY <2>1, <2>2
<1>4. ASSUME NEW w \in Writers, CannotRead(w) PROVE NotesInv'
  <2>1. /\ NothingRead \in [entries : SUBSET Entry, glued : SUBSET Entry, readable : BOOLEAN]
        /\ IsFiniteSet(NothingRead.entries) /\ NothingRead.glued = {} /\ ~NothingRead.readable
    BY FS_EmptySet DEF NothingRead
  <2>2. at[w] = "locked" /\ Settle(w, NothingRead) /\ UNCHANGED <<mfile, flock, op, owed>>
    BY <1>4 DEF CannotRead
  <2>3. QED BY <2>1, <2>2, SettleKeeps
<1>5. ASSUME NEW w \in Writers, WriteTemp(w) \/ WriteFails(w) PROVE NotesInv'
  <2>1. /\ at[w] \in {"writing", "written"} /\ at'[w] \in {"written", "done"}
        /\ UNCHANGED <<mfile, flock, live, op, owed, seen>>
        /\ \A v \in Writers : v = w \/ at'[v] = at[v]
    BY <1>5 DEF WriteTemp, WriteFails, NotesInv, NoteTypes, NotesTypeOK
  <2>2. NoteTypes'
    BY <1>5 DEF WriteTemp, WriteFails, NotesInv, NoteTypes, NotesTypeOK
  <2>3. \A v \in Writers : Fits(v)'
    BY <2>1 DEF NotesInv, WritersFit, Fits, Decided, Names
  <2>4. QED BY <2>1, <2>2, <2>3 DEF NotesInv, WritersFit, NothingIsForgotten
<1>6. ASSUME NEW w \in Writers, Replace(w) PROVE NotesInv'
  <2> DEFINE S == live[StoreOf[w]]
  <2>1. Decided(w) /\ flock = w /\ at[w] = "written"
    BY <1>6 DEF Replace, NotesInv, WritersFit, Fits
  <2>2. S \in SUBSET Entry /\ IsFiniteSet(S) /\ StoreOf[w] \in Stores
    BY StoreAssumption DEF NotesInv, NoteTypes, NotesTypeOK
  <2>3. mfile' = [entries |-> S, glued |-> {}]
    BY <1>6, <2>1 DEF Replace, Decided
  <2>4. \/ owed' = mfile'
        \/ /\ seen[w].readable
           /\ owed' = [entries |-> (owed.entries \ Dropped(w)) \cup S, glued |-> owed.glued]
    BY <1>6, <2>3 DEF Replace
  <2>5. owed' = [entries |-> S, glued |-> {}]
    <3>1. CASE owed' = mfile'
      BY <2>3, <3>1
    <3>2. CASE /\ seen[w].readable
               /\ owed' = [entries |-> (owed.entries \ Dropped(w)) \cup S, glued |-> owed.glued]
      <4>1. owed.entries \subseteq seen[w].entries /\ owed.glued = {}
        BY <2>1, <3>2 DEF Decided
      <4>2. \A e \in seen[w].entries : e \in S \/ e \in Dropped(w)
        <5>1. ASSUME NEW e \in seen[w].entries, Names(op[w], e) PROVE e \in Dropped(w)
          <6>1. PICK i \in DOMAIN op[w].ops : op[w].ops[i].kind # "add" /\ e \in op[w].ops[i].old
            BY <5>1 DEF Names
          <6> DEFINE K == {j \in DOMAIN op[w].ops : op[w].ops[j].kind # "add"}
                     X == {op[w].ops[j].old : j \in K}
          <6>2. i \in K BY <6>1
          <6>3. Dropped(w) = seen[w].entries \cap (UNION X) BY DEF Dropped
          <6>4. op[w].ops[i].old \in X BY <6>2
          <6> HIDE DEF X
          <6>5. e \in UNION X BY <6>1, <6>4
          <6>6. QED BY <5>1, <6>3, <6>5
        <5>2. QED BY <2>1, <5>1 DEF Decided
      <4>3. (owed.entries \ Dropped(w)) \cup S = S BY <4>1, <4>2
      <4>4. QED BY <3>2, <4>1, <4>3
    <3>3. QED BY <2>4, <3>1, <3>2
  <2>6. /\ at'[w] = "done" /\ UNCHANGED <<flock, live, op, seen>>
        /\ \A v \in Writers : v = w \/ (at'[v] = at[v] /\ at[v] \notin Inside)
    BY <1>6, <2>1 DEF Replace, NotesInv, NoteTypes, NotesTypeOK, WritersFit, Fits
  <2>7. NoteTypes'
    <3>1. at' \in [Writers -> {"idle", "waiting", "locked", "writing", "written", "done"}]
      BY <1>6 DEF Replace, NotesInv, NoteTypes, NotesTypeOK
    <3> HIDE DEF S
    <3>2. mfile' \in [entries : SUBSET Entry, glued : SUBSET Entry] /\ owed' = mfile'
          /\ mfile'.glued \subseteq mfile'.entries /\ IsFiniteSet(mfile'.entries)
      BY <2>2, <2>3, <2>5
    <3>3. QED BY <2>6, <3>1, <3>2 DEF NotesInv, NoteTypes, NotesTypeOK
  <2>8. \A v \in Writers : Fits(v)'
    BY <2>1, <2>6 DEF NotesInv, WritersFit, Fits
  <2>9. QED BY <2>3, <2>5, <2>7, <2>8 DEF NotesInv, WritersFit, NothingIsForgotten
<1>7. ASSUME NEW w \in Writers, Unlock(w) PROVE NotesInv'
  <2>1. /\ at'[w] = "idle" /\ flock = w
        /\ \A v \in Writers : v = w \/ (at'[v] = at[v] /\ op'[v] = op[v] /\ seen'[v] = seen[v]
                                       /\ at[v] \notin Inside)
    BY <1>7 DEF Unlock, NotesInv, NoteTypes, NotesTypeOK, WritersFit, Fits
  <2>2. NoteTypes'
    BY <1>7 DEF Unlock, NotesInv, NoteTypes, NotesTypeOK, Unread
  <2>3. \A v \in Writers : Fits(v)'
    BY <2>1 DEF NotesInv, WritersFit, Fits
  <2>4. QED BY <1>7, <2>2, <2>3 DEF Unlock, NotesInv, WritersFit, NothingIsForgotten
<1>8. ASSUME NEW S \in SUBSET Entry, NEW G \in SUBSET Entry, G \subseteq S, IsFiniteSet(S),
             Edit(S, G)
      PROVE  NotesInv'
  <2>1. /\ mfile' = [entries |-> S, glued |-> G] /\ UNCHANGED <<flock, live, at, op, seen>>
        /\ IF InWindow THEN owed' = [entries |-> owed.entries \cap S, glued |-> owed.glued \cap G]
           ELSE owed' = mfile'
    BY <1>8 DEF Edit
  <2>2. owed' \in [entries : SUBSET Entry, glued : SUBSET Entry]
    BY <2>1
  <2>3. NoteTypes'
    <3>1. /\ mfile'.entries = S /\ mfile'.glued = G
          /\ mfile' \in [entries : SUBSET Entry, glued : SUBSET Entry]
      BY <2>1
    <3>2. QED BY <1>8, <2>1, <2>2, <3>1 DEF NotesInv, NoteTypes, NotesTypeOK
  <2>4. NothingIsForgotten' BY <2>1 DEF NothingIsForgotten
  <2>5. ASSUME NEW v \in Writers PROVE Fits(v)'
    <3>1. CASE at[v] \in {"writing", "written"}
      <4>1. owed' = [entries |-> owed.entries \cap S, glued |-> owed.glued \cap G]
        BY <2>1, <3>1 DEF InWindow
      <4>2. QED BY <2>1, <4>1 DEF NotesInv, WritersFit, Fits, Decided, Names
    <3>2. CASE at[v] \notin {"writing", "written"}
      BY <2>1, <3>2 DEF NotesInv, WritersFit, Fits
    <3>3. QED BY <3>1, <3>2
  <2>6. QED BY <2>3, <2>4, <2>5 DEF NotesInv, WritersFit
<1>9. ASSUME NEW e \in Entry,
             \/ Edit(mfile.entries \cup {e}, mfile.glued)
             \/ Edit(mfile.entries \ {e}, mfile.glued \ {e})
             \/ e \in mfile.entries /\ Edit(mfile.entries, mfile.glued \cup {e})
      PROVE  NotesInv'
  <2>1. /\ mfile.entries \in SUBSET Entry /\ mfile.glued \in SUBSET Entry
        /\ mfile.glued \subseteq mfile.entries /\ IsFiniteSet(mfile.entries)
    BY DEF NotesInv, NoteTypes, NotesTypeOK
  <2>2. IsFiniteSet(mfile.entries \cup {e}) /\ IsFiniteSet(mfile.entries \ {e})
    BY <2>1, FS_AddElement, FS_Subset
  <2>3. CASE Edit(mfile.entries \cup {e}, mfile.glued)
    BY <1>8, <2>1, <2>2, <2>3
  <2>4. CASE Edit(mfile.entries \ {e}, mfile.glued \ {e})
    BY <1>8, <2>1, <2>2, <2>4
  <2>5. CASE e \in mfile.entries /\ Edit(mfile.entries, mfile.glued \cup {e})
    BY <1>8, <2>1, <2>2, <2>5
  <2>6. QED BY <1>9, <2>3, <2>4, <2>5
<1>10. ASSUME NEW s \in Stores, Die(s) PROVE NotesInv'
  <2>1. /\ \A w \in Writers : IF StoreOf[w] = s
                               THEN at'[w] = "idle" /\ op'[w] = NoCall
                               ELSE at'[w] = at[w] /\ op'[w] = op[w] /\ seen'[w] = seen[w]
        /\ flock' = IF flock # NoWriter /\ StoreOf[flock] = s THEN NoWriter ELSE flock
        /\ live' = [live EXCEPT ![s] = mfile.entries] /\ UNCHANGED <<mfile, owed>>
    BY <1>10 DEF Die
  <2>2. NoteTypes'
    <3>1. at' \in [Writers -> {"idle", "waiting", "locked", "writing", "written", "done"}]
      BY <1>10 DEF Die, NotesInv, NoteTypes, NotesTypeOK
    <3>2. op' \in [Writers -> Operations \cup {NoCall}]
      BY <1>10 DEF Die, NotesInv, NoteTypes
    <3>3. seen' \in [Writers -> [entries : SUBSET Entry, glued : SUBSET Entry, readable : BOOLEAN]]
      BY <1>10 DEF Die, NotesInv, NoteTypes, Unread
    <3>4. live' \in [Stores -> SUBSET Entry] /\ \A x \in Stores : IsFiniteSet(live'[x])
      BY <2>1 DEF NotesInv, NoteTypes, NotesTypeOK
    <3>5. flock' \in Writers \cup {NoWriter}
      BY <2>1 DEF NotesInv, NoteTypes, NotesTypeOK
    <3>6. QED BY <2>1, <3>1, <3>2, <3>3, <3>4, <3>5 DEF NotesInv, NoteTypes, NotesTypeOK
  <2>3. ASSUME NEW w \in Writers PROVE Fits(w)'
    <3>1. CASE StoreOf[w] = s
      BY <2>1, <3>1 DEF Fits
    <3>2. CASE StoreOf[w] # s
      <4>1. /\ at'[w] = at[w] /\ op'[w] = op[w] /\ seen'[w] = seen[w] /\ owed' = owed
            /\ live'[StoreOf[w]] = live[StoreOf[w]]
        BY <2>1, <3>2, StoreAssumption DEF NotesInv, NoteTypes, NotesTypeOK
      <4>2. flock = w => flock' = w BY <2>1, <3>2
      <4>3. QED BY <4>1, <4>2 DEF NotesInv, WritersFit, Fits, Decided, Names
    <3>3. QED BY <3>1, <3>2
  <2>4. QED BY <2>1, <2>2, <2>3 DEF NotesInv, WritersFit, NothingIsForgotten
<1>11. CASE UNCHANGED notes
  BY <1>11 DEF notes, NotesInv, NoteTypes, NotesTypeOK, NothingIsForgotten, WritersFit,
     Fits, Decided, Names
<1>12. QED
  BY <1>1, <1>2, <1>3, <1>4, <1>5, <1>6, <1>7, <1>9, <1>10, <1>11 DEF NotesNext

HIDE DEF Inside

-----------------------------------------------------------------------------
(* The parts together *)

(* What each part keeps, whichever of them moves.                          *)
MemoryInv == FlushInv /\ NotesInv /\ SyncInv /\ ArchiveInv

(* The memory of a session, in any behaviour of its parts, for any number  *)
(* of jobs, turns, folds, writers, sessions and processes.                 *)
THEOREM MemoryIsSound == MemorySpec => []MemoryInv
<1>1. MemoryInit => MemoryInv
  BY FlushStarts, NotesStart, SyncStarts, ArchiveStarts DEF MemoryInit, MemoryInv
<1>2. MemoryInv /\ [MemoryNext]_<<part, vars, notes, syncs, archive>> => MemoryInv'
  <2> SUFFICES ASSUME MemoryInv, [MemoryNext]_<<part, vars, notes, syncs, archive>>
               PROVE  MemoryInv'
    OBVIOUS
  <2>1. [Next]_vars BY DEF MemoryNext
  <2>2. [SyncNext]_syncs BY DEF MemoryNext
  <2>3. [ArchiveNext]_archive BY DEF MemoryNext
  <2>4. [NotesNext]_notes BY DEF MemoryNext
  <2> QED
    BY <2>1, <2>2, <2>3, <2>4, FlushStep, NotesStep, SyncStep, ArchiveStep DEF MemoryInv
<1> QED BY <1>1, <1>2, PTL DEF MemorySpec

(* What is remembered, taught and recalled was earned: memory learns from  *)
(* turns that completed, the provider is taught each accepted turn once    *)
(* and in order, and recall and resume read what turns really left.        *)
THEOREM MemoryHolds == MemorySpec => []MemoryIsKept
<1>1. MemoryInv => MemoryIsKept
  BY SyncIsEnough, ArchiveIsEnough
     DEF MemoryInv, FlushInv, MemoryFits, MemoryIsKept
<1> QED BY <1>1, MemoryIsSound, PTL

(* A compaction cycle is flushed once: neither the job prefired for it nor *)
(* the turn's own flush repeats the other, but where a turn raced its own  *)
(* job (`raced`).                                                          *)
THEOREM FlushesAreSingle == MemorySpec => []CyclesAreFlushedOnce
<1>1. MemoryInv => CyclesAreFlushedOnce
  BY AtMostOne, OnceIsEnough
     DEF MemoryInv, FlushInv, Fields, SlotFits, CyclesAreFlushedOnce
<1> QED BY <1>1, MemoryIsSound, PTL

(* What a writer saved and what somebody else put into the curated file    *)
(* stays until a call names it or an editor takes it out, for any number   *)
(* of writers, processes, entries and operations in a batch; and no call   *)
(* makes the file larger than its limit (NotesAreSafe).                    *)
THEOREM NotesHold == MemorySpec => []NotesAreSafe
<1>1. MemoryInv => NotesAreSafe
  BY NotesAreSafeThen DEF MemoryInv
<1> QED BY <1>1, MemoryIsSound, PTL
=============================================================================
