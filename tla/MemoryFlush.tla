------------------------------ MODULE MemoryFlush ------------------------------
(***************************************************************************)
(* Memory extraction beside the turn (src/src/codedoggy/context/prefire.py,*)
(* compactor.py, memory_flush.py, suppress.py).                            *)
(*                                                                         *)
(* Once per compaction cycle the transcript is summarised into memory: by  *)
(* a job on a background worker, started before the tools run, or by the   *)
(* turn itself in ensure().  Results are staged, and finalize_turn commits *)
(* them only when the turn completed.  A step is a critical section of the *)
(* controller, a wait, or the turn's work between two of them; the worker, *)
(* which other sessions share, may be slow or hang.                        *)
(***************************************************************************)
EXTENDS Integers, FiniteSets, Sequences, SequencesExt

CONSTANTS Jobs, NoJob,     \* futures of the pool
          MaxTurns,        \* bound of _turn_epoch
          MaxFolds,        \* bound of compaction_count
          MaxEnds          \* bound on session boundaries

ASSUME FlushAssumption ==
    NoJob \notin Jobs /\ {MaxTurns, MaxFolds, MaxEnds} \subseteq Nat

VARIABLES
    pc,            \* where the turn's thread is
    completed,     \* the outcome finalize_turn was given
    epoch, active, \* _turn_epoch, _turn_active
    cycle,         \* compaction_count
    lastCycle,     \* last_flush_cycle
    prior,         \* _turn_prior_flush_cycle
    pending,       \* _pending_flushes
    sticky,        \* the suppressor's level is STICKY
    future,        \* the controller's _future
    futureEpoch,   \* _prefire_epoch
    job            \* what the worker knows of each future

(* History: read by the properties only. *)
VARIABLES
    ends,          \* session boundaries so far
    memory,        \* what was committed: of whose transcript, by which turn
    failed,        \* turns that ended otherwise than completed
    outlived,      \* turns whose job outlived a session boundary
    raced,         \* turns that flushed beside an unread result of their own
    settled        \* cycles of this session a completed or a raised turn used

turn == <<epoch, active, cycle, lastCycle, prior, pending, sticky>>
worker == <<future, futureEpoch, job>>
history == <<ends, memory, failed, outlived, raced, settled>>
vars == <<pc, completed, turn, worker, history>>

None == -1
Free == [at |-> "free", turn |-> 0, cycle |-> 0, accepted |-> FALSE]

Init ==
    /\ pc = "idle" /\ completed = FALSE
    /\ epoch = 0 /\ active = FALSE /\ cycle = 0 /\ lastCycle = None /\ prior = None
    /\ pending = <<>> /\ sticky = FALSE
    /\ future = NoJob /\ futureEpoch = None /\ job = [j \in Jobs |-> Free]
    /\ ends = 0 /\ memory = {} /\ failed = {} /\ outlived = {} /\ raced = {} /\ settled = {}

-----------------------------------------------------------------------------
(* The controller and its worker *)

Outstanding(j) == job[j].at \in {"queued", "running"}
IsRunning == future # NoJob /\ Outstanding(future)
Done == future # NoJob /\ job[future].at = "done"

(* The future is forgotten: what is still running goes on without owner.   *)
Forget ==
    /\ future' = NoJob
    /\ job' = IF Done THEN [job EXCEPT ![future] = Free] ELSE job

(* The result is taken, and counts for this turn unless another turn or an *)
(* earlier session boundary says otherwise.                                *)
AnyTurns == TRUE
Mine == futureEpoch \in {None, epoch}
Staged(r) == IF r.accepted /\ active
             THEN Append(pending, [turn |-> r.turn, cycle |-> r.cycle]) ELSE pending
TakenUncounted ==
    /\ Forget /\ futureEpoch' = None /\ UNCHANGED lastCycle
    /\ pending' = IF Mine THEN Staged(job[future]) ELSE pending
TakenButKept ==
    /\ job' = [job EXCEPT ![future] = Free] /\ futureEpoch' = None /\ UNCHANGED future
    /\ UNCHANGED <<lastCycle, pending>>
Take ==
    /\ Forget
    /\ futureEpoch' = None
    /\ IF Mine THEN lastCycle' = cycle /\ pending' = Staged(job[future])
               ELSE UNCHANGED <<lastCycle, pending>>
SameTurn == UNCHANGED <<epoch, active, cycle, prior, sticky>>

(* join(timeout_s): the result, or the future is kept for later.           *)
JoinForever(next) ==
    /\ Done /\ Take /\ pc' = next
    /\ SameTurn /\ UNCHANGED <<completed, history>>
JoinForgets(next) ==
    /\ \/ Done /\ Take
       \/ ~Done /\ Forget /\ UNCHANGED <<futureEpoch, lastCycle, pending>>
    /\ pc' = next
    /\ SameTurn /\ UNCHANGED <<completed, history>>
Join(next) ==
    /\ \/ Done /\ Take
       \/ ~Done /\ UNCHANGED <<worker, lastCycle, pending>>
    /\ pc' = next
    /\ SameTurn /\ UNCHANGED <<completed, history>>

(* The pool has one worker for every session of the process.               *)
WorkerStarts(j) ==
    /\ job[j].at = "queued" /\ \A k \in Jobs : job[k].at # "running"
    /\ job' = [job EXCEPT ![j].at = "running"]
    /\ UNCHANGED <<pc, completed, turn, future, futureEpoch, history>>
WorkerEnds(j) ==
    /\ job[j].at = "running"
    /\ \E ok \in BOOLEAN :
         job' = [job EXCEPT ![j] = IF future = j
                   THEN [@ EXCEPT !.at = "done", !.accepted = ok] ELSE Free]
    /\ UNCHANGED <<pc, completed, turn, future, futureEpoch, history>>

-----------------------------------------------------------------------------
(* One turn *)

OnTurnStart ==
    /\ pc = "idle" /\ epoch < MaxTurns
    /\ pc' = "ensure" /\ epoch' = epoch + 1 /\ active' = TRUE
    /\ pending' = <<>> /\ prior' = lastCycle
    /\ UNCHANGED <<completed, cycle, lastCycle, sticky, worker, history>>

(* ensure: a sticky failure ends it; a finished prefire is read at once, a *)
(* running one is waited for only under hard pressure.                     *)
Suppressed ==
    /\ pc = "ensure" /\ sticky /\ pc' = "sample"
    /\ UNCHANGED <<completed, turn, worker, history>>
TryJoin ==
    /\ pc = "ensure" /\ ~sticky
    /\ IF Done THEN Take /\ pc' = "decide"
       ELSE pc' \in {"join", "decide"} /\ UNCHANGED <<worker, lastCycle, pending>>
    /\ SameTurn /\ UNCHANGED <<completed, history>>
EnsureJoin == pc = "join" /\ Join("decide")

(* The soft threshold is reached and this cycle has had no flush.          *)
ShouldFlush == lastCycle # cycle
Decide ==
    /\ pc = "decide"
    /\ \/ ShouldFlush /\ ~IsRunning /\ pc' = "flush"
          /\ raced' = IF Done THEN raced \cup {epoch} ELSE raced
       \/ pc' = "fold" /\ UNCHANGED raced
    /\ UNCHANGED <<completed, turn, worker, ends, memory, failed, outlived, settled>>
SyncFlush ==
    /\ pc = "flush" /\ pc' = "fold" /\ lastCycle' = cycle
    /\ \E ok \in BOOLEAN :
         pending' = Staged([turn |-> epoch, cycle |-> cycle, accepted |-> ok])
    /\ SameTurn /\ UNCHANGED <<completed, worker, history>>
Fold ==
    /\ pc = "fold" /\ pc' = "sample"
    /\ \/ UNCHANGED <<cycle, sticky>>                  \* no need, or no savings
       \/ cycle < MaxFolds /\ cycle' = cycle + 1 /\ UNCHANGED sticky
       \/ sticky' = TRUE /\ UNCHANGED cycle            \* the fold raised
    /\ UNCHANGED <<completed, epoch, active, lastCycle, prior, pending, worker, history>>

(* schedule_prefire_flush, before the tools of the sample run.             *)
Submit ==
    \E j \in Jobs :
      /\ job[j].at = "free" /\ future' = j /\ futureEpoch' = epoch
      /\ job' = [[k \in Jobs |-> IF Done /\ k = future THEN Free ELSE job[k]]
                   EXCEPT ![j] = [at |-> "queued", turn |-> epoch, cycle |-> cycle, accepted |-> FALSE]]
Schedule ==
    /\ pc = "sample" /\ pc' = "tools"
    /\ \/ ShouldFlush /\ ~IsRunning /\ Submit
       \/ UNCHANGED worker
    /\ UNCHANGED <<completed, turn, history>>
NextRound ==
    /\ pc \in {"sample", "tools"} /\ pc' = "ensure"
    /\ UNCHANGED <<completed, turn, worker, history>>

(* The loop ends; or it raises, and finalize_turn is never called.         *)
LoopEnds ==
    /\ pc \in {"ensure", "sample", "tools"} /\ pc' = "finalize"
    /\ completed' \in (IF pc = "ensure" THEN {FALSE} ELSE BOOLEAN)
    /\ UNCHANGED <<turn, worker, history>>
LoopRaises ==
    /\ pc \in {"ensure", "sample", "tools"} /\ pc' = "idle"
    /\ settled' = settled \cup {lastCycle} /\ failed' = failed \cup {epoch}
    /\ UNCHANGED <<completed, turn, worker, ends, memory, outlived, raced>>

-----------------------------------------------------------------------------
(* finalize_turn *)

FinalTryJoin ==
    /\ pc = "finalize"
    /\ IF Done THEN Take /\ pc' = "commit"
       ELSE /\ UNCHANGED <<worker, lastCycle, pending>>
            /\ pc' = IF completed THEN "recheck" ELSE "commit"
    /\ SameTurn /\ UNCHANGED <<completed, history>>
FinalRecheck ==                  \* is_running, read after try_join
    /\ pc = "recheck" /\ pc' = IF IsRunning THEN "lastJoin" ELSE "commit"
    /\ UNCHANGED <<completed, turn, worker, history>>
FinalJoin == pc = "lastJoin" /\ Join("commit")

(* cancel_pending: a queued job is cancelled, a running one is kept.       *)
KeepsSlot ==
    /\ UNCHANGED <<lastCycle, futureEpoch>>
    /\ IF future # NoJob /\ job[future].at = "running" THEN UNCHANGED <<future, job>>
       ELSE future' = NoJob /\ job' = [j \in Jobs |-> IF j = future THEN Free ELSE job[j]]
CancelPending ==
    IF future # NoJob /\ job[future].at = "running" THEN UNCHANGED <<future, job>>
    ELSE future' = NoJob /\ job' = [j \in Jobs |-> IF j = future THEN Free ELSE job[j]]
GiveBack == lastCycle' = prior /\ CancelPending /\ UNCHANGED futureEpoch
Committed == {[of |-> r.turn, by |-> epoch] : r \in ToSet(pending)}
CommitAlways ==
    /\ pc = "commit" /\ pc' = "idle" /\ pending' = <<>> /\ active' = FALSE
    /\ memory' = memory \cup Committed
    /\ settled' = IF completed THEN settled \cup {lastCycle} ELSE settled
    /\ failed' = IF completed THEN failed ELSE failed \cup {epoch}
    /\ IF completed THEN UNCHANGED <<lastCycle, worker>> ELSE GiveBack
    /\ UNCHANGED <<completed, epoch, cycle, prior, sticky, ends, outlived, raced>>
Commit ==
    /\ pc = "commit" /\ pc' = "idle" /\ pending' = <<>> /\ active' = FALSE
    /\ IF completed
       THEN /\ memory' = memory \cup Committed
            /\ settled' = settled \cup {lastCycle}
            /\ UNCHANGED <<lastCycle, worker, failed>>
       ELSE GiveBack /\ failed' = failed \cup {epoch} /\ UNCHANGED <<memory, settled>>
    /\ UNCHANGED <<completed, epoch, cycle, prior, sticky, ends, outlived, raced>>

(* on_session_end: a new session, or the close; then prefire.clear() waits *)
(* five seconds.                                                           *)
OnSessionEnd ==
    /\ pc = "idle" /\ ends < MaxEnds /\ pc' = "clear" /\ ends' = ends + 1
    /\ cycle' = 0 /\ lastCycle' = None /\ pending' = <<>> /\ active' = FALSE
    /\ sticky' = FALSE /\ futureEpoch' = None /\ settled' = {}
    /\ UNCHANGED <<completed, epoch, prior, future, job, memory, failed, outlived, raced>>
Clear ==
    /\ pc = "clear" /\ pc' = "idle" /\ CancelPending
    /\ outlived' = IF future' # NoJob THEN outlived \cup {job[future].turn} ELSE outlived
    /\ UNCHANGED <<completed, turn, futureEpoch, ends, memory, failed, raced, settled>>

TurnStep ==
    \/ OnTurnStart \/ Suppressed \/ TryJoin \/ EnsureJoin \/ Decide \/ SyncFlush \/ Fold
    \/ Schedule \/ NextRound \/ LoopEnds \/ LoopRaises
    \/ FinalTryJoin \/ FinalRecheck \/ FinalJoin \/ Commit \/ OnSessionEnd \/ Clear
Next == TurnStep \/ \E j \in Jobs : WorkerStarts(j) \/ WorkerEnds(j)
Spec == Init /\ [][Next]_vars

(* Only the turn's own thread is fair: the worker may hang for ever.       *)
FairSpec == Spec /\ WF_vars(TurnStep)
-----------------------------------------------------------------------------
(* Properties *)

(* The types; a future points at a job the worker knows, and results are   *)
(* staged for the current turn only (PrefireController, finalize_turn).    *)
TypeOK ==
    /\ pc \in {"idle", "ensure", "join", "decide", "flush", "fold", "sample", "tools",
              "finalize", "recheck", "lastJoin", "commit", "clear"}
    /\ epoch \in 0 .. MaxTurns /\ cycle \in 0 .. MaxFolds
    /\ {lastCycle, prior} \subseteq None .. MaxFolds
    /\ futureEpoch \in None .. epoch /\ {active, sticky, completed} \subseteq BOOLEAN
    /\ future \in Jobs \cup {NoJob} /\ (future # NoJob => job[future].at # "free")
    /\ \A j \in Jobs : job[j].turn \in 0 .. epoch /\ job[j].cycle \in 0 .. MaxFolds
    /\ pc \notin {"idle", "clear"} => active

(* A turn teaches memory its own transcript only: a job that outlives its  *)
(* turn is never read by the next one (the comment in on_turn_start).  The *)
(* session boundary forgets whose job it was, and is the exception.        *)
OwnTranscript == \A c \in memory : c.of = c.by \/ c.of \in outlived

(* What a cancelled, failed or raised turn said never becomes memory, nor  *)
(* by a job that ends later (the outcome gate of finalize_turn).           *)
OnlyCompletedTurnsTeach == \A c \in memory : c.of \notin failed \/ c.of \in outlived

(* Memory learns from completed turns, and from each its own transcript.   *)
MemoryIsEarned == OwnTranscript /\ OnlyCompletedTurnsTeach

(* The controller starts no second flush while one runs, on the worker or  *)
(* in the turn, whatever timed out before (join, submit, ensure).          *)
OneFlushAtATime ==
    Cardinality({j \in Jobs : Outstanding(j)}) + (IF pc = "flush" THEN 1 ELSE 0) <= 1

(* A turn stages its transcript of a cycle at most once, unless its job   *)
(* ended between ensure's try_join and its is_running.                     *)
OneFlushPerCycle ==
    \A a, b \in DOMAIN pending :
      a # b /\ pending[a] = pending[b] => epoch \in raced

(* Between turns a cycle counts as flushed only if a completed turn used   *)
(* it: an aborted one gives it back (a turn that raises does not).         *)
SlotsAreEarned == pc = "idle" => lastCycle \in settled \cup {None}

(* A cycle of the compactor is flushed once, by one flush, if it is used.  *)
CyclesAreFlushedOnce == TypeOK /\ OneFlushAtATime /\ OneFlushPerCycle /\ SlotsAreEarned

(* A hung worker holds up neither a fold, nor the end of a turn, nor the   *)
(* session's: every wait for it has a deadline.                            *)
WaitsForWorker == pc \in {"join", "finalize", "recheck", "lastJoin", "commit", "clear"}
HungWorkerHoldsNothing == WaitsForWorker ~> ~WaitsForWorker
=============================================================================
