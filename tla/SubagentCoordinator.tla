------------------------- MODULE SubagentCoordinator -------------------------
(***************************************************************************)
(* The coordinator of child agents                                         *)
(* (src/src/codedoggy/orchestration/subagent.py, SubagentCoordinator).     *)
(*                                                                         *)
(* Tool threads of the main turn spawn children, resume them, cancel them  *)
(* and wait for them; every run of a child is a job of one thread pool;    *)
(* the session's close shuts the coordinator down.  With a nesting limit   *)
(* above 1 a running child is itself a caller: it then blocks a worker of  *)
(* the pool it waits for.                                                  *)
(*                                                                         *)
(* A step is one critical section of the coordinator's _lock, one call of  *)
(* the pool, or the unlocked assignment entry.future = fut.  A run of      *)
(* child c is <<c, n>>, n the resume count it was scheduled with; it also  *)
(* names the run's Future and its cancellation Event.  Transcripts, model  *)
(* pins and listeners are not modelled.                                    *)
(***************************************************************************)
EXTENDS Naturals, FiniteSets

CONSTANTS Children,      \* subagent ids
          Callers,       \* tool threads of the main turn
          Main,          \* the main session, parent of what Callers spawn
          MaxWorkers,    \* size of the thread pool
          MaxDepth,      \* effective_max_subagent_depth()
          MaxResumes     \* bound on the resumes of one child

ASSUME CoordinatorAssumption ==
    /\ Main \notin Children
    /\ MaxWorkers \in Nat \ {0}
    /\ MaxDepth \in Nat \ {0}
    /\ MaxResumes \in Nat

Runs == Children \X (0 .. MaxResumes)
Actors == Callers \cup Runs
NoRun == <<Main, 0>>
NoFuture == MaxResumes + 1                     \* entry.future is None
Active == {"pending", "running"}               \* SubagentSnapshot.is_running
Results == {"completed", "failed", "cancelled"}
Places == {"parent", "cwd", "worktree"}

VARIABLES
    status,      \* entry.snapshot.status of each child; "none": no entry
    latest,      \* entry.resume_count
    token,       \* entry.cancel, named by the run it was made for
    future,      \* entry.future, named by its run's resume count
    parent,      \* request.parent_session_id
    depth,       \* request.spawn_depth + 1: the child's own depth
    place,       \* where the request makes the child work
    job,         \* what the pool knows of each run
    outcome,     \* what run_fn returned, not yet stored
    fired,       \* the Events that are set
    poolDown,    \* the pool refuses new jobs
    shut,        \* where shutdown() is
    awaited,     \* the futures shutdown() waits for
    pc,          \* where each caller and each running child is
    call         \* the run each call is about

(* History: read by the properties only, except known. *)
VARIABLES
    known,       \* children whose id was returned to a caller
    cancelled    \* runs that a cancel or a shutdown was aimed at

entries == <<status, latest, token, future, parent, depth, place>>
pool    == <<job, outcome, poolDown>>
closing == <<shut, awaited>>
calls   == <<pc, call>>
history == <<known, cancelled>>
vars == <<entries, pool, fired, closing, calls, history>>

JobStates == {"none", "queued",
              "picked",   \* a worker took it
              "working",  \* inside run_fn
              "left",     \* run_fn returned or raised
              "stored",   \* result in the entry, listeners being told
              "done",     \* Future finished
              "dropped"}  \* Future cancelled by shutdown
Labels == {"idle", "submit", "assign", "block", "wait"}

TypeOK ==
    /\ status \in [Children -> {"none"} \cup Active \cup Results]
    /\ latest \in [Children -> 0 .. MaxResumes]
    /\ token \in [Children -> Runs]
    /\ future \in [Children -> 0 .. NoFuture]
    /\ parent \in [Children -> Children \cup {Main}]
    /\ depth \in [Children -> 0 .. MaxDepth]
    /\ place \in [Children -> Places]
    /\ job \in [Runs -> JobStates]
    /\ outcome \in [Runs -> Results \cup {"none"}]
    /\ fired \subseteq Runs
    /\ poolDown \in BOOLEAN
    /\ shut \in {"open", "signalled", "joining", "joined", "gave_up"}
    /\ awaited \subseteq Runs
    /\ pc \in [Actors -> Labels]
    /\ call \in [Actors -> Runs \cup {NoRun}]
    /\ known \subseteq Children
    /\ cancelled \subseteq Runs

Init ==
    /\ status = [c \in Children |-> "none"]
    /\ latest = [c \in Children |-> 0]
    /\ token = [c \in Children |-> <<c, 0>>]
    /\ future = [c \in Children |-> NoFuture]
    /\ parent = [c \in Children |-> Main]
    /\ depth = [c \in Children |-> 0]
    /\ place = [c \in Children |-> "parent"]
    /\ job = [r \in Runs |-> "none"]
    /\ outcome = [r \in Runs |-> "none"]
    /\ fired = {} /\ poolDown = FALSE
    /\ shut = "open" /\ awaited = {}
    /\ pc = [a \in Actors |-> "idle"]
    /\ call = [a \in Actors |-> NoRun]
    /\ known = {} /\ cancelled = {}

-----------------------------------------------------------------------------
(* Who may call, and for whom *)

Latest(c) == <<c, latest[c]>>
Home(a) == IF a \in Callers THEN Main ELSE a[1]           \* its session id
DepthOf(a) == IF a \in Callers THEN 0 ELSE depth[a[1]]

(* The main turn is over before the coordinator is shut down (Session's      *)
(* TeardownBarrier); a child calls while it runs, and one at the nesting     *)
(* limit has neither the task tool nor the coordinator.                      *)
MayCall(a) ==
    /\ pc[a] = "idle"
    /\ IF a \in Callers THEN shut = "open" ELSE job[a] = "working"
    /\ DepthOf(a) < MaxDepth

(* Past the registration: the caller goes on to the pool. *)
GoSubmit(a, r) ==
    /\ pc' = [pc EXCEPT ![a] = "submit"]
    /\ call' = [call EXCEPT ![a] = r]

(* The caller is back with its tool result; the id is now known to it.       *)
Return(a) ==
    /\ pc' = [pc EXCEPT ![a] = "idle"]
    /\ call' = [call EXCEPT ![a] = NoRun]
    /\ known' = known \cup {call[a][1]}

-----------------------------------------------------------------------------
(* Dispatch *)

(* spawn: register a pending entry under the lock. *)
Spawn(a, c) ==
    /\ MayCall(a)
    /\ status[c] = "none"
    /\ status' = [status EXCEPT ![c] = "pending"]
    /\ parent' = [parent EXCEPT ![c] = Home(a)]
    /\ depth' = [depth EXCEPT ![c] = DepthOf(a) + 1]
    /\ \E p \in Places : place' = [place EXCEPT ![c] = p]
    /\ GoSubmit(a, <<c, 0>>)
    /\ UNCHANGED <<latest, token, future, pool, fired, closing, known, cancelled>>

(* spawn with a type nobody defines: a failed entry, nothing is scheduled.   *)
SpawnUnknown(a, c) ==
    /\ MayCall(a)
    /\ status[c] = "none"
    /\ status' = [status EXCEPT ![c] = "failed"]
    /\ parent' = [parent EXCEPT ![c] = Home(a)]
    /\ known' = known \cup {c}
    /\ UNCHANGED <<latest, token, future, depth, place, pool, fired, closing,
                   calls, cancelled>>

(* Mutants: a cancelled child can be resumed; a resume keeps the old Event.  *)
ResumableUnlessActive(c) == status[c] \in {"completed", "cancelled"}
KeepEvent(c) == UNCHANGED token

(* Only a completed child is resumed. *)
Resumable(c) == status[c] = "completed"

(* A resumed child gets an Event of its own. *)
NewEvent(c) == token' = [token EXCEPT ![c] = <<c, latest[c] + 1>>]

(* resume: the new request carries the worktree, not the cwd, and is made    *)
(* with the default spawn_depth of 0.                                        *)
Resume(a, c) ==
    /\ MayCall(a)
    /\ c \in known
    /\ Resumable(c)
    /\ parent[c] = Home(a)
    /\ latest[c] < MaxResumes
    /\ status' = [status EXCEPT ![c] = "pending"]
    /\ latest' = [latest EXCEPT ![c] = @ + 1]
    /\ NewEvent(c)
    /\ depth' = [depth EXCEPT ![c] = 1]
    /\ place' = [place EXCEPT ![c] = IF @ = "worktree" THEN @ ELSE "parent"]
    /\ GoSubmit(a, <<c, latest[c] + 1>>)
    /\ UNCHANGED <<future, parent, pool, fired, closing, history>>

(* _schedule hands the job to the pool, which raises once it is shut down:   *)
(* the entry then stays pending.                                             *)
Submit(a) ==
    /\ pc[a] = "submit"
    /\ \/ /\ ~poolDown
          /\ job' = [job EXCEPT ![call[a]] = "queued"]
          /\ pc' = [pc EXCEPT ![a] = "assign"]
          /\ UNCHANGED <<call, known>>
       \/ /\ poolDown
          /\ Return(a)
          /\ UNCHANGED job
    /\ UNCHANGED <<entries, outcome, poolDown, fired, closing, cancelled>>

(* _schedule stores the future without the lock; a foreground caller then    *)
(* blocks on it, without a timeout.                                          *)
Assign(a) ==
    /\ pc[a] = "assign"
    /\ future' = [future EXCEPT ![call[a][1]] = call[a][2]]
    /\ \/ Return(a)
       \/ /\ pc' = [pc EXCEPT ![a] = "block"]
          /\ UNCHANGED <<call, known>>
    /\ UNCHANGED <<status, latest, token, parent, depth, place, pool, fired,
                   closing, cancelled>>

Settled(r) == job[r] \in {"done", "dropped"}

(* fut.result() returns, or raises CancelledError. *)
Unblock(a) ==
    /\ pc[a] = "block"
    /\ Settled(call[a])
    /\ Return(a)
    /\ UNCHANGED <<entries, pool, fired, closing, cancelled>>

-----------------------------------------------------------------------------
(* The pool *)

(* Mutant: a worker that finished its job is not given back.                 *)
BusyForever(r) == job[r] \in {"picked", "working", "left", "stored", "done"}

(* The jobs that hold a worker. *)
Busy(r) == job[r] \in {"picked", "working", "left", "stored"}
SetJob(r, s) == job' = [job EXCEPT ![r] = s]

(* A worker takes a job from the queue. *)
Pick(r) ==
    /\ job[r] = "queued"
    /\ Cardinality({q \in Runs : Busy(q)}) < MaxWorkers
    /\ SetJob(r, "picked")
    /\ UNCHANGED <<entries, outcome, poolDown, fired, closing, calls, history>>

(* _job: whatever the entry says by now, the child is running. *)
BeginRun(r) ==
    /\ job[r] = "picked"
    /\ SetJob(r, "working")
    /\ status' = [status EXCEPT ![r[1]] = "running"]
    /\ UNCHANGED <<latest, token, future, parent, depth, place, outcome,
                   poolDown, fired, closing, calls, history>>

(* run_fn returns or raises ("failed"); it reports a cancellation only if it *)
(* saw its Event, and may well be through before it looks.                   *)
RunReturns(r) ==
    /\ job[r] = "working"
    /\ pc[r] = "idle"
    /\ \E o \in Results :
          /\ o = "cancelled" => token[r[1]] \in fired
          /\ outcome' = [outcome EXCEPT ![r] = o]
    /\ SetJob(r, "left")
    /\ UNCHANGED <<entries, poolDown, fired, closing, calls, history>>

(* Mutant: a run that raised leaves the entry as it is.                      *)
StoredStatusUnlessFailed(r) ==
    IF outcome[r] = "failed" THEN status[r[1]] ELSE outcome[r]

(* The snapshot of the run replaces whatever the entry says. *)
StoredStatus(r) == outcome[r]

(* _job stores the result under the lock. *)
StoreResult(r) ==
    /\ job[r] = "left"
    /\ SetJob(r, "stored")
    /\ status' = [status EXCEPT ![r[1]] = StoredStatus(r)]
    /\ UNCHANGED <<latest, token, future, parent, depth, place, outcome,
                   poolDown, fired, closing, calls, history>>

(* The listeners were told; the future is set. *)
FinishJob(r) ==
    /\ job[r] = "stored"
    /\ SetJob(r, "done")
    /\ UNCHANGED <<entries, outcome, poolDown, fired, closing, calls, history>>

-----------------------------------------------------------------------------
(* Waiting and cancelling *)

(* wait: the entry's future is read under the lock; an entry without one is  *)
(* answered at once.                                                         *)
Wait(a, c) ==
    /\ MayCall(a)
    /\ c \in known /\ future[c] # NoFuture
    /\ pc' = [pc EXCEPT ![a] = "wait"]
    /\ call' = [call EXCEPT ![a] = <<c, future[c]>>]
    /\ UNCHANGED <<entries, pool, fired, closing, history>>

(* The future is settled: wait answers with the snapshot of the entry.       *)
WaitAnswered(a) ==
    /\ pc[a] = "wait"
    /\ Settled(call[a])
    /\ Return(a)
    /\ UNCHANGED <<entries, pool, fired, closing, cancelled>>

(* The wait budget ran out. *)
WaitTimesOut(a) ==
    /\ pc[a] = "wait"
    /\ Return(a)
    /\ UNCHANGED <<entries, pool, fired, closing, cancelled>>

(* cancel, from a tool or from the host: also a child that is over.          *)
Cancel(c) ==
    /\ status[c] # "none"
    /\ fired' = fired \cup {token[c]}
    /\ cancelled' = cancelled \cup {Latest(c)}
    /\ status' = [status EXCEPT ![c] = "cancelled"]
    /\ UNCHANGED <<latest, token, future, parent, depth, place, pool, closing,
                   calls, known>>

-----------------------------------------------------------------------------
(* Shutdown, by the thread that closes the session *)

(* Mutant: a child that was not started yet is not signalled.                *)
SignalledIfRunning(c) == status[c] = "running"

(* Which children shutdown signals. *)
Signalled(c) == status[c] \in Active

(* Mutant: an entry without a future is waited for as well.                  *)
AwaitedAll == {<<c, future[c]>> : c \in {d \in Children : status[d] # "none"}}

(* The futures shutdown waits for. *)
Awaited == {<<c, future[c]>> : c \in {d \in Children : future[d] # NoFuture}}

(* The locked block: signal the active children, collect the futures.        *)
(* _closed is set as well, and never read.                                   *)
ShutdownSignals ==
    /\ shut = "open"
    /\ \A k \in Callers : pc[k] = "idle"
    /\ shut' = "signalled"
    /\ fired' = fired \cup {token[c] : c \in {d \in Children : Signalled(d)}}
    /\ cancelled' = cancelled \cup {Latest(c) : c \in {d \in Children : Signalled(d)}}
    /\ awaited' = Awaited
    /\ UNCHANGED <<entries, pool, calls, known>>

(* pool.shutdown(wait=False, cancel_futures=True): queued jobs are dropped.  *)
ShutdownPool ==
    /\ shut = "signalled"
    /\ shut' = "joining"
    /\ poolDown' = TRUE
    /\ job' = [r \in Runs |-> IF job[r] = "queued" THEN "dropped" ELSE job[r]]
    /\ UNCHANGED <<entries, outcome, fired, awaited, calls, history>>

(* Mutant: the workers are not joined. *)
NotJoined == TRUE

(* pool.shutdown(wait=True) joins every worker, without a timeout.           *)
WorkersJoined == \A r \in Runs : ~Busy(r)

(* Every awaited future finished (a dropped one never counts as done in      *)
(* concurrent.futures.wait); with none to wait for the workers are not       *)
(* joined.                                                                   *)
ShutdownJoins ==
    /\ shut = "joining"
    /\ \A r \in awaited : job[r] = "done"
    /\ awaited # {} => WorkersJoined
    /\ shut' = "joined"
    /\ UNCHANGED <<entries, pool, fired, awaited, calls, history>>

(* Mutant: no timeout. *)
NoBudget == FALSE

(* timeout_s ran out with a future pending. *)
BudgetSpent == \E r \in awaited : job[r] # "done"

(* shutdown returns False. *)
ShutdownGivesUp ==
    /\ shut = "joining"
    /\ BudgetSpent
    /\ shut' = "gave_up"
    /\ UNCHANGED <<entries, pool, fired, awaited, calls, history>>

-----------------------------------------------------------------------------
CallStep(a) == Submit(a) \/ Assign(a) \/ Unblock(a) \/ WaitAnswered(a)
PoolStep(r) == Pick(r) \/ BeginRun(r) \/ StoreResult(r) \/ FinishJob(r)

Next ==
    \/ \E a \in Actors :
          \/ CallStep(a)
          \/ WaitTimesOut(a)
          \/ \E c \in Children : \/ Spawn(a, c) \/ SpawnUnknown(a, c)
                                 \/ Resume(a, c) \/ Wait(a, c)
    \/ \E r \in Runs : PoolStep(r) \/ RunReturns(r)
    \/ \E c \in Children : Cancel(c)
    \/ ShutdownSignals \/ ShutdownPool \/ ShutdownJoins \/ ShutdownGivesUp

Spec == Init /\ [][Next]_vars

(* Threads and workers are scheduled, the clock of shutdown's timeout runs,  *)
(* and a child whose Event is set returns: the agent loop polls it between   *)
(* any two tool calls, so it cannot keep calling.                            *)
Fairness ==
    /\ \A a \in Actors : WF_vars(CallStep(a))
    /\ \A r \in Runs :
          /\ WF_vars(PoolStep(r))
          /\ SF_vars(RunReturns(r) /\ token[r[1]] \in fired)
    /\ WF_vars(ShutdownPool)
    /\ WF_vars(ShutdownJoins)
    /\ WF_vars(ShutdownGivesUp)

FairSpec == Spec /\ Fairness

(* An assumption on the model provider, not on the code: every child comes   *)
(* to an end by itself.                                                      *)
ChildrenEnd == \A r \in Runs : SF_vars(RunReturns(r))

-----------------------------------------------------------------------------
(* Safety *)

Unfinished(r) == job[r] \in {"queued", "picked", "working", "left"}

(* At most one run of a child is scheduled or at work, and it is the one the *)
(* entry is about: two runs of one child would share its worktree, its todo  *)
(* list and its shell state.                                                 *)
OneRunPerChild == \A r \in Runs : Unfinished(r) => r = Latest(r[1])

(* The Event a run polls is set exactly when somebody cancelled that run: a  *)
(* cancelled run that completed all the same can be resumed, and the resumed *)
(* run is not born cancelled.                                                *)
CancelTargetsRun ==
    \A c \in Children :
        status[c] # "none" => (token[c] \in fired <=> Latest(c) \in cancelled)

(* What the entry says of a child agrees with the pool: "completed" means    *)
(* that nothing of it is under way (a resume relies on it), "running" that   *)
(* run_fn was entered, and an active child is being scheduled, is in the     *)
(* pool, or fell to a shutdown.                                              *)
StatusTracksJob ==
    \A c \in Children :
        /\ status[c] = "completed" => job[Latest(c)] \in {"stored", "done"}
        /\ status[c] = "running" => job[Latest(c)] \in {"working", "left"}
        /\ status[c] = "pending" =>
              \/ job[Latest(c)] \in {"queued", "picked"}
              \/ job[Latest(c)] = "none" /\ \E a \in Actors : call[a] = Latest(c)
              \/ poolDown

(* The entry tells the truth about the one run of its child.               *)
RunsAreTracked == TypeOK /\ OneRunPerChild /\ StatusTracksJob

(* Once the pool is down, every child of the main session still under way    *)
(* has its Event set, so that the join which follows can only be short.      *)
(* Not so what a running child of its own dispatched meanwhile: shutdown     *)
(* sets _closed, and nobody reads it.                                        *)
ShutdownReachesAll ==
    poolDown => \A r \in Runs :
        parent[r[1]] = Main /\ job[r] \in {"picked", "working"} => token[r[1]] \in fired

(* When shutdown answers True, no run is under way: what the children        *)
(* borrowed may be torn down.                                                *)
JoinedMeansIdle ==
    shut = "joined" =>
        \A r \in Runs : job[r] \notin {"picked", "working", "left", "stored"}

(* shutdown leaves no child behind that nobody told to stop, and says so.  *)
ShutdownIsOrderly == ShutdownReachesAll /\ JoinedMeansIdle

-----------------------------------------------------------------------------
(* Liveness *)

(* shutdown returns, within its budget, although children that nobody        *)
(* cancels may work for ever.                                                *)
ShutdownReturns == shut = "signalled" ~> shut \in {"joined", "gave_up"}

(* If every child comes to an end, every scheduled run does, through one     *)
(* worker, cancels and a shutdown that drops what is queued.                 *)
ScheduledRunsEnd ==
    ChildrenEnd => \A r \in Runs : job[r] = "queued" ~> Settled(r)

(* If every child comes to an end, a foreground caller, who waits without a  *)
(* timeout, gets its answer.                                                 *)
ForegroundReturns ==
    ChildrenEnd => \A a \in Actors : pc[a] = "block" ~> pc[a] = "idle"

(* A shutdown returns whatever its children do, and children that end let  *)
(* everybody go who waits for them.                                        *)
WaitersGo == ShutdownReturns /\ ScheduledRunsEnd /\ ForegroundReturns

=============================================================================
