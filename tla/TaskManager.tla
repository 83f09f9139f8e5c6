------------------------------ MODULE TaskManager ------------------------------
(***************************************************************************)
(* Background processes of a session                                       *)
(* (src/src/codedoggy/tools/task_manager.py, BackgroundTaskManager).       *)
(*                                                                         *)
(* spawn registers a task before it starts the process, adopt takes over a *)
(* running one, a reaper thread per task watches the process, kill gives   *)
(* the reaper three seconds before it completes the task itself, and every *)
(* registration evicts completed tasks.  A step is a critical section of   *)
(* the manager's or the task's lock, a system call, or a notification.     *)
(***************************************************************************)
EXTENDS Naturals, Sequences, FiniteSets

CONSTANTS Tasks, Killers,
          Foreground,      \* the tasks that come by adopt
          Closer,          \* the thread in close()
          MaxCompleted,    \* MAX_COMPLETED_SNAPSHOTS
          NoTask

ASSUME TaskAssumption ==
    /\ Foreground \subseteq Tasks /\ MaxCompleted \in Nat
    /\ NoTask \notin Tasks /\ Closer \notin Killers

VARIABLES
    closed,      \* _closed
    table,       \* keys of _tasks
    older,       \* pairs of completed tasks, the first with the smaller end_time
    stage,       \* what the thread in spawn or adopt has done
    proc,        \* the operating system's process
    signalled,   \* processes a kill signal was sent to
    snap,        \* completed, killed (explicitly_killed), ok (exit_code = 0)
    wanted,      \* kill_requested
    reaper,      \* what the task's reaper thread does; "ok", "bad": exit_code
    kill,        \* per killer: the task and the step of kill()
    todo,        \* what is left of close's list of ids
    events       \* what listeners heard of each task

(* History: read by the properties only. *)
VARIABLE racers                   \* past the check of _closed when close came

vars == <<closed, table, older, stage, proc, signalled, snap, wanted, reaper,
          kill, todo, events, racers>>
process == <<proc, signalled>>
task == <<snap, older, wanted>>
manager == <<closed, table, todo, racers>>

Agents == Killers \cup {Closer}
Idle == [task |-> NoTask, step |-> "idle"]
Fresh == [completed |-> FALSE, killed |-> FALSE, ok |-> FALSE]
Terminal == {"completed", "failed", "killed"}

Init ==
    /\ closed = FALSE /\ table = {} /\ older = {} /\ todo = {} /\ racers = {}
    /\ stage = [t \in Tasks |-> "new"] /\ proc = [t \in Tasks |-> "none"]
    /\ signalled = {} /\ wanted = {}
    /\ snap = [t \in Tasks |-> Fresh]
    /\ reaper = [t \in Tasks |-> "none"]
    /\ kill = [k \in Agents |-> Idle] /\ events = [t \in Tasks |-> <<>>]

Notify(t, es) == events' = [events EXCEPT ![t] = @ \o es]
Completed == {t \in Tasks : snap[t].completed}
Complete(t, killed, ok) ==       \* under live.lock, with done.set()
    /\ snap' = [snap EXCEPT ![t] = [completed |-> TRUE, killed |-> killed, ok |-> ok]]
    /\ older' = IF snap[t].completed THEN older ELSE older \cup (Completed \X {t})
StatusLabel(t) == IF snap[t].killed THEN "cancelled" ELSE IF snap[t].ok THEN "completed" ELSE "failed"
OutcomeEvent(t) ==
    IF ~snap[t].completed THEN "running"
    ELSE IF snap[t].killed THEN "killed"
    ELSE IF snap[t].ok THEN "completed" ELSE "failed"

(* _evict_completed_locked: those too old, and the oldest beyond the cap.  *)
EvictAnything(t) == \E gone \in SUBSET table : table' = (table \ gone) \cup {t}
Evict(t) ==
    \E gone \in SUBSET (table \cap Completed) :
        LET kept == (table \cap Completed) \ gone
        IN /\ \A c \in gone, d \in kept : <<c, d>> \in older
           /\ Cardinality(kept) <= MaxCompleted
           /\ table' = (table \ gone) \cup {t}

-----------------------------------------------------------------------------
(* spawn and adopt *)

Spawn(t) ==                      \* _closed is read without the lock
    /\ t \notin Foreground /\ stage[t] = "new" /\ ~closed
    /\ stage' = [stage EXCEPT ![t] = "spawning"]
    /\ UNCHANGED <<manager, task, process, reaper, kill, events>>

Adopt(t) ==                      \* a foreground command that timed out
    /\ t \in Foreground /\ stage[t] = "new" /\ ~closed
    /\ stage' = [stage EXCEPT ![t] = "adopting"]
    /\ proc' = [proc EXCEPT ![t] = "alive"]
    /\ UNCHANGED <<manager, task, signalled, reaper, kill, events>>

Register(t) ==                   \* an adopted task's reaper starts at once
    /\ stage[t] \in {"spawning", "adopting"}
    /\ Evict(t)
    /\ IF t \in Foreground
       THEN /\ stage' = [stage EXCEPT ![t] = "returned"]
            /\ reaper' = [reaper EXCEPT ![t] = "starting"]
       ELSE stage' = [stage EXCEPT ![t] = "registered"] /\ UNCHANGED reaper
    /\ UNCHANGED <<closed, todo, racers, task, process, kill, events>>

SpawnFails(t) ==                 \* Popen raises
    /\ stage[t] = "registered"
    /\ snap' = [snap EXCEPT ![t].completed = TRUE, ![t].ok = FALSE]
    /\ older' = {p \in older : p[1] # t} \cup ((Completed \ {t}) \X {t})
    /\ stage' = [stage EXCEPT ![t] = "failed"]
    /\ UNCHANGED <<manager, wanted, process, reaper, kill, events>>

NotifyFailure(t) ==
    /\ stage[t] = "failed"
    /\ stage' = [stage EXCEPT ![t] = "returned"]
    /\ Notify(t, <<"started", "failed">>)
    /\ UNCHANGED <<manager, task, process, reaper, kill>>

Popen(t) ==                      \* live.proc is set, the reaper starts
    /\ stage[t] = "registered"
    /\ stage' = [stage EXCEPT ![t] = "reaping"]
    /\ proc' = [proc EXCEPT ![t] = "alive"]
    /\ reaper' = [reaper EXCEPT ![t] = "starting"]
    /\ UNCHANGED <<manager, task, signalled, kill, events>>

NotifyStarted(t) ==
    /\ stage[t] = "reaping"
    /\ stage' = [stage EXCEPT ![t] = "returned"]
    /\ Notify(t, <<"started">>)
    /\ UNCHANGED <<manager, task, process, reaper, kill>>


-----------------------------------------------------------------------------
(* The process and its reaper *)

ProcessExits(t) ==
    /\ proc[t] = "alive"
    /\ \E code \in {"ok", "bad"} :
         /\ code = "ok" => reaper[t] \in {"none", "starting", "watching"}  \* nobody reads it later
         /\ proc' = [proc EXCEPT ![t] = code]
    /\ UNCHANGED <<manager, task, stage, signalled, reaper, kill, events>>

Reap(t, from, to) ==
    /\ reaper[t] = from
    /\ reaper' = [reaper EXCEPT ![t] = to]
    /\ UNCHANGED <<manager, stage, kill>>

ReaperNeedsOpenTask(t) ==
    /\ Reap(t, "starting", IF t \in table /\ ~snap[t].completed THEN "watching" ELSE "over")
    /\ UNCHANGED <<task, process, events>>
ReaperStarts(t) ==               \* an evicted task has no reaper
    /\ Reap(t, "starting", IF t \in table THEN "watching" ELSE "over")
    /\ UNCHANGED <<task, process, events>>

ReaperSeesExit(t) ==             \* proc.poll()
    /\ t \notin wanted /\ proc[t] # "alive"
    /\ Reap(t, "watching", proc[t])
    /\ UNCHANGED <<task, process, events>>

(* _kill_process_tree, and a wait of two seconds for the exit code; -1 when *)
(* the process does not end in time.                                       *)
KillAndWait(t) ==
    /\ signalled' = IF proc[t] = "alive" THEN signalled \cup {t} ELSE signalled
    /\ \E code \in IF proc[t] = "alive" THEN {"ok", "bad", "alive"} ELSE {proc[t]} :
         /\ proc' = [proc EXCEPT ![t] = code]
         /\ Reap(t, "watching", IF code = "alive" THEN "bad" ELSE code)
    /\ UNCHANGED <<task, events>>
ReaperKills(t) == KillAndWait(t) \* kill_requested, or max_runtime is over

ReaperAlwaysNotifies(t) ==
    /\ reaper[t] \in {"ok", "bad"}
    /\ Reap(t, reaper[t], "notifying")
    /\ Complete(t, snap[t].killed \/ t \in wanted, reaper[t] = "ok")
    /\ UNCHANGED <<wanted, process, events>>
ReaperForgetsKill(t) ==
    /\ reaper[t] \in {"ok", "bad"}
    /\ Reap(t, reaper[t], IF snap[t].completed THEN "over" ELSE "notifying")
    /\ Complete(t, FALSE, reaper[t] = "ok")
    /\ UNCHANGED <<wanted, process, events>>
ReaperCompletes(t) ==
    /\ reaper[t] \in {"ok", "bad"}
    /\ Reap(t, reaper[t], IF snap[t].completed THEN "over" ELSE "notifying")
    /\ Complete(t, snap[t].killed \/ t \in wanted, reaper[t] = "ok")
    /\ UNCHANGED <<wanted, process, events>>

ReaperNotifies(t) ==
    /\ Reap(t, "notifying", "over")
    /\ Notify(t, <<OutcomeEvent(t)>>)
    /\ UNCHANGED <<task, process>>

-----------------------------------------------------------------------------
(* kill and close *)

Killing(k, t, step) == kill' = [kill EXCEPT ![k] = [task |-> t, step |-> step]]

Answer(k) == kill' = [kill EXCEPT ![k] = Idle]

(* kill(task_id) up to its wait.  Not found or completed: answered at once. *)
Request(k, t) ==
    LET live == t \in table /\ ~snap[t].completed
    IN /\ kill[k] = Idle
       /\ wanted' = IF live THEN wanted \cup {t} ELSE wanted
       /\ signalled' = IF live /\ proc[t] = "alive"
                       THEN signalled \cup {t} ELSE signalled
       /\ IF live THEN Killing(k, t, "waiting") ELSE UNCHANGED kill

Kill(k, t) ==
    /\ k \in Killers /\ t \in table
    /\ Request(k, t)
    /\ UNCHANGED <<manager, older, snap, stage, proc, reaper, events>>

KillCompletesQuietly(k) ==
    LET t == kill[k].task
    IN /\ kill[k].step = "waiting"
       /\ Complete(t, TRUE, snap[t].completed /\ snap[t].ok)
       /\ Answer(k)
       /\ UNCHANGED <<manager, wanted, stage, process, reaper, events>>
KillCompletes(k) ==              \* done was set, or three seconds are over
    LET t == kill[k].task
    IN /\ kill[k].step = "waiting"
       /\ Complete(t, TRUE, snap[t].completed /\ snap[t].ok)
       /\ IF snap[t].completed THEN Answer(k) ELSE Killing(k, t, "notify")
       /\ UNCHANGED <<manager, wanted, stage, process, reaper, events>>

KillNotifies(k) ==
    /\ kill[k].step = "notify"
    /\ Notify(kill[k].task, <<"killed">>)
    /\ Answer(k)
    /\ UNCHANGED <<manager, task, stage, process, reaper>>

Close ==                         \* _closed, then the list under the lock
    /\ ~closed
    /\ closed' = TRUE
    /\ todo' = table
    /\ racers' = {t \in Tasks : stage[t] \in {"spawning", "adopting"}}
    /\ UNCHANGED <<table, task, stage, process, reaper, kill, events>>

CloseKillsOne ==
    /\ \E t \in todo : Request(Closer, t)
    /\ todo' = {}
    /\ UNCHANGED <<closed, table, older, snap, stage, proc, reaper, events, racers>>
CloseKills ==                    \* in whatever order the ids are listed
    /\ \E t \in todo : Request(Closer, t) /\ todo' = todo \ {t}
    /\ UNCHANGED <<closed, table, older, snap, stage, proc, reaper, events, racers>>

SpawnStep(t) ==
    \/ Register(t) \/ Popen(t) \/ SpawnFails(t) \/ NotifyFailure(t)
    \/ NotifyStarted(t)
ReaperStep(t) ==
    \/ ReaperStarts(t) \/ ReaperSeesExit(t) \/ ReaperKills(t) \/ ReaperCompletes(t)
    \/ ReaperNotifies(t)
KillStep(k) == KillCompletes(k) \/ KillNotifies(k)

Next ==
    \/ \E t \in Tasks : Spawn(t) \/ Adopt(t) \/ SpawnStep(t) \/ ReaperStep(t)
                        \/ ProcessExits(t) \/ \E k \in Killers : Kill(k, t)
    \/ \E k \in Agents : KillStep(k)
    \/ Close \/ CloseKills

(* Threads run, and a signalled process dies; a process that is not may    *)
(* run until the reaper's max_runtime.  No step is ever taken again, so    *)
(* fairness of all threads together is enough.                             *)
ThreadStep ==
    \/ \E t \in Tasks : \/ SpawnStep(t) \/ ReaperStep(t)
                        \/ t \in signalled /\ ProcessExits(t)
    \/ \E k \in Agents : KillStep(k)
    \/ CloseKills
Fairness == WF_vars(ThreadStep)
Spec == Init /\ [][Next]_vars /\ Fairness
-----------------------------------------------------------------------------
(* Properties *)

TypeOK ==
    /\ closed \in BOOLEAN /\ table \subseteq Tasks /\ racers \subseteq Tasks
    /\ older \subseteq Tasks \X Tasks /\ todo \subseteq Tasks
    /\ stage \in [Tasks -> {"new", "spawning", "adopting", "registered", "failed",
                            "reaping", "returned"}]
    /\ proc \in [Tasks -> {"none", "alive", "ok", "bad"}]
    /\ signalled \subseteq Tasks /\ wanted \subseteq Tasks
    /\ snap \in [Tasks -> [completed : BOOLEAN, killed : BOOLEAN, ok : BOOLEAN]]
    /\ reaper \in [Tasks -> {"none", "starting", "watching",
                             "ok", "bad", "notifying", "over"}]
    /\ kill \in [Agents -> [task : Tasks \cup {NoTask}, step : {"idle", "waiting", "notify"}]]
    /\ events \in [Tasks -> Seq(Terminal \cup {"started"})]

(* The events that announced an end of the task.                           *)
Outcomes(t) == {i \in DOMAIN events[t] : events[t][i] \in Terminal}
KilledBeforeFailing(t) == proc[t] = "none" /\ t \in wanted

(* Between them kill and the reaper announce one end of a task, and it is  *)
(* the one a reader of the task sees.  The exception is a task killed      *)
(* before its process was started, when the start then fails.              *)
OneOutcome ==
    \A t \in Tasks : ~KilledBeforeFailing(t) =>
        \A i, j \in Outcomes(t) : i = j /\ events[t][i] = OutcomeEvent(t)

(* The outcome of a task never changes once it is completed: a late reaper *)
(* does not undo what a kill reported, nor a late kill what a reaper did.  *)
OutcomeIsFinal ==
    \A t \in Tasks :
        snap[t].completed /\ ~KilledBeforeFailing(t)
        => OutcomeEvent(t)' = OutcomeEvent(t)

(* A task has one outcome, and keeps it.                                   *)
OneFinalOutcome == [][OneOutcome' /\ OutcomeIsFinal]_vars

(* A process that nobody has asked to end can be found by its id and       *)
(* killed, although each registration evicts tasks.                        *)
RunningCanBeFound ==
    \A t \in Tasks :
        /\ proc[t] = "alive" /\ t \notin signalled \cup wanted
        /\ stage[t] # "adopting"
        => t \in table /\ ~snap[t].completed

(* When close has returned, the processes that still run have been told to *)
(* end or are about to be by their reaper, except for those of a spawn or  *)
(* adopt that had read _closed just before.                                *)
CloseLeavesOnlyRacers ==
    closed /\ todo = {} /\ kill[Closer] = Idle =>
        \A t \in Tasks : proc[t] = "alive" => t \in signalled \cup wanted \cup racers

(* No process runs that nobody can reach.                                  *)
NoLostProcess == TypeOK /\ RunningCanBeFound /\ CloseLeavesOnlyRacers

(* Every registered task's end is announced, and the start of a spawned    *)
(* one, in either order: the reaper may overtake the spawning thread.      *)
EventsAreHeard ==
    \A t \in Tasks :
        t \in table ~>
            /\ Outcomes(t) # {}
            /\ t \notin Foreground => \E i \in DOMAIN events[t] : events[t][i] = "started"

(* The process of a killed task ends and none is started for it that goes  *)
(* on, also when the kill came before the process; unless the killed task  *)
(* was evicted before its reaper looked it up, which then gives up.        *)
KilledDies ==
    \A t \in Tasks :
        t \in wanted ~> [](\/ proc[t] # "alive"
                           \/ reaper[t] = "over" /\ t \notin table \cup signalled)

(* Tasks end when they are killed, and their ends are heard of.            *)
TasksEnd == EventsAreHeard /\ KilledDies
=============================================================================
