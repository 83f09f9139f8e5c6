------------------------------- MODULE Scheduler -------------------------------
(***************************************************************************)
(* Scheduled prompts (src/src/codedoggy/tools/scheduler.py, Scheduler;     *)
(* tools/grok_build/scheduler_types.py, ScheduledTask; host/               *)
(* scheduler_tick.py, run_tick_loop; host/scheduler_runtime.py, on_fire).  *)
(*                                                                         *)
(* The tick thread takes every due task out of the store, one critical     *)
(* section per task, and then submits their prompts one by one.  A submit  *)
(* to an idle session runs the turn in the tick thread itself, so the rest *)
(* of the batch, already advanced in the store, waits for that turn.  The  *)
(* session is what Session.tla models; of it only the phase, the queue and *)
(* whether prompts are accepted matter here.                               *)
(***************************************************************************)
EXTENDS Naturals, Sequences, FiniteSets, SequencesExt

CONSTANTS Jobs,        \* ids of scheduled tasks
          Interval,    \* interval_secs, in units of the clock
          Life,        \* a recurring task expires that long after its creation
          MaxJobs,     \* MAX_SCHEDULED_TASKS
          Horizon      \* bound on the clock

ASSUME SchedulerAssumption ==
    /\ Interval \in Nat \ {0} /\ Life \in Nat \ {0}
    /\ MaxJobs \in Nat /\ Horizon \in Nat /\ Interval <= Horizon

VARIABLES
    now,         \* the clock
    jobs,        \* SchedulerState.tasks
    job,         \* per task: recurring, anchor (last_fired_at or created_at), expires
    tick,        \* what the tick thread does
    tickNow,     \* `now` of due_tasks, read once for the whole batch
    batch,       \* fired, not yet submitted
    stop,        \* stop_event
    accepting,   \* the session takes prompts: neither closing nor closed
    driver,      \* whose thread runs the session's turns
    prompts      \* the session's prompt queue

(* History: read by the properties only. *)
VARIABLES fired, ran, dropped,    \* per task, how often
          deleted                 \* tasks whose delete answered true

sched == <<now, jobs, job, tick, tickNow, batch, stop, accepting, driver, prompts,
           fired, ran, dropped, deleted>>
tasks == <<jobs, job, fired, deleted>>
session == <<accepting, driver, prompts, ran>>

NextFireAt(j) == job[j].anchor + Interval
IsExpired(j, t) == job[j].recurring /\ t >= job[j].expires
Due(t) == {i \in DOMAIN jobs : NextFireAt(jobs[i]) <= t}
Count(s, j) == Cardinality({i \in DOMAIN s : s[i] = j})

SchedInit ==
    /\ now = Interval /\ jobs = <<>> /\ batch = <<>> /\ prompts = <<>>
    /\ job = [j \in Jobs |-> [recurring |-> FALSE, anchor |-> 0, expires |-> 0]]
    /\ tick = "none" /\ tickNow = 0 /\ stop = FALSE
    /\ accepting = TRUE /\ driver = "none"
    /\ fired = [j \in Jobs |-> 0] /\ ran = fired /\ dropped = fired /\ deleted = {}

-----------------------------------------------------------------------------
(* The store *)

New(j) == fired[j] = 0 /\ j \notin ToSet(jobs) \cup deleted

Create(j, recurring, immediately) ==
    /\ New(j) /\ Len(jobs) < MaxJobs
    /\ jobs' = Append(jobs, j)
    /\ job' = [job EXCEPT ![j] = [recurring |-> recurring, expires |-> now + Life,
                                  anchor |-> IF immediately THEN now - Interval ELSE now]]
    /\ UNCHANGED <<now, tick, tickNow, batch, stop, session, fired, dropped, deleted>>

DeleteUnlessDue(j) ==
    /\ j \in ToSet(jobs) /\ deleted' = deleted \cup {j}
    /\ jobs' = IF NextFireAt(j) <= now THEN jobs ELSE Remove(jobs, j)
    /\ UNCHANGED <<now, job, tick, tickNow, batch, stop, session, fired, dropped>>
Delete(j) ==
    /\ \E i \in DOMAIN jobs : jobs[i] = j /\ jobs' = RemoveAt(jobs, i)
    /\ deleted' = deleted \cup {j}
    /\ UNCHANGED <<now, job, tick, tickNow, batch, stop, session, fired, dropped>>

ClockAdvances ==
    /\ now < Horizon /\ now' = now + 1
    /\ UNCHANGED <<tasks, tick, tickNow, batch, stop, session, dropped>>

-----------------------------------------------------------------------------
(* The tick thread *)

StartRuntime ==
    /\ tick = "none" /\ tick' = "polling"
    /\ UNCHANGED <<now, tasks, tickNow, batch, stop, session, dropped>>

Poll ==                          \* the test of stop_event, then due_tasks reads the clock
    /\ tick = "polling"
    /\ tick' = IF stop THEN "gone" ELSE "firing"
    /\ tickNow' = now
    /\ UNCHANGED <<now, tasks, batch, stop, session, dropped>>

FireNextTask ==                  \* the first due task, in one critical section
    /\ tick = "firing"
    /\ \E i \in Due(tickNow) : LET j == jobs[i] IN
         /\ \A k \in Due(tickNow) : i <= k
         /\ job' = [job EXCEPT ![j].anchor = tickNow]
         /\ jobs' = IF job[j].recurring /\ ~IsExpired(j, tickNow) THEN jobs ELSE RemoveAt(jobs, i)
         /\ batch' = Append(batch, j)
         /\ fired' = [fired EXCEPT ![j] = @ + 1]
    /\ UNCHANGED <<now, tick, tickNow, stop, session, dropped, deleted>>

NoneDue ==
    /\ tick = "firing" /\ Due(tickNow) = {}
    /\ tick' = "submitting"
    /\ UNCHANGED <<now, tasks, tickNow, batch, stop, session, dropped>>

SubmitOnlyFirst ==
    /\ tick = "submitting" /\ batch # <<>> /\ accepting
    /\ prompts' = Append(prompts, Head(batch)) /\ batch' = <<>>
    /\ driver' = IF driver = "none" THEN "tick" ELSE driver
    /\ tick' = IF driver = "none" THEN "driving" ELSE tick
    /\ UNCHANGED <<now, tasks, tickNow, stop, accepting, ran, dropped>>
Submit ==                        \* submit_prompt; an idle session is driven here
    /\ tick = "submitting" /\ batch # <<>> /\ accepting
    /\ prompts' = Append(prompts, Head(batch)) /\ batch' = Tail(batch)
    /\ driver' = IF driver = "none" THEN "tick" ELSE driver
    /\ tick' = IF driver = "none" THEN "driving" ELSE tick
    /\ UNCHANGED <<now, tasks, tickNow, stop, accepting, ran, dropped>>

SubmitRaisesKeepsBatch ==
    /\ tick = "submitting" /\ batch # <<>> /\ ~accepting /\ tick' = "sleeping"
    /\ UNCHANGED <<now, tasks, tickNow, batch, stop, session, dropped>>
SubmitRaises ==                  \* SessionClosedError: run_tick_loop logs it and goes on
    /\ tick = "submitting" /\ batch # <<>> /\ ~accepting
    /\ dropped' = [j \in Jobs |-> dropped[j] + Count(batch, j)]
    /\ batch' = <<>> /\ tick' = "sleeping"
    /\ UNCHANGED <<now, tasks, tickNow, stop, session>>

BatchDone ==
    /\ tick = "submitting" /\ batch = <<>>
    /\ tick' = "sleeping"
    /\ UNCHANGED <<now, tasks, tickNow, batch, stop, session, dropped>>

Wake ==                          \* stop_event.wait(interval_s)
    /\ tick = "sleeping"
    /\ tick' = IF stop THEN "gone" ELSE "polling"
    /\ UNCHANGED <<now, tasks, tickNow, batch, stop, session, dropped>>

-----------------------------------------------------------------------------
(* The session *)

HostTurn ==
    /\ driver = "none" /\ accepting
    /\ driver' = "host"
    /\ UNCHANGED <<now, tasks, tick, tickNow, batch, stop, accepting, prompts, ran, dropped>>

RunPrompt ==                     \* the driver's turn ends; it takes the next prompt
    /\ driver # "none" /\ prompts # <<>> /\ accepting
    /\ ran' = [ran EXCEPT ![Head(prompts)] = @ + 1] /\ prompts' = Tail(prompts)
    /\ UNCHANGED <<now, tasks, tick, tickNow, batch, stop, accepting, driver, dropped>>

TurnEndsQuietly ==
    /\ driver # "none" /\ (prompts = <<>> \/ ~accepting) /\ driver' = "none"
    /\ UNCHANGED <<now, tasks, tick, tickNow, batch, stop, accepting, prompts, ran, dropped>>
TurnEnds ==
    /\ driver # "none" /\ (prompts = <<>> \/ ~accepting)
    /\ driver' = "none"
    /\ tick' = IF driver = "tick" THEN "submitting" ELSE tick
    /\ UNCHANGED <<now, tasks, tickNow, batch, stop, accepting, prompts, ran, dropped>>

CloseSession ==                  \* _closing, under the session's lock
    /\ accepting /\ accepting' = FALSE
    /\ UNCHANGED <<now, tasks, tick, tickNow, batch, stop, driver, prompts, ran, dropped>>

QuiesceTick ==                   \* close sets the stop event after its lock
    /\ ~accepting /\ ~stop /\ stop' = TRUE
    /\ UNCHANGED <<now, tasks, tick, tickNow, batch, session, dropped>>

SchedNext ==
    \/ \E j \in Jobs, r, i \in BOOLEAN : Create(j, r, i)
    \/ \E j \in Jobs : Delete(j)
    \/ ClockAdvances \/ StartRuntime \/ Poll \/ FireNextTask \/ NoneDue
    \/ Submit \/ SubmitRaises \/ BatchDone \/ Wake
    \/ HostTurn \/ RunPrompt \/ TurnEnds \/ CloseSession \/ QuiesceTick

(* The tick thread runs, turns end, and close finishes what it began.      *)
SchedFairness ==
    /\ WF_sched(Poll) /\ WF_sched(FireNextTask) /\ WF_sched(NoneDue)
    /\ WF_sched(Submit) /\ WF_sched(SubmitRaises) /\ WF_sched(BatchDone) /\ WF_sched(Wake)
    /\ WF_sched(RunPrompt) /\ WF_sched(TurnEnds) /\ WF_sched(QuiesceTick)

SchedSpec == SchedInit /\ [][SchedNext]_sched /\ SchedFairness

-----------------------------------------------------------------------------
(* The store never holds more than the limit, and what the tick thread has *)
(* fired waits in exactly the states where it submits it.                  *)
SchedTypeOK ==
    /\ now \in 0 .. Horizon /\ tickNow \in 0 .. Horizon
    /\ jobs \in Seq(Jobs) /\ Len(jobs) <= MaxJobs /\ batch \in Seq(Jobs)
    /\ tick \in {"none", "polling", "firing", "submitting", "driving", "sleeping", "gone"}
    /\ driver \in {"none", "host", "tick"} /\ (tick = "driving" <=> driver = "tick")
    /\ batch # <<>> => tick \in {"firing", "submitting", "driving"}

(* due_tasks advances the store before a prompt is submitted, so a fired   *)
(* occurrence exists only in the batch: it must be submitted once, and     *)
(* only a session that is closing may lose it.  A one-shot task fires once.*)
FiredIsHandled ==
    \A j \in Jobs :
        /\ fired[j] = Count(batch, j) + Count(prompts, j) + ran[j] + dropped[j]
        /\ dropped[j] > 0 => ~accepting
        /\ fired[j] > 1 => job[j].recurring

(* scheduler_delete says whether the task was found: after a yes it never  *)
(* fires again, although what the tick took before may still be submitted. *)
DeletedIsQuiet ==
    \A j \in deleted : fired'[j] = fired[j] /\ j \notin ToSet(jobs')

(* A turn that runs in the tick thread delays every other task, it does    *)
(* not lose them: what is due fires, unless it is deleted or the tick is   *)
(* told to stop.                                                           *)
DueIsFired ==
    \A j \in Jobs :
        (tick # "none" /\ j \in ToSet(jobs) /\ NextFireAt(j) <= now)
            ~> (j \notin ToSet(jobs) \/ NextFireAt(j) > now \/ stop)

(* What was scheduled runs, once for each time it is due.                  *)
ScheduleIsKept == [][SchedTypeOK' /\ FiredIsHandled' /\ DeletedIsQuiet]_sched

=============================================================================
