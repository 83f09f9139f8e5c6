----------------------------- MODULE TaskProofs -----------------------------
(***************************************************************************)
(* Proofs about what runs beside a turn: background tasks (TaskManager),   *)
(* for any number of tasks and killers and any cap on the completed tasks  *)
(* that are kept, and the scheduler (Scheduler), for any number of jobs.   *)
(*                                                                         *)
(* SchedInv adds to the promises about fired and deleted jobs that the     *)
(* store holds no deleted job, and none that has fired and does not recur. *)
(***************************************************************************)
EXTENDS TaskManager, Scheduler, SequenceTheorems, FiniteSetTheorems, TLAPS

-----------------------------------------------------------------------------
(* Background tasks (TaskManager). *)

Unregistered == {"new", "spawning", "adopting"}

(* A task killed before its process was started, when the start failed.    *)
LostRace(t) ==
    stage[t] \in {"failed", "returned"} /\ proc[t] = "none" /\ t \in wanted

(* How far the thread in spawn or adopt is, against process and reaper.    *)
StagesFit ==
    \A t \in Tasks :
        /\ stage[t] \in {"new", "spawning", "registered", "failed"} => proc[t] = "none"
        /\ stage[t] \in {"adopting", "reaping"} => proc[t] # "none"
        /\ stage[t] \in Unregistered \cup {"registered", "failed"} => reaper[t] = "none"
        /\ proc[t] = "none" => reaper[t] = "none"
        /\ stage[t] \in {"failed", "returned"} /\ proc[t] = "none" => snap[t].completed
        /\ stage[t] = "spawning" => t \notin Foreground
        /\ stage[t] = "adopting" => t \in Foreground

(* A task that is not registered is unknown to all, and one that is stays  *)
(* in the table while it is open.                                          *)
TableFits ==
    \A t \in Tasks :
        /\ stage[t] \in Unregistered =>
              t \notin table \cup wanted \cup todo /\ ~snap[t].completed
        /\ stage[t] \notin Unregistered /\ ~snap[t].completed => t \in table

(* What an end of a task, or a call for it, leaves behind.                 *)
KillMark(t) ==
    /\ snap[t].killed => snap[t].completed /\ t \in wanted
    /\ snap[t].completed /\ t \in wanted => snap[t].killed \/ LostRace(t)
    /\ snap[t].completed /\ reaper[t] \in {"none", "starting", "watching", "ok", "bad"}
          => t \in wanted \/ (stage[t] \in {"failed", "returned"} /\ proc[t] = "none")
    /\ snap[t].completed /\ stage[t] = "registered" => t \in wanted
    /\ reaper[t] \in {"ok", "bad"} => proc[t] # "alive" \/ t \in signalled
    /\ snap[t].completed /\ proc[t] = "alive" => t \in wanted \cup signalled

(* Who asked for the end of a task left a mark, and so did the end.        *)
KillsAreMarked ==
    /\ \A k \in Agents : kill[k].step # "idle" => kill[k].task \in wanted
    /\ \A k \in Agents : kill[k].step = "notify" =>
          snap[kill[k].task].completed /\ snap[kill[k].task].killed
    /\ \A t \in Tasks : KillMark(t)

(* Who will still announce an end of the task: the spawning thread, the    *)
(* reaper, or somebody in kill.                                            *)
Announces(k, t) == kill[k].step = "notify" /\ kill[k].task = t
OneAnnouncement ==
    \A t \in Tasks : ~LostRace(t) =>
        /\ \A i, j \in Outcomes(t) : i = j /\ events[t][i] = OutcomeEvent(t)
        /\ Outcomes(t) # {} => /\ snap[t].completed
                               /\ stage[t] # "failed" /\ reaper[t] # "notifying"
                               /\ \A k \in Agents : ~Announces(k, t)
        /\ stage[t] = "failed" => /\ OutcomeEvent(t) = "failed"
                                  /\ \A k \in Agents : ~Announces(k, t)
        /\ reaper[t] = "notifying" => /\ snap[t].completed
                                      /\ \A k \in Agents : ~Announces(k, t)
        /\ \A k, l \in Agents : Announces(k, t) /\ Announces(l, t) => k = l

(* Behind close every task is told to end, or over.                        *)
CloseReaches ==
    closed => \A t \in Tasks :
        \/ stage[t] = "new"
        \/ t \in racers \cup todo \cup wanted \cup signalled
        \/ snap[t].completed /\ proc[t] # "alive" /\ stage[t] # "registered"

TaskInv == /\ TypeOK /\ StagesFit /\ TableFits /\ KillsAreMarked
           /\ OneAnnouncement /\ CloseReaches

-----------------------------------------------------------------------------
(* The events of a task *)

Heard == Terminal \cup {"started"}

(* What is heard of a task leaves what was heard of the others alone.      *)
LEMMA OthersHearNothing ==
    ASSUME TypeOK, NEW t \in Tasks, NEW es \in Seq(Heard), Notify(t, es)
    PROVE  /\ events' \in [Tasks -> Seq(Heard)]
           /\ events'[t] = events[t] \o es
           /\ \A d \in Tasks \ {t} :
                 events'[d] = events[d] /\ Outcomes(d)' = Outcomes(d)
<1>1. /\ events \in [Tasks -> Seq(Heard)] /\ events[t] \in Seq(Heard)
      /\ events' = [events EXCEPT ![t] = events[t] \o es]
  BY DEF TypeOK, Notify, Heard
<1>2. events[t] \o es \in Seq(Heard) BY <1>1
<1>3. \A d \in Tasks \ {t} : events'[d] = events[d] BY <1>1
<1>4. \A d \in Tasks \ {t} : Outcomes(d)' = Outcomes(d) BY <1>3 DEF Outcomes
<1> QED BY <1>1, <1>2, <1>3, <1>4

(* "started" is no outcome.                                                *)
LEMMA StartIsNoOutcome ==
    ASSUME TypeOK, NEW t \in Tasks, Notify(t, <<"started">>)
    PROVE  /\ Outcomes(t)' = Outcomes(t)
           /\ \A i \in Outcomes(t) : events'[t][i] = events[t][i]
<1>s. <<"started">> \in Seq(Heard) BY DEF Heard
<1>1. events[t] \in Seq(Heard) /\ events'[t] = events[t] \o <<"started">>
  BY <1>s, OthersHearNothing DEF TypeOK, Heard
<1>2. /\ DOMAIN events[t] = 1..Len(events[t]) /\ Len(events[t]) \in Nat
      /\ DOMAIN events'[t] = 1..(Len(events[t]) + 1)
      /\ \A i \in DOMAIN events[t] : events'[t][i] = events[t][i]
      /\ events'[t][Len(events[t]) + 1] = "started"
  BY <1>1
<1>3. "started" \notin Terminal BY DEF Terminal
<1>4. \A i : i \in DOMAIN events'[t] <=> i \in DOMAIN events[t] \/ i = Len(events[t]) + 1
  BY <1>2
<1> QED BY <1>2, <1>3, <1>4, Zenon DEF Outcomes

(* The first outcome that is heard of a task is its only one.              *)
LEMMA FirstOutcome ==
    ASSUME TypeOK, NEW t \in Tasks, NEW e \in Terminal, Outcomes(t) = {},
           Notify(t, <<e>>) \/ Notify(t, <<"started", e>>)
    PROVE  \A i, j \in Outcomes(t)' : i = j /\ events'[t][i] = e
<1>1. /\ events[t] \in Seq(Heard)
      /\ events'[t] = events[t] \o <<e>> \/ events'[t] = events[t] \o <<"started", e>>
  <2>1. <<e>> \in Seq(Heard) /\ <<"started", e>> \in Seq(Heard) BY DEF Heard
  <2> QED BY <2>1, OthersHearNothing DEF TypeOK, Heard
<1>2. /\ DOMAIN events[t] = 1..Len(events[t]) /\ Len(events[t]) \in Nat
      /\ \A i \in DOMAIN events[t] : events[t][i] \notin Terminal
  BY <1>1 DEF Outcomes
<1>3. "started" \notin Terminal BY DEF Terminal
<1>4. CASE events'[t] = events[t] \o <<e>>
  <2>1. /\ \A i \in DOMAIN events'[t] : i \in DOMAIN events[t] \/ i = Len(events[t]) + 1
        /\ \A i \in DOMAIN events[t] : events'[t][i] = events[t][i]
        /\ events'[t][Len(events[t]) + 1] = e
    BY <1>1, <1>2, <1>4
  <2> QED BY <1>2, <2>1, Zenon DEF Outcomes
<1>5. CASE events'[t] = events[t] \o <<"started", e>>
  <2>1. /\ \A i \in DOMAIN events'[t] : \/ i \in DOMAIN events[t]
                                       \/ i = Len(events[t]) + 1 \/ i = Len(events[t]) + 2
        /\ \A i \in DOMAIN events[t] : events'[t][i] = events[t][i]
        /\ events'[t][Len(events[t]) + 1] = "started"
        /\ events'[t][Len(events[t]) + 2] = e
    BY <1>1, <1>2, <1>5
  <2> QED BY <1>2, <1>3, <2>1, Zenon DEF Outcomes
<1> QED BY <1>1, <1>4, <1>5

-----------------------------------------------------------------------------
(* The invariant *)

(* The invariant holds before any task is started.                         *)
THEOREM TasksStart == Init => TaskInv
<1> SUFFICES ASSUME Init PROVE TaskInv OBVIOUS
<1> USE DEF Init, Agents, Idle, Fresh, Unregistered
<1>1. TypeOK
  <2>1. \A t \in Tasks : events[t] \in Seq(Terminal \cup {"started"}) OBVIOUS
  <2> QED BY <2>1 DEF TypeOK
<1>2. StagesFit BY DEF StagesFit
<1>3. TableFits BY DEF TableFits
<1>4. KillsAreMarked BY DEF KillsAreMarked, KillMark, TypeOK
<1>5. OneAnnouncement BY DEF OneAnnouncement, Outcomes, Announces
<1>6. CloseReaches BY DEF CloseReaches
<1> QED BY <1>1, <1>2, <1>3, <1>4, <1>5, <1>6 DEF TaskInv

(* Every step of spawn, adopt, a reaper, kill and close keeps it.          *)
THEOREM TasksStep == TaskInv /\ [Next]_vars => TaskInv'
<1> SUFFICES ASSUME TaskInv, [Next]_vars PROVE TaskInv' OBVIOUS
<1> USE TaskAssumption
<1> USE DEF TaskInv, manager, task, process, Agents, Idle
<1>1. ASSUME NEW t \in Tasks, Spawn(t) PROVE TaskInv'
  <2>e. \A d \in Tasks : Outcomes(d)' = Outcomes(d)
    BY <1>1 DEF Spawn, Outcomes
  <2>1. TypeOK'
    BY <1>1 DEF Spawn, TypeOK
  <2>2. StagesFit'
    BY <1>1 DEF Spawn, StagesFit, Unregistered, TypeOK
  <2>3. TableFits'
    BY <1>1 DEF Spawn, TableFits, Unregistered, StagesFit, TypeOK
  <2>4. KillsAreMarked'
    BY <1>1 DEF Spawn, KillsAreMarked, KillMark, LostRace, StagesFit, TableFits,
       Unregistered, TypeOK
  <2>5. OneAnnouncement'
    BY <1>1, <2>e DEF Spawn, OneAnnouncement, LostRace, Announces, OutcomeEvent,
       KillsAreMarked, KillMark, StagesFit, TableFits, Unregistered, TypeOK
  <2>6. CloseReaches'
    BY <1>1 DEF Spawn, CloseReaches, StagesFit, KillsAreMarked, KillMark,
       TableFits, Unregistered, TypeOK
  <2> QED BY <2>1, <2>2, <2>3, <2>4, <2>5, <2>6
<1>2. ASSUME NEW t \in Tasks, Adopt(t) PROVE TaskInv'
  <2>e. \A d \in Tasks : Outcomes(d)' = Outcomes(d)
    BY <1>2 DEF Adopt, Outcomes
  <2>1. TypeOK'
    BY <1>2 DEF Adopt, TypeOK
  <2>2. StagesFit'
    BY <1>2 DEF Adopt, StagesFit, Unregistered, TypeOK
  <2>3. TableFits'
    BY <1>2 DEF Adopt, TableFits, Unregistered, StagesFit, TypeOK
  <2>4. KillsAreMarked'
    BY <1>2 DEF Adopt, KillsAreMarked, KillMark, LostRace, StagesFit, TableFits,
       Unregistered, TypeOK
  <2>5. OneAnnouncement'
    BY <1>2, <2>e DEF Adopt, OneAnnouncement, LostRace, Announces, OutcomeEvent,
       KillsAreMarked, KillMark, StagesFit, TableFits, Unregistered, TypeOK
  <2>6. CloseReaches'
    BY <1>2 DEF Adopt, CloseReaches, StagesFit, KillsAreMarked, KillMark,
       TableFits, Unregistered, TypeOK
  <2> QED BY <2>1, <2>2, <2>3, <2>4, <2>5, <2>6
<1>3. ASSUME NEW t \in Tasks, Register(t) PROVE TaskInv'
  <2>e. \A d \in Tasks : Outcomes(d)' = Outcomes(d)
    BY <1>3 DEF Register, Evict, Completed, Outcomes
  <2>1. TypeOK'
    BY <1>3 DEF Register, Evict, Completed, TypeOK
  <2>2. StagesFit'
    BY <1>3 DEF Register, Evict, Completed, StagesFit, Unregistered, TypeOK
  <2>3. TableFits'
    BY <1>3 DEF Register, Evict, Completed, TableFits, Unregistered, StagesFit,
       TypeOK
  <2>4. KillsAreMarked'
    BY <1>3 DEF Register, Evict, Completed, KillsAreMarked, KillMark, LostRace,
       StagesFit, TableFits, Unregistered, TypeOK
  <2>5. OneAnnouncement'
    BY <1>3, <2>e DEF Register, Evict, Completed, OneAnnouncement, LostRace,
       Announces, OutcomeEvent, KillsAreMarked, KillMark, StagesFit, TableFits,
       Unregistered, TypeOK
  <2>6. CloseReaches'
    BY <1>3 DEF Register, Evict, Completed, CloseReaches, StagesFit,
       KillsAreMarked, KillMark, TableFits, Unregistered, TypeOK
  <2> QED BY <2>1, <2>2, <2>3, <2>4, <2>5, <2>6
<1>4. ASSUME NEW t \in Tasks, SpawnFails(t) PROVE TaskInv'
  <2>e. \A d \in Tasks : Outcomes(d)' = Outcomes(d)
    BY <1>4 DEF SpawnFails, Completed, Outcomes
  <2>1. TypeOK'
    BY <1>4 DEF SpawnFails, Completed, TypeOK
  <2>2. StagesFit'
    BY <1>4 DEF SpawnFails, Completed, StagesFit, Unregistered, TypeOK
  <2>3. TableFits'
    BY <1>4 DEF SpawnFails, Completed, TableFits, Unregistered, StagesFit, TypeOK
  <2>4. KillsAreMarked'
    BY <1>4 DEF SpawnFails, Completed, KillsAreMarked, KillMark, LostRace,
       StagesFit, TableFits, Unregistered, TypeOK
  <2>5. OneAnnouncement'
    BY <1>4, <2>e DEF SpawnFails, Completed, OneAnnouncement, LostRace, Announces,
       OutcomeEvent, KillsAreMarked, KillMark, StagesFit, TableFits, Unregistered,
       TypeOK
  <2>6. CloseReaches'
    BY <1>4 DEF SpawnFails, Completed, CloseReaches, StagesFit, KillsAreMarked,
       KillMark, TableFits, Unregistered, TypeOK
  <2> QED BY <2>1, <2>2, <2>3, <2>4, <2>5, <2>6
<1>5. ASSUME NEW t \in Tasks, NotifyFailure(t) PROVE TaskInv'
  <2>o. "failed" \in Terminal
    BY <1>5 DEF NotifyFailure, Terminal, OutcomeEvent
  <2>n. Notify(t, <<"started", "failed">>) /\ <<"started", "failed">> \in Seq(Heard)
    BY <1>5, <2>o DEF NotifyFailure, Heard
  <2>e. /\ events' \in [Tasks -> Seq(Heard)]
        /\ \A d \in Tasks \ {t} : events'[d] = events[d] /\ Outcomes(d)' = Outcomes(d)
        /\ Outcomes(t) = {} =>
             \A i, j \in Outcomes(t)' : i = j /\ events'[t][i] = "failed"
    BY <2>o, <2>n, OthersHearNothing, FirstOutcome DEF TaskInv
  <2>1. TypeOK'
    BY <1>5, <2>e DEF NotifyFailure, TypeOK, Heard
  <2>2. StagesFit'
    BY <1>5, <2>e DEF NotifyFailure, StagesFit, Unregistered, TypeOK
  <2>3. TableFits'
    BY <1>5, <2>e DEF NotifyFailure, TableFits, Unregistered, StagesFit, TypeOK
  <2>4. KillsAreMarked'
    BY <1>5, <2>e DEF NotifyFailure, KillsAreMarked, KillMark, LostRace, StagesFit,
       TableFits, Unregistered, TypeOK
  <2>5. OneAnnouncement'
    BY <1>5, <2>e DEF NotifyFailure, OneAnnouncement, LostRace, Announces,
       OutcomeEvent, KillsAreMarked, KillMark, StagesFit, TableFits, Unregistered,
       TypeOK
  <2>6. CloseReaches'
    BY <1>5, <2>e DEF NotifyFailure, CloseReaches, StagesFit, KillsAreMarked,
       KillMark, TableFits, Unregistered, TypeOK
  <2> QED BY <2>1, <2>2, <2>3, <2>4, <2>5, <2>6
<1>6. ASSUME NEW t \in Tasks, Popen(t) PROVE TaskInv'
  <2>e. \A d \in Tasks : Outcomes(d)' = Outcomes(d)
    BY <1>6 DEF Popen, Outcomes
  <2>1. TypeOK'
    BY <1>6 DEF Popen, TypeOK
  <2>2. StagesFit'
    BY <1>6 DEF Popen, StagesFit, Unregistered, TypeOK
  <2>3. TableFits'
    BY <1>6 DEF Popen, TableFits, Unregistered, StagesFit, TypeOK
  <2>4. KillsAreMarked'
    BY <1>6 DEF Popen, KillsAreMarked, KillMark, LostRace, StagesFit, TableFits,
       Unregistered, TypeOK
  <2>5. OneAnnouncement'
    BY <1>6, <2>e DEF Popen, OneAnnouncement, LostRace, Announces, OutcomeEvent,
       KillsAreMarked, KillMark, StagesFit, TableFits, Unregistered, TypeOK
  <2>6. CloseReaches'
    BY <1>6 DEF Popen, CloseReaches, StagesFit, KillsAreMarked, KillMark,
       TableFits, Unregistered, TypeOK
  <2> QED BY <2>1, <2>2, <2>3, <2>4, <2>5, <2>6
<1>7. ASSUME NEW t \in Tasks, NotifyStarted(t) PROVE TaskInv'
  <2>n. Notify(t, <<"started">>) /\ <<"started">> \in Seq(Heard)
    BY <1>7 DEF NotifyStarted, Heard
  <2>e. /\ events' \in [Tasks -> Seq(Heard)]
        /\ \A d \in Tasks : Outcomes(d)' = Outcomes(d)
        /\ \A d \in Tasks : \A i \in Outcomes(d) : events'[d][i] = events[d][i]
    BY <2>n, OthersHearNothing, StartIsNoOutcome DEF TaskInv
  <2>1. TypeOK'
    BY <1>7, <2>e DEF NotifyStarted, TypeOK, Heard
  <2>2. StagesFit'
    BY <1>7, <2>e DEF NotifyStarted, StagesFit, Unregistered, TypeOK
  <2>3. TableFits'
    BY <1>7, <2>e DEF NotifyStarted, TableFits, Unregistered, StagesFit, TypeOK
  <2>4. KillsAreMarked'
    BY <1>7, <2>e DEF NotifyStarted, KillsAreMarked, KillMark, LostRace, StagesFit,
       TableFits, Unregistered, TypeOK
  <2>5. OneAnnouncement'
    BY <1>7, <2>e DEF NotifyStarted, OneAnnouncement, LostRace, Announces,
       OutcomeEvent, KillsAreMarked, KillMark, StagesFit, TableFits, Unregistered,
       TypeOK
  <2>6. CloseReaches'
    BY <1>7, <2>e DEF NotifyStarted, CloseReaches, StagesFit, KillsAreMarked,
       KillMark, TableFits, Unregistered, TypeOK
  <2> QED BY <2>1, <2>2, <2>3, <2>4, <2>5, <2>6
<1>8. ASSUME NEW t \in Tasks, ProcessExits(t) PROVE TaskInv'
  <2>e. \A d \in Tasks : Outcomes(d)' = Outcomes(d)
    BY <1>8 DEF ProcessExits, Outcomes
  <2>1. TypeOK'
    BY <1>8 DEF ProcessExits, TypeOK
  <2>2. StagesFit'
    BY <1>8 DEF ProcessExits, StagesFit, Unregistered, TypeOK
  <2>3. TableFits'
    BY <1>8 DEF ProcessExits, TableFits, Unregistered, StagesFit, TypeOK
  <2>4. KillsAreMarked'
    BY <1>8 DEF ProcessExits, KillsAreMarked, KillMark, LostRace, StagesFit,
       TableFits, Unregistered, TypeOK
  <2>5. OneAnnouncement'
    BY <1>8, <2>e DEF ProcessExits, OneAnnouncement, LostRace, Announces,
       OutcomeEvent, KillsAreMarked, KillMark, StagesFit, TableFits, Unregistered,
       TypeOK
  <2>6. CloseReaches'
    BY <1>8 DEF ProcessExits, CloseReaches, StagesFit, KillsAreMarked, KillMark,
       TableFits, Unregistered, TypeOK
  <2> QED BY <2>1, <2>2, <2>3, <2>4, <2>5, <2>6
<1>9. ASSUME NEW t \in Tasks, ReaperStarts(t) PROVE TaskInv'
  <2>e. \A d \in Tasks : Outcomes(d)' = Outcomes(d)
    BY <1>9 DEF ReaperStarts, Reap, Outcomes
  <2>1. TypeOK'
    BY <1>9 DEF ReaperStarts, Reap, TypeOK
  <2>2. StagesFit'
    BY <1>9 DEF ReaperStarts, Reap, StagesFit, Unregistered, TypeOK
  <2>3. TableFits'
    BY <1>9 DEF ReaperStarts, Reap, TableFits, Unregistered, StagesFit, TypeOK
  <2>4. KillsAreMarked'
    BY <1>9 DEF ReaperStarts, Reap, KillsAreMarked, KillMark, LostRace, StagesFit,
       TableFits, Unregistered, TypeOK
  <2>5. OneAnnouncement'
    BY <1>9, <2>e DEF ReaperStarts, Reap, OneAnnouncement, LostRace, Announces,
       OutcomeEvent, KillsAreMarked, KillMark, StagesFit, TableFits, Unregistered,
       TypeOK
  <2>6. CloseReaches'
    BY <1>9 DEF ReaperStarts, Reap, CloseReaches, StagesFit, KillsAreMarked,
       KillMark, TableFits, Unregistered, TypeOK
  <2> QED BY <2>1, <2>2, <2>3, <2>4, <2>5, <2>6
<1>10. ASSUME NEW t \in Tasks, ReaperSeesExit(t) PROVE TaskInv'
  <2>e. \A d \in Tasks : Outcomes(d)' = Outcomes(d)
    BY <1>10 DEF ReaperSeesExit, Reap, Outcomes
  <2>1. TypeOK'
    BY <1>10 DEF ReaperSeesExit, Reap, TypeOK
  <2>2. StagesFit'
    BY <1>10 DEF ReaperSeesExit, Reap, StagesFit, Unregistered, TypeOK
  <2>3. TableFits'
    BY <1>10 DEF ReaperSeesExit, Reap, TableFits, Unregistered, StagesFit, TypeOK
  <2>4. KillsAreMarked'
    BY <1>10 DEF ReaperSeesExit, Reap, KillsAreMarked, KillMark, LostRace,
       StagesFit, TableFits, Unregistered, TypeOK
  <2>5. OneAnnouncement'
    <3>1. \A d \in Tasks : LostRace(d)' <=> LostRace(d)
      BY <1>10 DEF ReaperSeesExit, Reap, LostRace
    <3>2. \A l \in Agents, d \in Tasks : Announces(l, d)' <=> Announces(l, d)
      BY <1>10 DEF ReaperSeesExit, Reap, Announces
    <3>3. \A d \in Tasks : OutcomeEvent(d)' = OutcomeEvent(d)
      BY <1>10 DEF ReaperSeesExit, OutcomeEvent
    <3>4. \A d \in Tasks : reaper'[d] = "notifying" => reaper[d] = "notifying"
      BY <1>10 DEF ReaperSeesExit, Reap, TypeOK
    <3> QED
      BY <1>10, <2>e, <3>1, <3>2, <3>3, <3>4 DEF ReaperSeesExit, Reap,
         OneAnnouncement
  <2>6. CloseReaches'
    BY <1>10 DEF ReaperSeesExit, Reap, CloseReaches, StagesFit, KillsAreMarked,
       KillMark, TableFits, Unregistered, TypeOK
  <2> QED BY <2>1, <2>2, <2>3, <2>4, <2>5, <2>6
<1>11. ASSUME NEW t \in Tasks, ReaperKills(t) PROVE TaskInv'
  <2>e. \A d \in Tasks : Outcomes(d)' = Outcomes(d)
    BY <1>11 DEF ReaperKills, KillAndWait, Reap, Outcomes
  <2>1. TypeOK'
    <3>1. proc' \in [Tasks -> {"none", "alive", "ok", "bad"}]
            /\ signalled' \subseteq Tasks
      BY ZenonT(60), <1>11 DEF ReaperKills, KillAndWait, TypeOK
    <3>2. proc[t] # "none" BY <1>11 DEF ReaperKills, KillAndWait, Reap, StagesFit
    <3>3. PICK code \in {"ok", "bad", "alive"} :
              Reap(t, "watching", IF code = "alive" THEN "bad" ELSE code)
      BY <1>11, <3>2 DEF ReaperKills, KillAndWait, TypeOK
    <3>4. reaper' \in [Tasks -> {"none", "starting", "watching", "ok", "bad",
            "notifying", "over"}]
      BY <3>3 DEF Reap, TypeOK
    <3> QED BY <1>11, <3>1, <3>3, <3>4 DEF ReaperKills, KillAndWait, Reap, TypeOK
  <2>2. StagesFit'
    BY <1>11 DEF ReaperKills, KillAndWait, Reap, StagesFit, Unregistered, TypeOK
  <2>3. TableFits'
    BY <1>11 DEF ReaperKills, KillAndWait, Reap, TableFits, Unregistered,
       StagesFit, TypeOK
  <2>4. KillsAreMarked'
    BY <1>11 DEF ReaperKills, KillAndWait, Reap, KillsAreMarked, KillMark,
       LostRace, StagesFit, TableFits, Unregistered, TypeOK
  <2>5. OneAnnouncement'
    BY <1>11, <2>e DEF ReaperKills, KillAndWait, Reap, OneAnnouncement, LostRace,
       Announces, OutcomeEvent, KillsAreMarked, KillMark, StagesFit, TableFits,
       Unregistered, TypeOK
  <2>6. CloseReaches'
    BY <1>11 DEF ReaperKills, KillAndWait, Reap, CloseReaches, StagesFit,
       KillsAreMarked, KillMark, TableFits, Unregistered, TypeOK
  <2> QED BY <2>1, <2>2, <2>3, <2>4, <2>5, <2>6
<1>12. ASSUME NEW t \in Tasks, ReaperCompletes(t) PROVE TaskInv'
  <2>s. /\ \A d \in Tasks \ {t} : snap'[d] = snap[d] /\ reaper'[d] = reaper[d]
        /\ snap'[t].completed /\ (snap'[t].killed <=> t \in wanted)
        /\ reaper'[t] \in {"over", "notifying"}
    BY <1>12 DEF ReaperCompletes, Complete, Reap, KillsAreMarked, KillMark, TypeOK
  <2>e. \A d \in Tasks : Outcomes(d)' = Outcomes(d)
    BY <1>12 DEF ReaperCompletes, Reap, Complete, Completed, Outcomes
  <2>1. TypeOK'
    BY <1>12 DEF ReaperCompletes, Reap, Complete, Completed, TypeOK
  <2>2. StagesFit'
    BY <1>12 DEF ReaperCompletes, Reap, Complete, Completed, StagesFit,
       Unregistered, TypeOK
  <2>3. TableFits'
    BY <1>12 DEF ReaperCompletes, Reap, Complete, Completed, TableFits,
       Unregistered, StagesFit, TypeOK
  <2>4. KillsAreMarked'
    <3> USE <1>12, <2>s DEF ReaperCompletes, Reap
    <3>1. ASSUME NEW l \in Agents, kill'[l].step # "idle" PROVE kill'[l].task \in wanted'
      <4>1. CASE kill'[l] = kill[l] BY <3>1, <4>1 DEF KillsAreMarked
      <4>2. CASE kill'[l] # kill[l] BY <3>1, <4>2 DEF KillsAreMarked
      <4> QED BY <4>1, <4>2
    <3>2. ASSUME NEW l \in Agents, kill'[l].step = "notify"
          PROVE  snap'[kill'[l].task].completed /\ snap'[kill'[l].task].killed
      <4>1. CASE kill'[l] = kill[l]
        <5>1. /\ kill[l].task \in Tasks /\ kill[l].task \in wanted
              /\ snap[kill[l].task].completed /\ snap[kill[l].task].killed
          BY <3>2, <4>1 DEF KillsAreMarked, TypeOK
        <5>2. CASE kill[l].task = t BY <3>2, <4>1, <5>1, <5>2
        <5>3. CASE kill[l].task # t BY <3>2, <4>1, <5>1, <5>3
        <5> QED BY <5>2, <5>3
      <4>2. CASE kill'[l] # kill[l] BY <3>2, <4>2
      <4> QED BY <4>1, <4>2
    <3>3. ASSUME NEW d \in Tasks PROVE KillMark(d)'
      <4>1. CASE d = t
        BY <4>1 DEF KillsAreMarked, KillMark, LostRace, StagesFit, TableFits,
           Unregistered, TypeOK
      <4>2. CASE d # t BY <4>2 DEF KillsAreMarked, KillMark, LostRace, TypeOK
      <4> QED BY <4>1, <4>2
    <3> QED BY <3>1, <3>2, <3>3 DEF KillsAreMarked
  <2>5. OneAnnouncement'
    BY <1>12, <2>e DEF ReaperCompletes, Reap, Complete, Completed, OneAnnouncement,
       LostRace, Announces, OutcomeEvent, KillsAreMarked, KillMark, StagesFit,
       TableFits, Unregistered, TypeOK
  <2>6. CloseReaches'
    BY <1>12 DEF ReaperCompletes, Reap, Complete, Completed, CloseReaches,
       StagesFit, KillsAreMarked, KillMark, TableFits, Unregistered, TypeOK
  <2> QED BY <2>1, <2>2, <2>3, <2>4, <2>5, <2>6
<1>13. ASSUME NEW t \in Tasks, ReaperNotifies(t) PROVE TaskInv'
  <2>t. ~LostRace(t) /\ snap[t].completed
    BY <1>13 DEF ReaperNotifies, Reap, LostRace, OneAnnouncement, StagesFit, TypeOK
  <2>o. OutcomeEvent(t) \in Terminal
    BY <1>13, <2>t DEF ReaperNotifies, Reap, Terminal, OutcomeEvent
  <2>n. Notify(t, <<OutcomeEvent(t)>>) /\ <<OutcomeEvent(t)>> \in Seq(Heard)
    BY <1>13, <2>o, <2>t DEF ReaperNotifies, Reap, Heard
  <2>e. /\ events' \in [Tasks -> Seq(Heard)]
        /\ \A d \in Tasks \ {t} : events'[d] = events[d] /\ Outcomes(d)' = Outcomes(d)
        /\ Outcomes(t) = {} =>
             \A i, j \in Outcomes(t)' : i = j /\ events'[t][i] = OutcomeEvent(t)
    BY <2>t, <2>o, <2>n, OthersHearNothing, FirstOutcome DEF TaskInv
  <2>1. TypeOK'
    BY <1>13, <2>e, <2>t DEF ReaperNotifies, Reap, TypeOK, Heard
  <2>2. StagesFit'
    BY <1>13, <2>e, <2>t DEF ReaperNotifies, Reap, StagesFit, Unregistered, TypeOK
  <2>3. TableFits'
    BY <1>13, <2>e, <2>t DEF ReaperNotifies, Reap, TableFits, Unregistered,
       StagesFit, TypeOK
  <2>4. KillsAreMarked'
    BY <1>13, <2>e, <2>t DEF ReaperNotifies, Reap, KillsAreMarked, KillMark,
       LostRace, StagesFit, TableFits, Unregistered, TypeOK
  <2>5. OneAnnouncement'
    BY <1>13, <2>e, <2>t DEF ReaperNotifies, Reap, OneAnnouncement, LostRace,
       Announces, OutcomeEvent, KillsAreMarked, KillMark, StagesFit, TableFits,
       Unregistered, TypeOK
  <2>6. CloseReaches'
    BY <1>13, <2>e, <2>t DEF ReaperNotifies, Reap, CloseReaches, StagesFit,
       KillsAreMarked, KillMark, TableFits, Unregistered, TypeOK
  <2> QED BY <2>1, <2>2, <2>3, <2>4, <2>5, <2>6
<1>14. ASSUME NEW k \in Agents, NEW t \in Tasks, Kill(k, t) PROVE TaskInv'
  <2> DEFINE Calls == [task : Tasks \cup {NoTask}, step : {"idle", "waiting", "notify"}]
  <2>c. /\ kill \in [Agents -> Calls] /\ Idle \in Calls
        /\ [task |-> t, step |-> "waiting"] \in Calls
        /\ [task |-> t, step |-> "notify"] \in Calls
    BY DEF TypeOK
  <2> HIDE DEF Calls
  <2>k. /\ kill' \in [Agents -> Calls]
        /\ \A l \in Agents \ {k} : kill'[l] = kill[l]
        /\ kill'[k] = IF t \in table
             /\ ~snap[t].completed THEN [task |-> t, step |-> "waiting"] ELSE kill[k]
    BY <1>14, <2>c DEF Kill, Request, Killing
  <2>e. \A d \in Tasks : Outcomes(d)' = Outcomes(d)
    BY <1>14 DEF Kill, Request, Killing, Outcomes
  <2>1. TypeOK'
    BY <1>14, <2>k DEF Kill, Request, TypeOK, Calls
  <2>2. StagesFit'
    BY <1>14 DEF Kill, Request, Killing, StagesFit, Unregistered, TypeOK
  <2>3. TableFits'
    BY <1>14 DEF Kill, Request, Killing, TableFits, Unregistered, StagesFit, TypeOK
  <2>4. KillsAreMarked'
    <3> USE <1>14, <2>k DEF Kill, Request
    <3>1. ASSUME NEW l \in Agents, kill'[l].step # "idle" PROVE kill'[l].task \in wanted'
      <4>1. CASE kill'[l] = kill[l] BY <3>1, <4>1 DEF KillsAreMarked
      <4>2. CASE kill'[l] # kill[l] BY <3>1, <4>2 DEF KillsAreMarked
      <4> QED BY <4>1, <4>2
    <3>2. ASSUME NEW l \in Agents, kill'[l].step = "notify"
          PROVE  snap'[kill'[l].task].completed /\ snap'[kill'[l].task].killed
      <4>1. CASE kill'[l] = kill[l]
        <5>1. /\ kill[l].task \in Tasks /\ kill[l].task \in wanted
              /\ snap[kill[l].task].completed /\ snap[kill[l].task].killed
          BY <3>2, <4>1 DEF KillsAreMarked, TypeOK
        <5>2. CASE kill[l].task = t BY <3>2, <4>1, <5>1, <5>2
        <5>3. CASE kill[l].task # t BY <3>2, <4>1, <5>1, <5>3
        <5> QED BY <5>2, <5>3
      <4>2. CASE kill'[l] # kill[l] BY <3>2, <4>2
      <4> QED BY <4>1, <4>2
    <3>3. ASSUME NEW d \in Tasks PROVE KillMark(d)'
      <4>1. CASE d = t
        BY <4>1 DEF KillsAreMarked, KillMark, LostRace, StagesFit, TableFits,
           Unregistered, TypeOK
      <4>2. CASE d # t BY <4>2 DEF KillsAreMarked, KillMark, LostRace, TypeOK
      <4> QED BY <4>1, <4>2
    <3> QED BY <3>1, <3>2, <3>3 DEF KillsAreMarked
  <2>5. OneAnnouncement'
    <3>1. \A d \in Tasks : LostRace(d) => LostRace(d)'
      BY <1>14 DEF Kill, Request, LostRace
    <3>2. \A l \in Agents, d \in Tasks : Announces(l, d)' => Announces(l, d)
      BY <1>14, <2>k DEF Announces
    <3> QED
      BY <1>14, <2>e, <3>1, <3>2 DEF Kill, Request, OneAnnouncement, OutcomeEvent
  <2>6. CloseReaches'
    BY <1>14 DEF Kill, Request, Killing, CloseReaches, StagesFit, KillsAreMarked,
       KillMark, TableFits, Unregistered, TypeOK
  <2> QED BY <2>1, <2>2, <2>3, <2>4, <2>5, <2>6
<1>15. ASSUME NEW k \in Agents, KillCompletes(k) PROVE TaskInv'
  <2>t. PICK t \in Tasks : t = kill[k].task
    BY <1>15 DEF KillCompletes, KillsAreMarked, KillMark, TypeOK
  <2>s. /\ \A d \in Tasks \ {t} : snap'[d] = snap[d]
        /\ snap'[t] = [completed |-> TRUE, killed |-> TRUE,
             ok |-> snap[t].completed /\ snap[t].ok]
    BY <1>15, <2>t DEF KillCompletes, Complete, TypeOK
  <2> DEFINE Calls == [task : Tasks \cup {NoTask}, step : {"idle", "waiting", "notify"}]
  <2>c. /\ kill \in [Agents -> Calls] /\ Idle \in Calls
        /\ [task |-> t, step |-> "waiting"] \in Calls
        /\ [task |-> t, step |-> "notify"] \in Calls
    BY <2>t DEF TypeOK
  <2> HIDE DEF Calls
  <2>k. /\ kill' \in [Agents -> Calls]
        /\ \A l \in Agents \ {k} : kill'[l] = kill[l]
        /\ kill'[k] = IF snap[t].completed THEN Idle ELSE [task |-> t, step |-> "notify"]
    BY <1>15, <2>t, <2>c DEF KillCompletes, Answer, Killing
  <2>e. \A d \in Tasks : Outcomes(d)' = Outcomes(d)
    BY <1>15 DEF KillCompletes, Complete, Completed, Answer, Killing, Outcomes
  <2>1. TypeOK'
    <3>1. snap' \in [Tasks -> [completed : BOOLEAN, killed : BOOLEAN, ok : BOOLEAN]]
      BY <1>15, <2>t DEF KillCompletes, Complete, TypeOK
    <3> QED
      BY <1>15, <2>t, <2>k, <3>1 DEF KillCompletes, Complete, Completed, TypeOK,
         Calls
  <2>2. StagesFit'
    BY <1>15, <2>t DEF KillCompletes, Complete, Completed, Answer, Killing,
       StagesFit, Unregistered, TypeOK
  <2>3. TableFits'
    BY <1>15, <2>t, <2>s DEF KillCompletes, TableFits, Unregistered,
       KillsAreMarked, TypeOK
  <2>4. KillsAreMarked'
    <3> USE <1>15, <2>t, <2>s, <2>k DEF KillCompletes
    <3>1. ASSUME NEW l \in Agents, kill'[l].step # "idle" PROVE kill'[l].task \in wanted'
      <4>1. CASE kill'[l] = kill[l] BY <3>1, <4>1 DEF KillsAreMarked
      <4>2. CASE kill'[l] # kill[l] BY <3>1, <4>2 DEF KillsAreMarked
      <4> QED BY <4>1, <4>2
    <3>2. ASSUME NEW l \in Agents, kill'[l].step = "notify"
          PROVE  snap'[kill'[l].task].completed /\ snap'[kill'[l].task].killed
      <4>1. CASE kill'[l] = kill[l]
        <5>1. /\ kill[l].task \in Tasks /\ kill[l].task \in wanted
              /\ snap[kill[l].task].completed /\ snap[kill[l].task].killed
          BY <3>2, <4>1 DEF KillsAreMarked, TypeOK
        <5>2. CASE kill[l].task = t BY <3>2, <4>1, <5>1, <5>2
        <5>3. CASE kill[l].task # t BY <3>2, <4>1, <5>1, <5>3
        <5> QED BY <5>2, <5>3
      <4>2. CASE kill'[l] # kill[l] BY <3>2, <4>2
      <4> QED BY <4>1, <4>2
    <3>3. ASSUME NEW d \in Tasks PROVE KillMark(d)'
      <4>1. CASE d = t
        BY <4>1 DEF KillsAreMarked, KillMark, LostRace, StagesFit, TableFits,
           Unregistered, TypeOK
      <4>2. CASE d # t BY <4>2 DEF KillsAreMarked, KillMark, LostRace, TypeOK
      <4> QED BY <4>1, <4>2
    <3> QED BY <3>1, <3>2, <3>3 DEF KillsAreMarked
  <2>5. OneAnnouncement'
    <3>1. \A d \in Tasks : LostRace(d)' <=> LostRace(d)
      BY <1>15 DEF KillCompletes, LostRace
    <3>2. \A l \in Agents, d \in Tasks \ {t} : Announces(l, d)' <=> Announces(l, d)
      BY <2>t, <2>k DEF Announces
    <3>3. ASSUME ~LostRace(t), snap[t].completed
          PROVE  OutcomeEvent(t)' = OutcomeEvent(t) /\ \A l \in Agents :
                   Announces(l, t)' => Announces(l, t)
      <4>1. t \in wanted BY <1>15, <2>t DEF KillCompletes, KillsAreMarked
      <4>2. snap[t].killed BY <3>3, <4>1 DEF KillsAreMarked, KillMark
      <4>3. OutcomeEvent(t) = "killed" /\ OutcomeEvent(t)' = "killed"
        BY <3>3, <4>2, <2>s DEF OutcomeEvent
      <4> QED BY <3>3, <4>3, <2>k DEF Announces
    <3>4. ASSUME ~LostRace(t), ~snap[t].completed
          PROVE  /\ Outcomes(t)' = {} /\ reaper[t] # "notifying" /\ stage[t] # "failed"
                 /\ \A l \in Agents : Announces(l, t)' => l = k
      BY <2>t, <2>s, <2>k, <2>e, <3>4 DEF Announces, OutcomeEvent, KillsAreMarked,
         KillMark, OneAnnouncement
    <3>5. \A d \in Tasks \ {t} : OutcomeEvent(d)' = OutcomeEvent(d)
      BY <2>s DEF OutcomeEvent
    <3> QED
      BY <1>15, <2>e, <2>t, <2>s, <3>1, <3>2, <3>3, <3>4, <3>5 DEF KillCompletes,
         OneAnnouncement
  <2>6. CloseReaches'
    BY <1>15, <2>t DEF KillCompletes, Complete, Completed, Answer, Killing,
       CloseReaches, StagesFit, KillsAreMarked, KillMark, TableFits, Unregistered,
       TypeOK
  <2> QED BY <2>1, <2>2, <2>3, <2>4, <2>5, <2>6
<1>16. ASSUME NEW k \in Agents, KillNotifies(k) PROVE TaskInv'
  <2>t. PICK t \in Tasks : t = kill[k].task
    BY <1>16 DEF KillNotifies, Answer, KillsAreMarked, KillMark, TypeOK
  <2>k. \A l \in Agents : kill'[l] = IF l = k THEN Idle ELSE kill[l]
    BY <1>16 DEF KillNotifies, Answer, TypeOK
  <2>o. "killed" \in Terminal
    BY <1>16, <2>t DEF KillNotifies, Answer, Terminal, OutcomeEvent, TypeOK
  <2>n. Notify(t, <<"killed">>) /\ <<"killed">> \in Seq(Heard)
    BY <1>16, <2>o, <2>t DEF KillNotifies, Answer, Heard
  <2>e. /\ events' \in [Tasks -> Seq(Heard)]
        /\ \A d \in Tasks \ {t} : events'[d] = events[d] /\ Outcomes(d)' = Outcomes(d)
        /\ Outcomes(t) = {} =>
             \A i, j \in Outcomes(t)' : i = j /\ events'[t][i] = "killed"
    BY <2>t, <2>o, <2>n, OthersHearNothing, FirstOutcome DEF TaskInv
  <2>1. TypeOK'
    BY <1>16, <2>e, <2>t DEF KillNotifies, Answer, TypeOK, Heard
  <2>2. StagesFit'
    BY <1>16, <2>e, <2>t DEF KillNotifies, Answer, StagesFit, Unregistered, TypeOK
  <2>3. TableFits'
    BY <1>16, <2>e, <2>t DEF KillNotifies, Answer, TableFits, Unregistered,
       StagesFit, TypeOK
  <2>4. KillsAreMarked'
    BY <1>16, <2>e, <2>t DEF KillNotifies, Answer, KillsAreMarked, KillMark,
       LostRace, StagesFit, TableFits, Unregistered, TypeOK
  <2>5. OneAnnouncement'
    <3>1. \A d \in Tasks : LostRace(d)' <=> LostRace(d)
      BY <1>16 DEF KillNotifies, LostRace, task, process
    <3>2. \A l \in Agents, d \in Tasks : Announces(l, d)' => l # k /\ Announces(l, d)
      BY <2>k DEF Announces
    <3>3. \A d \in Tasks : OutcomeEvent(d)' = OutcomeEvent(d)
      BY <1>16 DEF KillNotifies, OutcomeEvent, task
    <3>4. Announces(k, t) BY <1>16, <2>t DEF KillNotifies, Announces
    <3>5. ~LostRace(t) => /\ OutcomeEvent(t) = "killed" /\ Outcomes(t) = {}
            /\ snap[t].completed
                          /\ stage[t] # "failed" /\ reaper[t] # "notifying"
                          /\ \A l \in Agents : ~Announces(l, t)'
      BY <1>16, <2>t, <3>2, <3>4 DEF KillNotifies, OneAnnouncement, OutcomeEvent,
         KillsAreMarked, KillMark
    <3> QED
      BY <1>16, <2>e, <2>t, <3>1, <3>2, <3>3, <3>5 DEF KillNotifies,
         OneAnnouncement, process, task
  <2>6. CloseReaches'
    BY <1>16, <2>e, <2>t DEF KillNotifies, Answer, CloseReaches, StagesFit,
       KillsAreMarked, KillMark, TableFits, Unregistered, TypeOK
  <2> QED BY <2>1, <2>2, <2>3, <2>4, <2>5, <2>6
<1>17. ASSUME Close PROVE TaskInv'
  <2>e. \A d \in Tasks : Outcomes(d)' = Outcomes(d)
    BY <1>17 DEF Close, Outcomes
  <2>1. TypeOK'
    BY <1>17 DEF Close, TypeOK
  <2>2. StagesFit'
    BY <1>17 DEF Close, StagesFit, Unregistered, TypeOK
  <2>3. TableFits'
    BY <1>17 DEF Close, TableFits, Unregistered, StagesFit, TypeOK
  <2>4. KillsAreMarked'
    BY <1>17 DEF Close, KillsAreMarked, KillMark, LostRace, StagesFit, TableFits,
       Unregistered, TypeOK
  <2>5. OneAnnouncement'
    BY <1>17, <2>e DEF Close, OneAnnouncement, LostRace, Announces, OutcomeEvent,
       KillsAreMarked, KillMark, StagesFit, TableFits, Unregistered, TypeOK
  <2>6. CloseReaches'
    BY <1>17 DEF Close, CloseReaches, StagesFit, KillsAreMarked, KillMark,
       TableFits, Unregistered, TypeOK
  <2> QED BY <2>1, <2>2, <2>3, <2>4, <2>5, <2>6
<1>18. ASSUME CloseKills PROVE TaskInv'
  <2>e. \A d \in Tasks : Outcomes(d)' = Outcomes(d)
    BY <1>18 DEF CloseKills, Request, Killing, Outcomes
  <2>1. TypeOK'
    BY <1>18 DEF CloseKills, Request, Killing, TypeOK
  <2>2. StagesFit'
    BY <1>18 DEF CloseKills, Request, Killing, StagesFit, Unregistered, TypeOK
  <2>3. TableFits'
    BY <1>18 DEF CloseKills, Request, Killing, TableFits, Unregistered, StagesFit,
       TypeOK
  <2>4. KillsAreMarked'
    BY <1>18 DEF CloseKills, Request, Killing, KillsAreMarked, KillMark, LostRace,
       StagesFit, TableFits, Unregistered, TypeOK
  <2>5. OneAnnouncement'
    BY <1>18, <2>e DEF CloseKills, Request, Killing, OneAnnouncement, LostRace,
       Announces, OutcomeEvent, KillsAreMarked, KillMark, StagesFit, TableFits,
       Unregistered, TypeOK
  <2>6. CloseReaches'
    BY <1>18 DEF CloseKills, Request, Killing, CloseReaches, StagesFit,
       KillsAreMarked, KillMark, TableFits, Unregistered, TypeOK
  <2> QED BY <2>1, <2>2, <2>3, <2>4, <2>5, <2>6
<1>19. CASE UNCHANGED vars
  <2>1. \A d \in Tasks : Outcomes(d)' = Outcomes(d) BY <1>19 DEF vars, Outcomes
  <2> QED
    BY <1>19, <2>1 DEF vars, TypeOK, StagesFit, TableFits, KillsAreMarked,
       KillMark, OneAnnouncement, CloseReaches,
         LostRace, Announces, OutcomeEvent
<1> QED
  BY <1>1, <1>2, <1>3, <1>4, <1>5, <1>6, <1>7, <1>8, <1>9, <1>10, <1>11, <1>12,
     <1>13, <1>14, <1>15, <1>16, <1>17, <1>18, <1>19 DEF Next, SpawnStep,
     ReaperStep, KillStep

-----------------------------------------------------------------------------
(* What follows *)

(* Each end of a task is marked, announced once and told to close.         *)
THEOREM TasksAreKept == Spec => []TaskInv
BY TasksStart, TasksStep, PTL DEF Spec

(* The invariant leaves no running process out of reach.                   *)
LEMMA NothingIsLost == TaskInv => NoLostProcess
<1> SUFFICES ASSUME TaskInv PROVE NoLostProcess OBVIOUS
<1> USE DEF TaskInv
<1>1. RunningCanBeFound
  BY DEF RunningCanBeFound, TypeOK, StagesFit, TableFits, KillsAreMarked, KillMark,
     Unregistered
<1>2. CloseLeavesOnlyRacers
  BY DEF CloseLeavesOnlyRacers, TypeOK, StagesFit, CloseReaches
<1> QED BY <1>1, <1>2 DEF NoLostProcess

(* No process of a background task is out of everybody's reach.            *)
THEOREM ProcessesAreKept == Spec => []NoLostProcess
BY TasksAreKept, NothingIsLost, PTL

(* The end of a task that is completed stays as it was told.               *)
LEMMA OutcomesStay == TaskInv /\ TaskInv' /\ [Next]_vars => OutcomeIsFinal
<1> SUFFICES ASSUME TaskInv, TaskInv', [Next]_vars,
                    NEW t \in Tasks, snap[t].completed, ~KilledBeforeFailing(t)
             PROVE  OutcomeEvent(t)' = OutcomeEvent(t)
  BY DEF OutcomeIsFinal
<1> USE TaskAssumption DEF TaskInv
<1>1. t \in wanted => snap[t].killed
  BY DEF KillsAreMarked, KillMark, LostRace, KilledBeforeFailing
<1>2. ASSUME NEW d \in Tasks, SpawnFails(d) PROVE OutcomeEvent(t)' = OutcomeEvent(t)
  <2>1. d # t
    BY <1>2 DEF SpawnFails, KillsAreMarked, KillMark, KilledBeforeFailing, StagesFit
  <2> QED BY <1>2, <2>1 DEF SpawnFails, OutcomeEvent, TypeOK
<1>3. ASSUME NEW d \in Tasks, ReaperCompletes(d) PROVE OutcomeEvent(t)' = OutcomeEvent(t)
  <2>1. CASE d = t
    <3>1. t \in wanted /\ snap[t].killed
      BY <1>1, <1>3, <2>1 DEF ReaperCompletes, KillsAreMarked, KillMark, StagesFit
    <3>2. snap'[t].killed /\ snap'[t].completed
      BY <1>3, <2>1, <3>1 DEF ReaperCompletes, Complete, TypeOK
    <3> QED BY <3>1, <3>2 DEF OutcomeEvent
  <2>2. CASE d # t BY <1>3, <2>2 DEF ReaperCompletes, Complete, OutcomeEvent, TypeOK
  <2> QED BY <2>1, <2>2
<1>4. ASSUME NEW k \in Agents, KillCompletes(k) PROVE OutcomeEvent(t)' = OutcomeEvent(t)
  <2>1. CASE kill[k].task = t
    <3>1. snap[t].killed BY <1>1, <1>4, <2>1 DEF KillCompletes, KillsAreMarked
    <3>2. snap'[t].killed /\ snap'[t].completed
      BY <1>4, <2>1 DEF KillCompletes, Complete, TypeOK
    <3> QED BY <3>1, <3>2 DEF OutcomeEvent
  <2>2. CASE kill[k].task # t
    BY <1>4, <2>2 DEF KillCompletes, Complete, OutcomeEvent, TypeOK
  <2> QED BY <2>1, <2>2
<1>5. CASE UNCHANGED snap BY <1>5 DEF OutcomeEvent
<1>6. \/ UNCHANGED snap \/ \E d \in Tasks : SpawnFails(d) \/ ReaperCompletes(d)
      \/ \E k \in Agents : KillCompletes(k)
  BY DEF Next, SpawnStep, ReaperStep, KillStep, vars, task, Spawn, Adopt, Register,
     NotifyFailure,
         Popen, NotifyStarted, ProcessExits, ReaperStarts, ReaperSeesExit, ReaperKills,
           KillAndWait,
         ReaperNotifies, Kill, KillNotifies, Close, CloseKills
<1> QED BY <1>2, <1>3, <1>4, <1>5, <1>6

(* A task has one outcome, and keeps it.                                   *)
THEOREM OutcomesAreFinal == Spec => OneFinalOutcome
<1>1. TaskInv' => OneOutcome'
  BY DEF TaskInv, OneOutcome, OneAnnouncement, LostRace, KilledBeforeFailing
<1>2. TaskInv /\ TaskInv' /\ [Next]_vars => [OneOutcome' /\ OutcomeIsFinal]_vars
  BY <1>1, OutcomesStay
<1> QED BY TasksAreKept, <1>2, PTL DEF Spec, OneFinalOutcome

-----------------------------------------------------------------------------
(* The scheduler (Scheduler). *)

(* No element twice. *)
Distinct(s) == \A i, k \in DOMAIN s : s[i] = s[k] => i = k
(* What the variables hold. *)
SchedTypes ==
    /\ now \in Nat /\ Interval <= now /\ now <= Horizon
    /\ tickNow \in Nat /\ tickNow <= Horizon
    /\ jobs \in Seq(Jobs) /\ Len(jobs) <= MaxJobs /\ Distinct(jobs)
    /\ batch \in Seq(Jobs) /\ prompts \in Seq(Jobs)
    /\ job \in [Jobs -> [recurring : BOOLEAN, anchor : Nat, expires : Nat]]
    /\ fired \in [Jobs -> Nat] /\ ran \in [Jobs -> Nat] /\ dropped \in [Jobs -> Nat]
    /\ deleted \subseteq Jobs /\ stop \in BOOLEAN /\ accepting \in BOOLEAN
    /\ tick \in {"none", "polling", "firing", "submitting", "driving", "sleeping", "gone"}
    /\ driver \in {"none", "host", "tick"} /\ (tick = "driving" <=> driver = "tick")
    /\ batch # <<>> => tick \in {"firing", "submitting", "driving"}

(* Who was deleted is not in the store, and a task that is there and has   *)
(* fired will fire again.                                                  *)
StoreFits ==
    /\ \A j \in deleted : j \notin ToSet(jobs)
    /\ \A j \in ToSet(jobs) : fired[j] > 0 => job[j].recurring
(* The inductive invariant. *)
SchedInv == SchedTypes /\ FiredIsHandled /\ StoreFits

-----------------------------------------------------------------------------
(* Sequences *)

(* What is left when one element is removed. *)
LEMMA Removing ==
    ASSUME NEW S, NEW s \in Seq(S), NEW i \in 1 .. Len(s)
    PROVE  /\ RemoveAt(s, i) \in Seq(S) /\ Len(RemoveAt(s, i)) = Len(s) - 1
           /\ \A k \in 1 .. Len(s) - 1 :
                RemoveAt(s, i)[k] = IF k < i THEN s[k] ELSE s[k + 1]
<1> DEFINE a == SubSeq(s, 1, i - 1)
           b == SubSeq(s, i + 1, Len(s))
           L == Len(s)
<1>1. L \in Nat /\ i \in Nat /\ 1 <= i /\ i <= L OBVIOUS
<1>2. a \in Seq(S) /\ Len(a) = i - 1 /\ \A k \in 1 .. i - 1 : a[k] = s[k]
  <2>1. CASE i = 1
    <3>1. a = <<>> BY <1>1, <2>1, SubSeqEmpty
    <3> QED BY <1>1, <2>1, <3>1
  <2>2. CASE i > 1
    <3>1. 1 \in 1 .. L /\ i - 1 \in 1 .. L BY <1>1, <2>2
    <3> QED BY <1>1, <2>2, <3>1, SubSeqProperties
  <2> QED BY <1>1, <2>1, <2>2
<1>3. b \in Seq(S) /\ Len(b) = L - i /\ \A k \in 1 .. L - i : b[k] = s[i + k]
  <2>1. CASE i = L
    <3>1. b = <<>> BY <1>1, <2>1, SubSeqEmpty
    <3> QED BY <1>1, <2>1, <3>1
  <2>2. CASE i < L
    <3>1. i + 1 \in 1 .. L /\ L \in 1 .. L BY <1>1, <2>2
    <3> QED BY <1>1, <2>2, <3>1, SubSeqProperties
  <2> QED BY <1>1, <2>1, <2>2
<1>4. RemoveAt(s, i) = a \o b BY DEF RemoveAt
<1> HIDE DEF a, b, L
<1>5. a \o b \in Seq(S) /\ Len(a \o b) = (i - 1) + (L - i)
  <2>1. a \o b \in Seq(S) /\ Len(a \o b) = Len(a) + Len(b) BY <1>2, <1>3, ConcatProperties
  <2> QED BY <1>2, <1>3, <2>1
<1>6. \A k \in 1 .. L - 1 : (a \o b)[k] = IF k < i THEN s[k] ELSE s[k + 1]
  <2> SUFFICES ASSUME NEW k \in 1 .. L - 1
               PROVE  (a \o b)[k] = IF k < i THEN s[k] ELSE s[k + 1]
    OBVIOUS
  <2>0. (a \o b)[k] = IF k <= Len(a) THEN a[k] ELSE b[k - Len(a)]
    <3>1. k \in 1 .. (Len(a) + Len(b)) BY <1>1, <1>2, <1>3
    <3> QED BY <1>2, <1>3, <3>1, ConcatProperties
  <2>1. CASE k < i
    <3>1. k <= Len(a) /\ k \in 1 .. i - 1 BY <1>1, <1>2, <2>1
    <3> QED BY <1>2, <2>0, <2>1, <3>1
  <2>2. CASE ~(k < i)
    <3>1. ~(k <= Len(a)) /\ k - Len(a) = k + 1 - i BY <1>1, <1>2, <2>2
    <3>2. k + 1 - i \in 1 .. L - i /\ i + (k + 1 - i) = k + 1 BY <1>1, <2>2
    <3>3. b[k + 1 - i] = s[i + (k + 1 - i)] BY <1>3, <3>2
    <3>4. b[k + 1 - i] = s[k + 1] BY <3>2, <3>3
    <3>5. (a \o b)[k] = b[k + 1 - i] BY <2>0, <3>1
    <3> QED BY <2>2, <3>4, <3>5
  <2> QED BY <2>1, <2>2
<1>7. RemoveAt(s, i) \in Seq(S) /\ Len(RemoveAt(s, i)) = L - 1
  <2>1. (i - 1) + (L - i) = L - 1 BY <1>1
  <2> QED BY <1>4, <1>5, <2>1
<1>8. \A k \in 1 .. L - 1 : RemoveAt(s, i)[k] = IF k < i THEN s[k] ELSE s[k + 1]
  BY <1>4, <1>6
<1> QED BY <1>7, <1>8 DEF L

(* One removal from a sequence without repetitions. *)
LEMMA RemovingOne ==
    ASSUME NEW S, NEW s \in Seq(S), Distinct(s), NEW i \in DOMAIN s
    PROVE  /\ RemoveAt(s, i) \in Seq(S) /\ Len(RemoveAt(s, i)) <= Len(s)
           /\ Distinct(RemoveAt(s, i))
           /\ ToSet(RemoveAt(s, i)) \subseteq ToSet(s)
           /\ s[i] \notin ToSet(RemoveAt(s, i))
<1> DEFINE r == RemoveAt(s, i)
           L == Len(s)
<1>1. L \in Nat /\ DOMAIN s = 1 .. L /\ i \in 1 .. L OBVIOUS
<1>2. /\ r \in Seq(S) /\ Len(r) = L - 1
      /\ \A k \in 1 .. L - 1 : r[k] = IF k < i THEN s[k] ELSE s[k + 1]
  BY <1>1, Removing
<1> HIDE DEF r, L
<1>3. DOMAIN r = 1 .. L - 1 BY <1>1, <1>2
<1>4. \A k \in 1 .. L - 1 : \E m \in 1 .. L :
        m = (IF k < i THEN k ELSE k + 1) /\ m # i /\ r[k] = s[m]
  BY <1>1, <1>2
<1>5. Distinct(r)
  <2> SUFFICES ASSUME NEW k \in 1 .. L - 1, NEW n \in 1 .. L - 1, r[k] = r[n] PROVE k = n
    BY <1>3 DEF Distinct
  <2>1. (IF k < i THEN k ELSE k + 1) = (IF n < i THEN n ELSE n + 1)
    BY <1>1, <1>4 DEF Distinct
  <2> QED BY <1>1, <2>1
<1>6. ToSet(r) \subseteq ToSet(s) BY <1>1, <1>3, <1>4 DEF ToSet
<1>7. s[i] \notin ToSet(r) BY <1>1, <1>3, <1>4 DEF ToSet, Distinct
<1> QED BY <1>1, <1>2, <1>5, <1>6, <1>7 DEF r, L

(* Counting *)
LEMMA CountIsNat ==
    ASSUME NEW S, NEW s \in Seq(S), NEW j
    PROVE  IsFiniteSet({i \in DOMAIN s : s[i] = j}) /\ Count(s, j) \in Nat
<1>1. DOMAIN s = 1 .. Len(s) /\ 1 \in Int /\ Len(s) \in Int OBVIOUS
<1>2. IsFiniteSet(DOMAIN s) BY <1>1, FS_Interval
<1>3. {i \in DOMAIN s : s[i] = j} \in SUBSET DOMAIN s OBVIOUS
<1> QED BY <1>2, <1>3, FS_Subset, FS_CardinalityType DEF Count

(* Nothing is in the empty sequence. *)
LEMMA CountOfNothing == \A j : Count(<<>>, j) = 0
<1> TAKE j
<1>1. {i \in DOMAIN <<>> : <<>>[i] = j} = {} OBVIOUS
<1> QED BY <1>1, FS_EmptySet DEF Count

(* One more at the end. *)
LEMMA CountAppended ==
    ASSUME NEW S, NEW s \in Seq(S), NEW x \in S, NEW j
    PROVE  Count(Append(s, x), j) = Count(s, j) + (IF x = j THEN 1 ELSE 0)
<1> DEFINE t == Append(s, x)
           A == {i \in DOMAIN s : s[i] = j}
           B == {i \in DOMAIN t : t[i] = j}
           L == Len(s)
<1>1. /\ L \in Nat /\ DOMAIN s = 1 .. L /\ DOMAIN t = 1 .. L + 1 /\ t[L + 1] = x
      /\ \A i \in 1 .. L : t[i] = s[i]
  BY AppendProperties
<1>2. IsFiniteSet(A) /\ Cardinality(A) \in Nat BY CountIsNat DEF Count
<1>3. L + 1 \notin A BY <1>1
<1>4. B = IF x = j THEN A \cup {L + 1} ELSE A
  <2>1. \A i : i \in 1 .. L + 1 <=> i \in 1 .. L \/ i = L + 1 BY <1>1
  <2> HIDE DEF t, L
  <2> QED BY <1>1, <2>1
<1> HIDE DEF A, B
<1>5. Cardinality(B) = Cardinality(A) + (IF x = j THEN 1 ELSE 0)
  <2>1. Cardinality(A \cup {L + 1}) = Cardinality(A) + 1 BY <1>2, <1>3, FS_AddElement
  <2> QED BY <1>2, <1>4, <2>1
<1> QED BY <1>5 DEF Count, A, B

(* One less at the front. *)
LEMMA CountOfTail ==
    ASSUME NEW S, NEW s \in Seq(S), s # <<>>, NEW j
    PROVE  Count(s, j) = Count(Tail(s), j) + (IF Head(s) = j THEN 1 ELSE 0)
<1> DEFINE t == Tail(s)
           A == {i \in DOMAIN s : s[i] = j}
           B == {i \in DOMAIN t : t[i] = j}
           L == Len(s)
<1>1. /\ L \in Nat /\ L >= 1 /\ DOMAIN s = 1 .. L /\ DOMAIN t = 1 .. L - 1
      /\ Head(s) = s[1]
      /\ t \in Seq(S) /\ \A i \in 1 .. L - 1 : t[i] = s[i + 1]
  BY HeadTailProperties
<1>2. IsFiniteSet(B) /\ Cardinality(B) \in Nat BY <1>1, CountIsNat DEF Count
<1> DEFINE C == {i + 1 : i \in B}
           f == [i \in B |-> i + 1]
<1>3. ExistsBijection(B, C)
  <2> HIDE DEF t, L
  <2>1. B \subseteq Nat BY <1>1
  <2> HIDE DEF B
  <2>2. f \in [B -> C] OBVIOUS
  <2>3. \A i, k \in B : f[i] = f[k] => i = k BY <2>1
  <2>4. \A y \in C : \E i \in B : f[i] = y OBVIOUS
  <2>5. f \in Bijection(B, C)
    BY <2>2, <2>3, <2>4 DEF Bijection, Injection, Surjection, IsInjective
  <2> QED BY <2>5 DEF ExistsBijection
<1>4. IsFiniteSet(C) /\ Cardinality(C) = Cardinality(B) BY <1>2, <1>3, FS_Bijection
<1>5. 1 \notin C BY <1>1
<1>6. A = IF Head(s) = j THEN C \cup {1} ELSE C
  <2> HIDE DEF t, L
  <2>1. \A i \in 1 .. L : i # 1 =>
          i - 1 \in 1 .. L - 1 /\ t[i - 1] = s[i] /\ i = (i - 1) + 1
    BY <1>1
  <2>2. \A i \in C : i \in 1 .. L /\ i # 1 /\ s[i] = j BY <1>1
  <2>3. \A i \in A : i # 1 => i \in C BY <1>1, <2>1
  <2>4. 1 \in A <=> Head(s) = j BY <1>1
  <2>5. C \subseteq A BY <1>1, <2>2
  <2> HIDE DEF A, C
  <2>6. CASE Head(s) = j
    <3>1. A = C \cup {1} BY <2>3, <2>4, <2>5, <2>6
    <3> QED BY <2>6, <3>1
  <2>7. CASE Head(s) # j
    <3>1. A = C BY <2>3, <2>4, <2>5, <2>7
    <3> QED BY <2>7, <3>1
  <2> QED BY <2>6, <2>7
<1> HIDE DEF A, B, C
<1>7. Cardinality(A) = Cardinality(B) + (IF Head(s) = j THEN 1 ELSE 0)
  <2>1. Cardinality(C \cup {1}) = Cardinality(C) + 1 BY <1>4, <1>5, FS_AddElement
  <2> QED BY <1>2, <1>4, <1>6, <2>1
<1> QED BY <1>7 DEF Count, A, B

-----------------------------------------------------------------------------
(* Steps *)

(* A step that leaves the store, the counts and what is under way alone. *)
LEMMA Elsewhere ==
    ASSUME SchedInv, UNCHANGED <<jobs, job, fired, deleted, batch, prompts, ran,
      dropped>>,
           now' \in Nat, Interval <= now', now' <= Horizon, tickNow' \in Nat,
             tickNow' <= Horizon,
           stop' \in BOOLEAN, accepting' \in BOOLEAN, accepting' => accepting,
           tick' \in {"none", "polling", "firing", "submitting", "driving", "sleeping",
             "gone"},
           driver' \in {"none", "host", "tick"}, tick' = "driving" <=> driver' = "tick",
           batch # <<>> => tick' \in {"firing", "submitting", "driving"}
    PROVE  SchedInv' /\ DeletedIsQuiet
<1>1. SchedTypes' BY DEF SchedInv, SchedTypes, Distinct
<1>2. FiredIsHandled' BY DEF SchedInv, FiredIsHandled, Count
<1>3. StoreFits' BY DEF SchedInv, StoreFits
<1>4. DeletedIsQuiet BY DEF SchedInv, StoreFits, DeletedIsQuiet
<1> QED BY <1>1, <1>2, <1>3, <1>4 DEF SchedInv

(* The steps of the tick thread and of the session that touch no task. *)
LEMMA ThreadSteps ==
    ASSUME SchedInv,
           \/ ClockAdvances \/ StartRuntime \/ Poll \/ NoneDue \/ BatchDone \/ Wake
           \/ HostTurn \/ TurnEnds \/ CloseSession \/ QuiesceTick
    PROVE  SchedInv' /\ DeletedIsQuiet
<1> USE DEF SchedInv, SchedTypes, tasks, session
<1>1. CASE ClockAdvances BY <1>1, SchedulerAssumption, Elsewhere DEF ClockAdvances
<1>2. CASE StartRuntime BY <1>2, Elsewhere DEF StartRuntime
<1>3. CASE Poll BY <1>3, Elsewhere DEF Poll
<1>4. CASE NoneDue BY <1>4, Elsewhere DEF NoneDue
<1>5. CASE BatchDone BY <1>5, Elsewhere DEF BatchDone
<1>6. CASE Wake BY <1>6, Elsewhere DEF Wake
<1>7. CASE HostTurn BY <1>7, Elsewhere DEF HostTurn
<1>8. CASE TurnEnds BY <1>8, Elsewhere DEF TurnEnds
<1>9. CASE CloseSession BY <1>9, Elsewhere DEF CloseSession
<1>10. CASE QuiesceTick BY <1>10, Elsewhere DEF QuiesceTick
<1> QED BY <1>1, <1>2, <1>3, <1>4, <1>5, <1>6, <1>7, <1>8, <1>9, <1>10

(* A task is created. *)
LEMMA CreateKeeps ==
    ASSUME SchedInv, NEW j \in Jobs, NEW r \in BOOLEAN, NEW i \in BOOLEAN, Create(j, r, i)
    PROVE  SchedInv' /\ DeletedIsQuiet
<1>1. /\ fired[j] = 0 /\ j \notin ToSet(jobs) /\ j \notin deleted /\ Len(jobs) < MaxJobs
      /\ jobs' = Append(jobs, j) /\ jobs \in Seq(Jobs)
      /\ UNCHANGED <<now, tick, tickNow, batch, stop, fired, dropped, deleted,
           accepting, driver,
                     prompts, ran>>
  BY DEF Create, New, session, SchedInv, SchedTypes
<1>2. /\ jobs' \in Seq(Jobs) /\ Len(jobs') = Len(jobs) + 1 /\ Len(jobs) \in Nat
      /\ DOMAIN jobs' = 1 .. Len(jobs) + 1 /\ DOMAIN jobs = 1 .. Len(jobs)
      /\ \A k \in 1 .. Len(jobs) : jobs'[k] = jobs[k]
      /\ jobs'[Len(jobs) + 1] = j
  BY <1>1, AppendProperties
<1>3. /\ job' \in [Jobs -> [recurring : BOOLEAN, anchor : Nat, expires : Nat]]
      /\ \A k \in Jobs : k # j => job'[k] = job[k]
  <2>1. now - Interval \in Nat /\ now \in Nat /\ now + Life \in Nat
    BY SchedulerAssumption DEF SchedInv, SchedTypes
  <2>2. (IF i THEN now - Interval ELSE now) \in Nat BY <2>1
  <2>3. job \in [Jobs -> [recurring : BOOLEAN, anchor : Nat, expires : Nat]]
    BY DEF SchedInv, SchedTypes
  <2> QED BY <2>1, <2>2, <2>3 DEF Create
<1>4. Distinct(jobs')
  <2>1. \A k \in 1 .. Len(jobs) : jobs[k] # j BY <1>1, <1>2 DEF ToSet
  <2>2. \A k \in 1 .. Len(jobs) + 1 : k \in 1 .. Len(jobs) \/ k = Len(jobs) + 1 BY <1>2
  <2> QED BY <1>2, <2>1, <2>2 DEF Distinct, SchedInv, SchedTypes
<1>5. SchedTypes'
  <2>1. Len(jobs') <= MaxJobs BY <1>1, <1>2, SchedulerAssumption
  <2> QED BY <1>1, <1>2, <1>3, <1>4, <2>1 DEF SchedInv, SchedTypes
<1>6. FiredIsHandled'
  <2> SUFFICES ASSUME NEW k \in Jobs
               PROVE  /\ fired'[k] = Count(batch', k) + Count(prompts',
                           k) + ran'[k] + dropped'[k]
                      /\ dropped'[k] > 0 => ~accepting'
                      /\ fired'[k] > 1 => job'[k].recurring
    BY DEF FiredIsHandled
  <2>1. k # j => job'[k] = job[k] BY <1>3
  <2> QED BY <1>1, <2>1 DEF SchedInv, FiredIsHandled
<1>7. ToSet(jobs') = ToSet(jobs) \cup {j}
  <2>1. \A k \in 1 .. Len(jobs) + 1 : k \in 1 .. Len(jobs) \/ k = Len(jobs) + 1 BY <1>2
  <2>2. \A k \in 1 .. Len(jobs) : k \in 1 .. Len(jobs) + 1 BY <1>2
  <2>3. Len(jobs) + 1 \in 1 .. Len(jobs) + 1 BY <1>2
  <2> QED BY <1>2, <2>1, <2>2, <2>3 DEF ToSet
<1>8. StoreFits'
  <2>1. ToSet(jobs) \subseteq Jobs BY <1>1 DEF ToSet
  <2> QED BY <1>1, <1>3, <1>7, <2>1 DEF SchedInv, StoreFits
<1>9. DeletedIsQuiet BY <1>1, <1>7 DEF SchedInv, StoreFits, DeletedIsQuiet
<1> QED BY <1>5, <1>6, <1>8, <1>9 DEF SchedInv

(* A task is deleted, and is not in the store from then on. *)
LEMMA DeleteKeeps ==
    ASSUME SchedInv, NEW j \in Jobs, Delete(j)
    PROVE  SchedInv' /\ DeletedIsQuiet
<1>1. PICK i \in DOMAIN jobs : jobs[i] = j /\ jobs' = RemoveAt(jobs, i) BY DEF Delete
<1>2. /\ deleted' = deleted \cup {j}
      /\ UNCHANGED <<now, job, tick, tickNow, batch, stop, fired, dropped, accepting,
           driver,
                     prompts, ran>>
  BY DEF Delete, session
<1>3. /\ jobs' \in Seq(Jobs) /\ Len(jobs') <= Len(jobs) /\ Distinct(jobs')
      /\ ToSet(jobs') \subseteq ToSet(jobs) /\ j \notin ToSet(jobs')
  BY <1>1, RemovingOne DEF SchedInv, SchedTypes
<1>4. SchedTypes'
  <2>1. Len(jobs') <= MaxJobs
    <3>1. jobs \in Seq(Jobs) /\ jobs' \in Seq(Jobs) BY <1>3 DEF SchedInv, SchedTypes
    <3>2. Len(jobs) \in Nat /\ Len(jobs') \in Nat BY <3>1
    <3> QED BY <1>3, <3>2, SchedulerAssumption DEF SchedInv, SchedTypes
  <2> QED BY <1>2, <1>3, <2>1 DEF SchedInv, SchedTypes
<1>5. FiredIsHandled' BY <1>2 DEF SchedInv, FiredIsHandled, Count
<1>6. StoreFits' BY <1>2, <1>3 DEF SchedInv, StoreFits
<1>7. DeletedIsQuiet BY <1>2, <1>3 DEF SchedInv, StoreFits, DeletedIsQuiet
<1> QED BY <1>4, <1>5, <1>6, <1>7 DEF SchedInv

(* The task that is due is fired: it goes on if it recurs, and out of the  *)
(* store if not.                                                           *)
LEMMA FireKeeps ==
    ASSUME SchedInv, FireNextTask
    PROVE  SchedInv' /\ DeletedIsQuiet
<1>1. PICK i \in DOMAIN jobs :
         /\ job' = [job EXCEPT ![jobs[i]].anchor = tickNow]
         /\ jobs' = IF job[jobs[i]].recurring /\ ~IsExpired(jobs[i], tickNow) THEN jobs
                    ELSE RemoveAt(jobs, i)
         /\ batch' = Append(batch, jobs[i])
         /\ fired' = [fired EXCEPT ![jobs[i]] = @ + 1]
  BY DEF FireNextTask, Due
<1> DEFINE j == jobs[i]
<1>2. /\ tick = "firing"
      /\ UNCHANGED <<now, tick, tickNow, stop, dropped, deleted, accepting, driver,
           prompts, ran>>
  BY DEF FireNextTask, session
<1>3. j \in Jobs /\ j \in ToSet(jobs) BY DEF SchedInv, SchedTypes, ToSet
<1>4. /\ jobs' \in Seq(Jobs) /\ Len(jobs') <= Len(jobs) /\ Distinct(jobs')
      /\ ToSet(jobs') \subseteq ToSet(jobs)
      /\ j \in ToSet(jobs') => job[j].recurring
  <2>1. jobs \in Seq(Jobs) /\ Distinct(jobs) BY DEF SchedInv, SchedTypes
  <2>2. CASE jobs' = RemoveAt(jobs, i) BY <2>1, <2>2, RemovingOne
  <2>3. CASE jobs' = jobs /\ job[j].recurring
    <3>1. Len(jobs') <= Len(jobs) BY <2>1, <2>3
    <3> QED BY <2>1, <2>3, <3>1
  <2> QED BY <1>1, <2>2, <2>3
<1> HIDE DEF j
<1>5. /\ job' \in [Jobs -> [recurring : BOOLEAN, anchor : Nat, expires : Nat]]
      /\ \A k \in Jobs : job'[k].recurring = job[k].recurring
  <2>1. job' = [job EXCEPT ![j].anchor = tickNow] BY <1>1 DEF j
  <2>2. job \in [Jobs -> [recurring : BOOLEAN, anchor : Nat, expires : Nat]]
          /\ tickNow \in Nat
    BY DEF SchedInv, SchedTypes
  <2>3. \A k \in Jobs :
          job'[k] = IF k = j THEN [job[j] EXCEPT !.anchor = tickNow] ELSE job[k]
    BY <1>3, <2>1, <2>2
  <2>4. \A k \in Jobs : job[k] \in [recurring : BOOLEAN, anchor : Nat, expires : Nat]
    BY <2>2
  <2>5. \A k \in Jobs : /\ job'[k] \in [recurring : BOOLEAN, anchor : Nat, expires : Nat]
                        /\ job'[k].recurring = job[k].recurring
    BY <1>3, <2>2, <2>3, <2>4
  <2>6. DOMAIN job' = Jobs BY <2>1, <2>2
  <2> QED BY <2>1, <2>2, <2>5, <2>6
<1>6. /\ batch' = Append(batch, j) /\ batch' \in Seq(Jobs) /\ batch \in Seq(Jobs)
      /\ fired' = [fired EXCEPT ![j] = @ + 1] /\ fired' \in [Jobs -> Nat]
      /\ fired \in [Jobs -> Nat]
  <2>1. batch' = Append(batch, j) /\ fired' = [fired EXCEPT ![j] = @ + 1] BY <1>1 DEF j
  <2>2. batch \in Seq(Jobs) /\ fired \in [Jobs -> Nat] BY DEF SchedInv, SchedTypes
  <2>3. batch' \in Seq(Jobs) BY <1>3, <2>1, <2>2
  <2>4. fired' \in [Jobs -> Nat] BY <1>3, <2>1, <2>2
  <2> QED BY <2>1, <2>2, <2>3, <2>4
<1>7. SchedTypes'
  <2>1. Len(jobs') <= MaxJobs
    <3>1. jobs \in Seq(Jobs) /\ jobs' \in Seq(Jobs) BY <1>4 DEF SchedInv, SchedTypes
    <3>2. Len(jobs) \in Nat /\ Len(jobs') \in Nat BY <3>1
    <3> QED BY <1>4, <3>2, SchedulerAssumption DEF SchedInv, SchedTypes
  <2> QED BY <1>2, <1>4, <1>5, <1>6, <2>1 DEF SchedInv, SchedTypes
<1>8. FiredIsHandled'
  <2> SUFFICES ASSUME NEW k \in Jobs
               PROVE  /\ fired'[k] = Count(batch', k) + Count(prompts',
                           k) + ran'[k] + dropped'[k]
                      /\ dropped'[k] > 0 => ~accepting'
                      /\ fired'[k] > 1 => job'[k].recurring
    BY DEF FiredIsHandled
  <2>1. /\ fired[k] = Count(batch, k) + Count(prompts, k) + ran[k] + dropped[k]
        /\ dropped[k] > 0 => ~accepting
        /\ fired[k] > 1 => job[k].recurring
    BY DEF SchedInv, FiredIsHandled
  <2>2. Count(batch', k) = Count(batch, k) + (IF j = k THEN 1 ELSE 0)
    BY <1>3, <1>6, CountAppended
  <2>3. /\ Count(batch, k) \in Nat /\ Count(prompts, k) \in Nat /\ ran[k] \in Nat
        /\ dropped[k] \in Nat
        /\ fired[k] \in Nat
    BY CountIsNat DEF SchedInv, SchedTypes
  <2>4. fired'[k] = fired[k] + (IF j = k THEN 1 ELSE 0) BY <1>3, <1>6, <2>3
  <2>5. Count(prompts', k) = Count(prompts, k) BY <1>2
  <2>6. fired'[k] = Count(batch', k) + Count(prompts', k) + ran'[k] + dropped'[k]
    BY <1>2, <2>1, <2>2, <2>3, <2>4, <2>5
  <2>7. ASSUME fired'[k] > 1 PROVE job'[k].recurring
    <3>1. CASE k = j
      <4>1. fired[j] > 0 BY <2>3, <2>4, <2>7, <3>1
      <4> QED BY <1>3, <1>5, <3>1, <4>1 DEF SchedInv, StoreFits
    <3>2. CASE k # j
      <4>1. fired'[k] = fired[k] BY <2>3, <2>4, <3>2
      <4> QED BY <1>5, <2>1, <2>7, <4>1
    <3> QED BY <3>1, <3>2
  <2> QED BY <1>2, <2>1, <2>6, <2>7
<1>9. StoreFits'
  <2>1. \A k \in ToSet(jobs') : fired'[k] > 0 => job'[k].recurring
    <3> SUFFICES ASSUME NEW k \in ToSet(jobs'),
          fired'[k] > 0 PROVE job'[k].recurring OBVIOUS
    <3>1. k \in ToSet(jobs) /\ k \in Jobs
      <4>1. ToSet(jobs) \subseteq Jobs BY DEF ToSet, SchedInv, SchedTypes
      <4> QED BY <1>4, <4>1
    <3>2. CASE k = j BY <1>3, <1>4, <1>5, <3>2
    <3>3. CASE k # j
      <4>1. fired'[k] = fired[k] BY <1>6, <3>1, <3>3
      <4> QED BY <1>5, <3>1, <4>1 DEF SchedInv, StoreFits
    <3> QED BY <3>2, <3>3
  <2> QED BY <1>2, <1>4, <2>1 DEF SchedInv, StoreFits
<1>10. DeletedIsQuiet
  <2> SUFFICES ASSUME NEW k \in deleted PROVE fired'[k] = fired[k]
        /\ k \notin ToSet(jobs')
    BY DEF DeletedIsQuiet
  <2>1. k \notin ToSet(jobs) /\ k \in Jobs BY DEF SchedInv, StoreFits, SchedTypes
  <2> QED BY <1>3, <1>4, <1>6, <2>1
<1> QED BY <1>7, <1>8, <1>9, <1>10 DEF SchedInv

(* A prompt is submitted: it is queued, or dropped as the session closes. *)
LEMMA SubmitKeeps ==
    ASSUME SchedInv, Submit \/ SubmitRaises
    PROVE  SchedInv' /\ DeletedIsQuiet
<1>0. /\ batch \in Seq(Jobs) /\ prompts \in Seq(Jobs)
      /\ ran \in [Jobs -> Nat] /\ dropped \in [Jobs -> Nat] /\ fired \in [Jobs -> Nat]
  BY DEF SchedInv, SchedTypes
<1>1. UNCHANGED <<jobs, job, fired, deleted, now, tickNow, stop, accepting, ran>>
        /\ batch # <<>>
      /\ tick = "submitting"
  BY DEF Submit, SubmitRaises, tasks, session
<1>2. StoreFits' BY <1>1 DEF SchedInv, StoreFits
<1>3. DeletedIsQuiet BY <1>1 DEF SchedInv, StoreFits, DeletedIsQuiet
<1>4. ASSUME NEW k \in Jobs
      PROVE  /\ fired[k] = Count(batch, k) + Count(prompts, k) + ran[k] + dropped[k]
             /\ dropped[k] > 0 => ~accepting
             /\ fired[k] > 1 => job[k].recurring
             /\ Count(batch, k) \in Nat /\ Count(prompts, k) \in Nat /\ ran[k] \in Nat
             /\ dropped[k] \in Nat
  BY <1>0, CountIsNat DEF SchedInv, FiredIsHandled
<1>5. CASE Submit
  <2>1. /\ Head(batch) \in Jobs /\ batch' = Tail(batch) /\ batch' \in Seq(Jobs)
        /\ prompts' = Append(prompts, Head(batch)) /\ prompts' \in Seq(Jobs)
        /\ dropped' = dropped
    BY <1>0, <1>1, <1>5 DEF Submit
  <2>2. SchedTypes'
    BY <1>1, <1>5, <2>1 DEF SchedInv, SchedTypes, Submit, Distinct
  <2>3. FiredIsHandled'
    <3> SUFFICES ASSUME NEW k \in Jobs
                 PROVE  /\ fired'[k] = Count(batch', k) + Count(prompts',
                             k) + ran'[k] + dropped'[k]
                        /\ dropped'[k] > 0 => ~accepting'
                        /\ fired'[k] > 1 => job'[k].recurring
      BY DEF FiredIsHandled
    <3>1. Count(prompts', k) = Count(prompts, k) + (IF Head(batch) = k THEN 1 ELSE 0)
      BY <1>0, <2>1, CountAppended
    <3>2. Count(batch, k) = Count(batch', k) + (IF Head(batch) = k THEN 1 ELSE 0)
      BY <1>0, <1>1, <2>1, CountOfTail
    <3>3. Count(batch', k) \in Nat BY <2>1, CountIsNat
    <3> QED BY <1>1, <1>4, <2>1, <3>1, <3>2, <3>3
  <2> QED BY <1>2, <1>3, <2>2, <2>3 DEF SchedInv
<1>6. CASE SubmitRaises
  <2>1. /\ batch' = <<>> /\ prompts' = prompts /\ tick' = "sleeping" /\ driver' = driver
        /\ ~accepting
        /\ dropped' = [j \in Jobs |-> dropped[j] + Count(batch, j)]
    BY <1>6 DEF SubmitRaises, session
  <2>2. dropped' \in [Jobs -> Nat]
    <3>1. \A j \in Jobs : dropped[j] + Count(batch, j) \in Nat BY <1>4
    <3> QED BY <2>1, <3>1
  <2>3. SchedTypes'
    <3>1. <<>> \in Seq(Jobs) OBVIOUS
    <3> QED BY <1>1, <2>1, <2>2, <3>1 DEF SchedInv, SchedTypes, Distinct
  <2>4. FiredIsHandled'
    <3> SUFFICES ASSUME NEW k \in Jobs
                 PROVE  /\ fired'[k] = Count(batch', k) + Count(prompts',
                             k) + ran'[k] + dropped'[k]
                        /\ dropped'[k] > 0 => ~accepting'
                        /\ fired'[k] > 1 => job'[k].recurring
      BY DEF FiredIsHandled
    <3>1. Count(batch', k) = 0 BY <2>1, CountOfNothing
    <3>2. dropped'[k] = dropped[k] + Count(batch, k) BY <2>1
    <3>3. Count(prompts', k) = Count(prompts, k) BY <2>1
    <3> QED BY <1>1, <1>4, <2>1, <3>1, <3>2, <3>3
  <2> QED BY <1>2, <1>3, <2>3, <2>4 DEF SchedInv
<1> QED BY <1>5, <1>6

(* A queued prompt is run. *)
LEMMA RunKeeps ==
    ASSUME SchedInv, RunPrompt
    PROVE  SchedInv' /\ DeletedIsQuiet
<1>1. /\ UNCHANGED <<jobs, job, fired, deleted, now, tick, tickNow, batch, stop,
           accepting, driver, dropped>>
      /\ prompts # <<>> /\ prompts' = Tail(prompts)
      /\ ran' = [ran EXCEPT ![Head(prompts)] = @ + 1]
      /\ prompts \in Seq(Jobs) /\ ran \in [Jobs -> Nat]
  BY DEF RunPrompt, tasks, SchedInv, SchedTypes
<1>2. Head(prompts) \in Jobs /\ prompts' \in Seq(Jobs) BY <1>1
<1>3. SchedTypes'
  <2>1. ran' \in [Jobs -> Nat] BY <1>1, <1>2
  <2> QED BY <1>1, <1>2, <2>1 DEF SchedInv, SchedTypes, Distinct
<1>4. FiredIsHandled'
  <2> SUFFICES ASSUME NEW k \in Jobs
               PROVE  /\ fired'[k] = Count(batch', k) + Count(prompts',
                           k) + ran'[k] + dropped'[k]
                      /\ dropped'[k] > 0 => ~accepting'
                      /\ fired'[k] > 1 => job'[k].recurring
    BY DEF FiredIsHandled
  <2>1. Count(prompts, k) = Count(prompts', k) + (IF Head(prompts) = k THEN 1 ELSE 0)
    BY <1>1, CountOfTail
  <2>2. ran'[k] = ran[k] + (IF Head(prompts) = k THEN 1 ELSE 0) BY <1>1, <1>2
  <2>3. /\ Count(batch, k) \in Nat /\ Count(prompts', k) \in Nat /\ ran[k] \in Nat
        /\ dropped[k] \in Nat
    BY <1>1, <1>2, CountIsNat DEF SchedInv, SchedTypes
  <2>4. Count(batch', k) = Count(batch, k) BY <1>1
  <2> QED BY <1>1, <2>1, <2>2, <2>3, <2>4 DEF SchedInv, FiredIsHandled
<1>5. StoreFits' BY <1>1 DEF SchedInv, StoreFits
<1>6. DeletedIsQuiet BY <1>1 DEF SchedInv, StoreFits, DeletedIsQuiet
<1> QED BY <1>3, <1>4, <1>5, <1>6 DEF SchedInv

(* The invariant holds at first: no task. *)
LEMMA SchedStarts == SchedInit => SchedInv
<1> SUFFICES ASSUME SchedInit PROVE SchedInv OBVIOUS
<1>1. <<>> \in Seq(Jobs) /\ Len(<<>>) = 0 /\ DOMAIN <<>> = {} /\ ToSet(<<>>) = {}
  BY DEF ToSet
<1>2. SchedTypes
  <2>1. Len(jobs) <= MaxJobs BY <1>1, SchedulerAssumption DEF SchedInit
  <2>2. /\ now \in Nat /\ Interval <= now /\ now <= Horizon /\ tickNow \in Nat
        /\ tickNow <= Horizon
    BY SchedulerAssumption DEF SchedInit
  <2>3. job \in [Jobs -> [recurring : BOOLEAN, anchor : Nat, expires : Nat]]
    BY DEF SchedInit
  <2> QED BY <1>1, <2>1, <2>2, <2>3 DEF SchedInit, SchedTypes, Distinct
<1>3. FiredIsHandled BY CountOfNothing DEF SchedInit, FiredIsHandled
<1>4. StoreFits BY <1>1 DEF SchedInit, StoreFits
<1> QED BY <1>2, <1>3, <1>4 DEF SchedInv

(* Every step keeps the invariant, and a deleted task is not fired. *)
LEMMA SchedStep == SchedInv /\ [SchedNext]_sched => SchedInv' /\ [DeletedIsQuiet]_sched
<1> SUFFICES ASSUME SchedInv, [SchedNext]_sched PROVE SchedInv' /\ [DeletedIsQuiet]_sched
  OBVIOUS
<1>1. CASE UNCHANGED sched
  <2>1. SchedInv' BY <1>1, Elsewhere DEF sched, SchedInv, SchedTypes
  <2> QED BY <1>1, <2>1
<1>2. CASE SchedNext
  BY <1>2, ThreadSteps, CreateKeeps, DeleteKeeps, FireKeeps, SubmitKeeps, RunKeeps
     DEF SchedNext
<1> QED BY <1>1, <1>2

(* The invariant holds in every state of the scheduler. *)
THEOREM SchedIsSound == SchedSpec => []SchedInv
BY SchedStarts, SchedStep, PTL DEF SchedSpec

(* For any number of tasks, any interval and any horizon: what the tick    *)
(* thread fired was submitted, is about to be, or was dropped because the  *)
(* session closed, and a task that was deleted is never fired again        *)
(* (Scheduler.fire_next_task, scheduler_tick.run_tick_loop).               *)
THEOREM ScheduleHolds == SchedSpec => ScheduleIsKept
<1>1. SchedInv /\ [SchedNext]_sched =>
        [SchedTypeOK' /\ FiredIsHandled' /\ DeletedIsQuiet]_sched
  <2> SUFFICES ASSUME SchedInv, [SchedNext]_sched, ~UNCHANGED sched
               PROVE  SchedTypeOK' /\ FiredIsHandled' /\ DeletedIsQuiet
    OBVIOUS
  <2>1. SchedInv' /\ DeletedIsQuiet BY SchedStep
  <2>2. SchedTypeOK' BY <2>1 DEF SchedInv, SchedTypes, SchedTypeOK
  <2> QED BY <2>1, <2>2 DEF SchedInv
<1> QED BY <1>1, SchedIsSound, PTL DEF SchedSpec, ScheduleIsKept
=============================================================================
