------------------------------ MODULE TaskBoard ------------------------------
(***************************************************************************)
(* The terminal's list of tasks (tui/app.py over tui/model.py): a ledger   *)
(* written by three kinds of threads and kept for the eye.  A prompt has a *)
(* worker thread that runs a turn and records how it ended; a turn of the  *)
(* scheduler or the queue is heard of through the session's listener; the  *)
(* children report through the coordinator.  What belongs to the screen is *)
(* done by the UI thread, from a queue of callbacks (`inbox`) and before   *)
(* each paint (Sync).  Esc cancels the active task; a new login waits with *)
(* its reload until nothing runs.                                          *)
(*                                                                         *)
(* Left out: what is painted, labels and texts, the plan column (PlanMode),*)
(* the throttle of Sync, and the time between two Esc presses, which may   *)
(* be over at any moment.                                                  *)
(***************************************************************************)
EXTENDS Integers, Sequences, FiniteSets
CONSTANTS Kids,        \* child agents
          MaxTasks,    \* bound: tasks of one launch
          Externals,   \* those of them that are turns of the scheduler or the queue
          MaxLogins,   \* bound: logins
          Endings, KidOutcomes  \* how a turn and a child end

VARIABLES shown,     \* task -> its status in the ledger, "none" before it is created
          column,     \* task -> done, failed, cancelled, or open: dispatching, parallel, reporting
          agents,    \* task -> agent -> status, "absent" while unknown
          active,    \* _active_task_id; 0 for none
          stage,     \* task -> how far its turn and its worker are
          ending,    \* task -> how its turn ended
          seen,      \* task -> what its worker saw of the children
          view,      \* task -> the active task before it, or NoView: _external_turn_views
          real       \* child -> its status in the coordinator
VARIABLES of,        \* child -> its task on the board: _subagent_task
          baseline,  \* task -> children older than it
          inbox,     \* the UI thread's callbacks
          ui,        \* what the UI thread is in the middle of
          cancelling,\* the task being cancelled
          reload,    \* "waits": the reload after a login
          logins,    \* how many logins there were
          lost       \* tasks whose view came too late, or that an interjection reopened
board == <<shown, column, agents, active, stage, ending, seen, view, real, of, baseline, inbox,
           ui, cancelling, reload, logins, lost>>

Fenced == {"completed", "failed", "cancelled"}
ASSUME BoardAssumption ==
    /\ MaxTasks \in Nat /\ "main" \notin Kids
    /\ Endings \subseteq Fenced \cup {"max_turns"}
    /\ KidOutcomes \cap {"none", "absent", "pending", "running"} = {}

BoardTasks == 1 .. MaxTasks
BoardAgents == {"main"} \cup Kids
NoView == MaxTasks + 1
Live == {"pending", "running"}
Created(t) == shown[t] # "none"
WorkerAlive == \E t \in BoardTasks : stage[t] \in {"waits", "runs", "ended", "told", "counted", "dying"}
TurnRunning == \E t \in BoardTasks : stage[t] \in {"runs", "heard", "leaving"}
RunningWith(as) ==
    \/ WorkerAlive \/ TurnRunning
    \/ active # 0 /\ \E a \in BoardAgents : as[active][a] \in Live
    \/ \E c \in Kids : real[c] \in Live
IsRunning == RunningWith(agents)

BoardInit ==
    /\ shown = [t \in BoardTasks |-> "none"] /\ column = [t \in BoardTasks |-> "none"]
    /\ agents = [t \in BoardTasks |-> [a \in BoardAgents |-> "absent"]]
    /\ active = 0 /\ stage = [t \in BoardTasks |-> "none"] /\ ending = [t \in BoardTasks |-> "none"]
    /\ seen = [t \in BoardTasks |-> "none"] /\ view = [t \in BoardTasks |-> NoView]
    /\ real = [c \in Kids |-> "none"] /\ of = [c \in Kids |-> 0]
    /\ baseline = [t \in BoardTasks |-> {}] /\ inbox = <<>> /\ ui = "idle"
    /\ cancelling = 0 /\ reload = "none" /\ logins = 0 /\ lost = {}

-----------------------------------------------------------------------------
(* The ledger.  A board is a record of its three columns, so that several  *)
(* calls can follow each other in one step.                                *)
Board == [shown |-> shown, column |-> column, agents |-> agents]
Show(b) == shown' = b.shown /\ column' = b.column /\ agents' = b.agents
Create(b, t) ==
    [shown |-> [b.shown EXCEPT ![t] = "running"], column |-> [b.column EXCEPT ![t] = "open"],
     agents |-> [b.agents EXCEPT ![t]["main"] = "running"]]
SetPhase(b, t, p) == [b EXCEPT !.column[t] = p]
FinishTask(b, t, s) ==
    [b EXCEPT !.shown[t] = s,
              !.column[t] = CASE s = "completed" -> "done" [] s = "cancelled" -> s [] OTHER -> "failed"]
UpdateAgent(b, t, a, s) == [b EXCEPT !.agents[t][a] = s]
UpdateIfTaskOpen(b, t, a, s) == IF b.shown[t] \in Fenced THEN b ELSE UpdateAgent(b, t, a, s)
UpdateLiveAgent(b, t, a, s) ==
    IF b.shown[t] \in Fenced \/ b.agents[t][a] \in Fenced THEN b ELSE UpdateAgent(b, t, a, s)
ApplyAgentStatus(b, t, a, s) ==
    IF s \in Live THEN UpdateLiveAgent(b, t, a, s) ELSE UpdateAgent(b, t, a, s)
KidsIn(b, t, S) == {c \in Kids : b.agents[t][c] \in S}

(* A callback for the UI thread.                                           *)
CallInUi(what, x, s) == inbox' = Append(inbox, [what |-> what, of |-> x, status |-> s])

-----------------------------------------------------------------------------
(* The worker of a prompt, from handle_prompt to its last callback.        *)
Begins(t) ==
    /\ stage[t] = "waits" /\ ~TurnRunning /\ stage' = [stage EXCEPT ![t] = "runs"]
    /\ UNCHANGED <<shown, column, agents, active, ending, seen, view, real, of,
                   baseline, inbox, ui, cancelling, reload, logins, lost>>
TurnEnds(t, s) ==
    /\ stage[t] = "runs"
    /\ stage' = [stage EXCEPT ![t] = "ended"] /\ ending' = [ending EXCEPT ![t] = s]
    /\ UNCHANGED <<shown, column, agents, active, seen, view, real, of, baseline,
                   inbox, ui, cancelling, reload, logins, lost>>
Tells(t) ==
    /\ stage[t] = "ended" /\ stage' = [stage EXCEPT ![t] = "told"]
    /\ Show(UpdateAgent(Board, t, "main", ending[t]))
    /\ UNCHANGED <<active, ending, seen, view, real, of, baseline, inbox, ui,
                   cancelling, reload, logins, lost>>
Counts(t) ==
    /\ stage[t] = "told" /\ stage' = [stage EXCEPT ![t] = "counted"]
    /\ seen' = [seen EXCEPT ![t] =
                  CASE KidsIn(Board, t, Live) # {} -> "open"
                    [] KidsIn(Board, t, {"failed", "cancelled"}) # {} -> "failed"
                    [] OTHER -> "none"]
    /\ UNCHANGED <<shown, column, agents, active, ending, view, real, of, baseline,
                   inbox, ui, cancelling, reload, logins, lost>>
Recorded(b, t) ==
    CASE seen[t] = "open" -> SetPhase([b EXCEPT !.shown[t] = "running"], t, "open")
      [] seen[t] = "failed" -> FinishTask(b, t, "failed")
      [] OTHER -> FinishTask(b, t, ending[t])
Records(t) ==
    /\ stage[t] = "counted" /\ stage' = [stage EXCEPT ![t] = "dying"]
    /\ Show(Recorded(Board, t)) /\ CallInUi("finish", t, "")
    /\ ending' = [ending EXCEPT ![t] = IF @ = "cancelled" THEN @ ELSE "none"]
    /\ seen' = [seen EXCEPT ![t] = "none"]
    /\ UNCHANGED <<active, view, real, of, baseline, ui, cancelling, reload,
                   logins, lost>>
Dies(t) ==
    /\ stage[t] \in {"dying", "leaving"} /\ stage' = [stage EXCEPT ![t] = "over"]
    /\ UNCHANGED <<shown, column, agents, active, ending, seen, view, real, of,
                   baseline, inbox, ui, cancelling, reload, logins, lost>>

(* What a stream shows: while its turn runs, and once more after it, when  *)
(* the turn was cancelled and its stream abandoned between looking whether *)
(* it is active and writing.                                               *)
DeltaWrites(t) ==
    /\ stage[t] \in {"runs", "heard"} \/ ending[t] = "cancelled"
    /\ Show(UpdateLiveAgent(Board, t, "main", "running"))
    /\ UNCHANGED <<active, stage, ending, seen, view, real, of, baseline, inbox,
                   ui, cancelling, reload, logins, lost>>

-----------------------------------------------------------------------------
(* A turn without a worker of its own: _on_session_turn, on its thread.    *)
ExternalStarts(t) ==
    /\ t \in Externals /\ ~Created(t) /\ ~TurnRunning
    /\ Show(Create(Board, t)) /\ stage' = [stage EXCEPT ![t] = "heard"] /\ CallInUi("start", t, "")
    /\ UNCHANGED <<active, ending, seen, view, real, of, baseline, ui, cancelling,
                   reload, logins, lost>>
ExternalEnds(t, s) ==
    /\ stage[t] = "heard"
    /\ stage' = [stage EXCEPT ![t] = "leaving"]
    /\ ending' = IF s = "cancelled" THEN [ending EXCEPT ![t] = s] ELSE ending
    /\ \/ /\ view[t] = NoView /\ lost' = lost \cup {t} /\ UNCHANGED <<shown,
                   column, agents, inbox>>
       \/ /\ view[t] # NoView /\ Show(FinishTask(UpdateAgent(Board, t, "main", s), t, s))
          /\ CallInUi("end", t, view[t]) /\ UNCHANGED lost
    /\ view' = [view EXCEPT ![t] = NoView]
    /\ UNCHANGED <<active, seen, real, of, baseline, ui, cancelling, reload,
                   logins>>

(* Children: a running turn starts them, they end by themselves, and each  *)
(* change is pushed to the screen (_on_subagent_live).                     *)
KidStarts(c) ==
    /\ real[c] = "none" /\ \E t \in BoardTasks : stage[t] \in {"runs", "heard"}
    /\ real' = [real EXCEPT ![c] = "running"] /\ CallInUi("child", c, "running")
    /\ UNCHANGED <<shown, column, agents, active, stage, ending, seen, view, of,
                   baseline, ui, cancelling, reload, logins, lost>>
KidEnds(c, s) ==
    /\ real[c] = "running" /\ real' = [real EXCEPT ![c] = s] /\ CallInUi("child", c, s)
    /\ UNCHANGED <<shown, column, agents, active, stage, ending, seen, view, of,
                   baseline, ui, cancelling, reload, logins, lost>>

-----------------------------------------------------------------------------
(* The UI thread.  A child nobody owns yet belongs to the active task,     *)
(* unless it is older.                                                     *)
Owned(S) == [c \in Kids |->
    IF of[c] = 0 /\ c \in S /\ active # 0 /\ c \notin baseline[active] THEN active ELSE of[c]]
Known == {c \in Kids : real[c] # "none"}
ReloadAnyway(as) == reload = "waits"
MayReload(as) == reload = "waits" /\ ~RunningWith(as)
Flush ==                            \* _flush_pending_reload, after the children are read
    IF MayReload(agents') THEN reload' = "none" /\ ui' = "reload" ELSE UNCHANGED <<reload, ui>>

Prompt(t) ==                        \* _start_task
    /\ ui = "idle" /\ ~WorkerAlive /\ t \notin Externals /\ ~Created(t)
    /\ Show(Create(Board, t)) /\ active' = t /\ cancelling' = 0
    /\ baseline' = [baseline EXCEPT ![t] = Known] /\ stage' = [stage EXCEPT ![t] = "waits"]
    /\ UNCHANGED <<ending, seen, view, real, of, inbox, ui, reload, logins, lost>>
AddNote ==                        \* a prompt while the worker lives; a note on a task's page
    /\ ui = "idle" /\ active # 0
    /\ (WorkerAlive /\ cancelling # active) \/ IsRunning
    /\ Show(UpdateLiveAgent(Board, active, "main", "running"))
    /\ lost' = IF "max_turns" \in {shown[active], agents[active]["main"]} THEN lost \cup {active} ELSE lost
    /\ UNCHANGED <<active, stage, ending, seen, view, real, of, baseline, inbox,
                   ui, cancelling, reload, logins>>

(* A child's status goes to its task; a task is closed when its turn and   *)
(* its children are over.                                                  *)
WithKids(b, owner) == [b EXCEPT !.agents =
    [t \in BoardTasks |-> [a \in BoardAgents |->
        IF a \in Known /\ owner[a] = t THEN ApplyAgentStatus(b, t, a, real[a]).agents[t][a]
        ELSE b.agents[t][a]]]]
AllOver(b, t) ==
    /\ b.shown[t] = "running" /\ b.agents[t]["main"] \notin Live
    /\ KidsIn(b, t, Live) = {} /\ KidsIn(b, t, {"absent"}) # Kids
NotSynced(b, t) == b
SyncTask(b, t) ==
    IF b.column[t] = "open" /\ AllOver(b, t)
    THEN FinishTask(b, t, IF KidsIn(b, t, {"failed", "cancelled"}) # {} THEN "failed" ELSE "completed")
    ELSE b
Synced(b) == [shown |-> [t \in BoardTasks |-> SyncTask(b, t).shown[t]],
              column |-> [t \in BoardTasks |-> SyncTask(b, t).column[t]], agents |-> b.agents]
SyncRuntime == of' = Owned(Known) /\ Show(Synced(WithKids(Board, Owned(Known))))
Sync ==                             \* before each paint
    /\ ui = "idle" /\ SyncRuntime /\ Flush
    /\ UNCHANGED <<active, stage, ending, seen, view, real, baseline, inbox,
                   cancelling, logins, lost>>

Callback(what) == ui = "idle" /\ inbox # <<>> /\ Head(inbox).what = what /\ inbox' = Tail(inbox)
ApplyStart ==
    /\ Callback("start")
    /\ LET t == Head(inbox).of IN
       /\ view' = [view EXCEPT ![t] = active] /\ active' = t
       /\ baseline' = [baseline EXCEPT ![t] = Known]
    /\ UNCHANGED <<shown, column, agents, stage, ending, seen, real, of, ui,
                   cancelling, reload, logins, lost>>
ApplyEnd ==
    /\ Callback("end") /\ SyncRuntime /\ Flush
    /\ active' = IF active = Head(inbox).of THEN Head(inbox).status ELSE active
    /\ UNCHANGED <<stage, ending, seen, view, real, baseline, cancelling, logins,
                   lost>>
ApplyFinish ==
    /\ Callback("finish") /\ SyncRuntime /\ Flush
    /\ cancelling' = IF cancelling = Head(inbox).of THEN 0 ELSE cancelling
    /\ UNCHANGED <<active, stage, ending, seen, view, real, baseline, logins, lost>>
ApplyChild ==                       \* _apply_subagent_live
    /\ Callback("child")
    /\ LET c == Head(inbox).of  s == Head(inbox).status IN
       /\ of' = Owned({c})
       /\ LET b == ApplyAgentStatus(Board, of'[c], c, s) IN
          Show(IF of'[c] = 0 THEN Board ELSE IF s \in Live THEN SetPhase(b, of'[c], "open") ELSE b)
    /\ UNCHANGED <<active, stage, ending, seen, view, real, baseline, ui,
                   cancelling, reload, logins, lost>>

(* Esc: the session and the task's children are told, then the list.       *)
PressEsc ==
    /\ ui = "idle" /\ IsRunning /\ active # 0 /\ cancelling # active
    /\ cancelling' = active /\ ui' = "cancel"
    /\ Show(SetPhase([Board EXCEPT !.shown[active] = "cancelled"], active, "cancelled"))
    /\ UNCHANGED <<active, stage, ending, seen, view, real, of, baseline, inbox,
                   reload, logins, lost>>
CancelAgents ==
    /\ ui = "cancel" /\ ui' = "idle"
    /\ Show([Board EXCEPT !.agents[active] = [a \in BoardAgents |->
           IF @[a] \in Fenced \cup {"absent"} THEN @[a] ELSE "cancelled"]])
    /\ UNCHANGED <<active, stage, ending, seen, view, real, of, baseline, inbox,
                   cancelling, reload, logins, lost>>
LoggedIn ==                         \* _queue_or_apply_reload
    /\ ui = "idle" /\ logins < MaxLogins /\ logins' = logins + 1
    /\ IF IsRunning THEN reload' = "waits" /\ UNCHANGED ui ELSE reload' = "none" /\ ui' = "reload"
    /\ UNCHANGED <<shown, column, agents, active, stage, ending, seen, view, real,
                   of, baseline, inbox, cancelling, lost>>
Reload ==                           \* _apply_reload_client
    /\ ui = "reload" /\ ui' = "idle" /\ UNCHANGED reload
    /\ UNCHANGED <<shown, column, agents, active, stage, ending, seen, view, real,
                   of, baseline, inbox, cancelling, logins, lost>>

-----------------------------------------------------------------------------
WorkerStep == \E t \in BoardTasks : Tells(t) \/ Counts(t) \/ Records(t) \/ Dies(t)
UiStep ==
    \/ Sync \/ ApplyStart \/ ApplyEnd \/ ApplyFinish \/ ApplyChild \/ CancelAgents \/ Reload
User == AddNote \/ PressEsc \/ LoggedIn \/ \E t \in BoardTasks : Prompt(t)
BoardNext ==
    \/ User \/ UiStep \/ WorkerStep
    \/ \E t \in BoardTasks : Begins(t) \/ DeltaWrites(t) \/ ExternalStarts(t)
    \/ \E t \in BoardTasks, s \in Endings : TurnEnds(t, s) \/ ExternalEnds(t, s)
    \/ \E c \in Kids : KidStarts(c) \/ \E s \in KidOutcomes : KidEnds(c, s)

-----------------------------------------------------------------------------
(* Who has ended has ended: a write that was under way when a turn, a      *)
(* child or a task ended does not bring it back to life (update_live_agent,*)
(* model.py 211-220).                                                      *)
AgentEndsForGood ==
    \A t \in BoardTasks, a \in BoardAgents :
        agents[t][a] \in Fenced => agents'[t][a] \notin Live
(* The model is never switched under a prompt of this terminal: its worker *)
(* is gone when the reload is applied (app.py 6846-6895).                  *)
ReloadIsQuiet == ui = "reload" => ~WorkerAlive
(* When nothing runs any more, no callback is left and a paint would       *)
(* change nothing, the list says so of every task and child, and no reload *)
(* still waits; except where the start of a turn was applied after its     *)
(* end, or an interjection reached a task that ran out of turns.           *)
AllQuiet ==
    /\ ~WorkerAlive /\ ~TurnRunning /\ \A c \in Kids : real[c] \notin Live
    /\ inbox = <<>> /\ ui = "idle" /\ ~MayReload(agents)
    /\ Owned(Known) = of /\ Synced(WithKids(Board, of)) = Board
TaskSettled(t) ==
    shown[t] # "running" /\ \A a \in BoardAgents : agents[t][a] \notin Live
BoardSettles ==
    AllQuiet => /\ \A t \in BoardTasks \ lost : Created(t) => TaskSettled(t)
                /\ reload = "waits" => active \in lost

(* The list of tasks tells the truth, and nothing waits behind it.         *)
BoardIsTrue == AgentEndsForGood /\ ReloadIsQuiet' /\ BoardSettles'
=============================================================================
