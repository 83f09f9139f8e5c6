-------------------------------- MODULE PlanMode --------------------------------
(***************************************************************************)
(* Plan and goal mode of a session (orchestration/session_mode.py, the     *)
(* kernel's operations on it in session/kernel.py, its place in a turn in  *)
(* session/session.py, the enter_plan_mode and exit_plan_mode tools).      *)
(*                                                                         *)
(* The turn's thread and a host thread change one record of state without  *)
(* a lock, each change is followed by a rewrite of plan_mode.json, and the *)
(* model only knows what the transcript says of plan mode: a reminder at   *)
(* the start of a turn, the tools' answers, and nothing of either after    *)
(* the turn raised or the process died.                                    *)
(***************************************************************************)
EXTENDS Naturals, Sequences, SequencesExt

CONSTANTS Turn, Host,    \* the two threads
          Hosts,         \* is there a plan_mode_exit_fn?  the cases to try
          MaxTurns, MaxHostOps, MaxCrashes    \* bounds on what comes from outside

ASSUME PlanAssumption ==
    /\ Turn # Host /\ Hosts \subseteq BOOLEAN
    /\ {MaxTurns, MaxHostOps, MaxCrashes} \subseteq Nat

VARIABLES
    hosted,    \* plan_mode_exit_fn is there; FALSE: headless
    st,        \* session_mode_state
    disk,      \* <<snapshot>> in plan_mode.json; <<>>: none, or not readable
    turn,      \* where the turn is
    resumed,   \* the approval that is asked for was parked
    saver,     \* per thread: <<the snapshot it writes>>, or <<>>
    flight,    \* turn_in_flight as a host read it for user_exit
    left,      \* turns, host operations and crashes still to come
    told,      \* what the turn's transcript says of plan mode
    kept       \* what the live window of the next turn says

(* History: read by the properties only. *)
VARIABLES
    quiet,     \* the mode changed, or a transcript was lost, unbeknown to the model
    raced,     \* two threads were writing the file at once
    before     \* <<the state a crash met>>; <<>>: a save was under way

vars == <<hosted, st, disk, turn, resumed, saver, flight, left, told, kept, quiet,
          raced, before>>
files == <<disk, raced, before>>

Threads == {Turn, Host}
Phases == {"inactive", "pending", "active", "exit_pending"}
Running == {"parked", "ask", "answer", "begin", "run", "ending"}
Fresh == [phase |-> "inactive", mode |-> "normal", awaiting |-> FALSE, owed |-> FALSE,
          odd |-> FALSE]

Init ==
    /\ hosted \in Hosts /\ st = Fresh /\ disk = <<>> /\ turn = "idle" /\ resumed = FALSE
    /\ saver = [a \in Threads |-> <<>>] /\ flight = "unread"
    /\ left = [turns |-> MaxTurns, host |-> MaxHostOps, crashes |-> MaxCrashes]
    /\ told = "off" /\ kept = "off"
    /\ quiet = FALSE /\ raced = FALSE /\ before = <<>>

-----------------------------------------------------------------------------
(* SessionModeState.  odd is the parity of reminder_count, owed is         *)
(* pending_exit_reminder.                                                  *)

EnterPlan(s) ==
    [s EXCEPT !.mode = "plan", !.phase = "active", !.awaiting = FALSE,
              !.odd = FALSE, !.owed = FALSE]
EnterPending(s) ==
    CASE s.phase = "exit_pending" ->
           [s EXCEPT !.phase = "active", !.mode = "plan", !.owed = FALSE]
      [] s.phase = "inactive" ->
           [s EXCEPT !.phase = "pending", !.mode = "plan", !.owed = FALSE,
                     !.awaiting = FALSE]
      [] OTHER -> s
ExitPlan(s) ==
    [s EXCEPT !.mode = "normal", !.phase = "inactive", !.awaiting = FALSE, !.owed = FALSE]
UserExit(s, inFlight) ==
    LET t == [s EXCEPT !.awaiting = FALSE]
    IN CASE s.phase = "pending" -> [t EXCEPT !.phase = "inactive", !.mode = "normal"]
         [] s.phase = "active" /\ inFlight -> [t EXCEPT !.phase = "exit_pending"]
         [] s.phase = "active" /\ ~inFlight ->
              [t EXCEPT !.phase = "inactive", !.mode = "normal", !.owed = TRUE]
         [] OTHER -> t
Begun(s) ==
    CASE s.phase = "pending" ->
           [s EXCEPT !.phase = "active", !.mode = "plan", !.odd = TRUE, !.owed = FALSE]
      [] s.phase = "active" -> [s EXCEPT !.odd = ~s.odd, !.owed = FALSE]
      [] OTHER -> [s EXCEPT !.owed = FALSE]
ForgetsReminder(s) ==
    IF s.phase = "exit_pending" THEN [ExitPlan(s) EXCEPT !.owed = s.owed] ELSE s
EndedInPlan(s) ==
    IF s.phase = "exit_pending" /\ s.mode = "plan"
    THEN [ExitPlan(s) EXCEPT !.owed = TRUE] ELSE s
Ended(s) ==
    IF s.phase = "exit_pending" THEN [ExitPlan(s) EXCEPT !.owed = TRUE] ELSE s
NotFolded(s) == s
Folded(s) == IF s.phase = "active" THEN [s EXCEPT !.odd = FALSE] ELSE s
GoalKeepsPlan(s) == [s EXCEPT !.mode = "goal", !.awaiting = FALSE]
EnterGoal(s) ==
    [s EXCEPT !.mode = "goal", !.phase = "inactive", !.awaiting = FALSE]
ExitGoal(s) == [s EXCEPT !.mode = "normal"]

KeepsPhase(s) ==
    [s EXCEPT !.mode = IF s.phase = "active" THEN "plan" ELSE "normal"]
FromSnapshot(s) ==
    LET t == CASE s.phase = "pending" -> [s EXCEPT !.phase = "inactive", !.awaiting = FALSE]
               [] s.phase = "exit_pending" ->
                    [s EXCEPT !.phase = "inactive", !.awaiting = FALSE, !.owed = TRUE]
               [] OTHER -> s
    IN [t EXCEPT !.mode = IF t.phase = "active" THEN "plan"
                          ELSE IF s.mode = "goal" THEN "goal" ELSE "normal"]

(* What the transcript says after begin_turn's reminder: "faint" when only *)
(* the sparse reminder is left of the plan mode's rules.                   *)
Reminded(s) ==
    CASE s.phase = "pending" -> "on"
      [] s.phase = "active" -> IF ~s.odd \/ told = "on" THEN "on" ELSE "faint"
      [] OTHER -> IF s.owed THEN "off" ELSE told

-----------------------------------------------------------------------------
(* A change and its save.  The snapshot is taken and the file truncated at *)
(* once; the thread does nothing else until it has written the file.       *)

Free(a) == turn # "down" /\ saver[a] = <<>>
Spend(what) == left[what] > 0 /\ left' = [left EXCEPT ![what] = @ - 1]
Saves(a, s) ==
    /\ Free(a)
    /\ st' = s
    /\ saver' = [saver EXCEPT ![a] = <<s>>]
    /\ disk' = <<>>
    /\ raced' = \E b \in Threads \ {a} : saver[b] # <<>>
    /\ UNCHANGED before

Saved(a) ==
    /\ turn # "down" /\ saver[a] # <<>>
    /\ saver' = [saver EXCEPT ![a] = <<>>]
    /\ disk' \in {saver[a]} \cup (IF raced THEN {<<>>} ELSE {})
    /\ UNCHANGED <<left, st, turn, resumed, flight, told, kept, quiet, raced, before>>

-----------------------------------------------------------------------------
(* The turn *)

Goes(to) == turn' = to
Says(word) == told' = word /\ quiet' = FALSE

StartTurn ==                     \* or it is cancelled before it runs
    /\ turn = "idle" /\ Free(Turn)
    /\ \E to \in {"parked", "ending"} : Goes(to)
    /\ told' = kept
    /\ Spend("turns")
    /\ UNCHANGED <<st, saver, files, resumed, flight, kept, quiet>>

(* wait_or_resolve_parked_plan_approval; exit_fn marks the state again     *)
ParkedIfActive ==
    /\ turn = "parked"
    /\ IF st.awaiting /\ hosted /\ st.phase = "active"
       THEN /\ Saves(Turn, [st EXCEPT !.awaiting = TRUE])
            /\ Goes("ask") /\ resumed' = TRUE /\ UNCHANGED <<told, quiet>>
       ELSE /\ Free(Turn) /\ Goes("begin")
            /\ UNCHANGED <<told, st, saver, files, resumed, quiet>>
    /\ UNCHANGED <<left, flight, kept>>
Parked ==
    /\ turn = "parked"
    /\ IF st.awaiting /\ hosted
       THEN /\ Saves(Turn, [st EXCEPT !.awaiting = TRUE])
            /\ Goes("ask") /\ resumed' = TRUE /\ UNCHANGED <<told, quiet>>
       ELSE /\ Free(Turn) /\ Goes("begin")
            /\ told' = IF st.awaiting THEN "on" ELSE told
            /\ UNCHANGED <<st, saver, files, resumed, quiet>>
    /\ UNCHANGED <<left, flight, kept>>

AskExit ==                       \* the exit_plan_mode tool
    /\ turn = "run" /\ hosted
    /\ Saves(Turn, [st EXCEPT !.awaiting = TRUE])
    /\ Goes("ask") /\ resumed' = FALSE
    /\ UNCHANGED <<left, flight, told, kept, quiet>>

ExitUnasked ==                   \* the tool of a headless session
    /\ turn = "run" /\ ~hosted
    /\ Saves(Turn, ExitPlan(st))
    /\ Says("off")
    /\ UNCHANGED <<left, turn, resumed, flight, kept>>

AskEnds ==                       \* an answer, or ten minutes are over
    /\ turn = "ask"
    /\ Saves(Turn, [st EXCEPT !.awaiting = FALSE])
    /\ Goes("answer")
    /\ UNCHANGED <<left, resumed, flight, told, kept, quiet>>

Returns == Goes(IF resumed THEN "begin" ELSE "run")
Exits ==                         \* approved or abandoned
    /\ turn = "answer"
    /\ Saves(Turn, ExitPlan(st))
    /\ Says("off") /\ Returns
    /\ UNCHANGED <<left, resumed, flight, kept>>

Revises ==                       \* also when nobody answered
    /\ turn = "answer"
    /\ IF resumed
       THEN Saves(Turn, IF st.phase = "active" THEN [st EXCEPT !.awaiting = FALSE]
                                                ELSE EnterPlan(st))
       ELSE Free(Turn) /\ UNCHANGED <<st, saver, files>>
    /\ Returns
    /\ told' = IF told = "on" THEN "on" ELSE "faint"
    /\ quiet' = (quiet \/ st.phase # "active")
    /\ UNCHANGED <<left, resumed, flight, kept>>

BeginTurn ==                     \* _inject_plan_mode_turn_reminder
    /\ turn = "begin"
    /\ Saves(Turn, Begun(st))
    /\ told' = Reminded(st)
    /\ quiet' = (quiet /\ st.phase \in {"inactive", "exit_pending"} /\ ~st.owed)
    /\ Goes("run")
    /\ UNCHANGED <<left, resumed, flight, kept>>

EnterTool ==                     \* enter_plan_mode
    /\ turn = "run"
    /\ Saves(Turn, EnterPlan(st))
    /\ Says("on")
    /\ UNCHANGED <<left, turn, resumed, flight, kept>>

GoalTool ==                      \* update_goal enters goal mode, or leaves it
    /\ turn = "run"
    /\ Saves(Turn, EnterGoal(st)) \/ Saves(Turn, ExitGoal(st))
    /\ quiet' = (quiet \/ st'.phase # st.phase)
    /\ UNCHANGED <<left, turn, resumed, flight, told, kept>>

Compacted ==                     \* the fold may take the rules along; not saved
    /\ turn = "run" /\ Free(Turn)
    /\ st' = Folded(st)
    /\ told' \in {told, IF told = "on" THEN "faint" ELSE told}
    /\ quiet' = (quiet \/ (st.phase = "exit_pending" /\ told' # told))
    /\ UNCHANGED <<left, turn, resumed, saver, flight, kept, files>>

(* The runner returns and the live window is carried over, or it raises    *)
(* and the window stays what it was.                                       *)
TurnOver ==
    /\ turn = "run" /\ Free(Turn)
    /\ Goes("ending")
    /\ \/ kept' = told /\ UNCHANGED <<told, quiet>>
       \/ /\ told' = kept
          /\ quiet' = (quiet \/ told # kept)
          /\ UNCHANGED kept
    /\ UNCHANGED <<left, st, saver, files, resumed, flight>>

EndTurn ==                       \* _complete_plan_mode_turn, in the finally
    /\ turn = "ending"
    /\ Saves(Turn, Ended(st))
    /\ Goes("idle")
    /\ UNCHANGED <<left, resumed, flight, told, kept, quiet>>

-----------------------------------------------------------------------------
(* The host, at any moment *)

HostTurnsOn ==                   \* enter_plan_mode_pending
    /\ Saves(Host, EnterPending(st))
    /\ Spend("host")
    /\ quiet' = (quiet \/ (st.phase = "inactive" /\ st.owed))
    /\ UNCHANGED <<turn, resumed, flight, told, kept>>

HostLooks ==                     \* is a turn in flight?
    /\ Free(Host) /\ flight = "unread"
    /\ flight' = IF turn \in Running THEN "yes" ELSE "no"
    /\ Spend("host")
    /\ UNCHANGED <<st, saver, files, turn, resumed, told, kept, quiet>>
HostTurnsOff ==                  \* user_exit_plan_mode(turn_in_flight)
    /\ flight # "unread"
    /\ Saves(Host, UserExit(st, flight = "yes"))
    /\ flight' = "unread"
    /\ UNCHANGED <<left, turn, resumed, told, kept, quiet>>

HostExits ==                     \* exit_plan_mode, also from a restored approval page
    /\ Saves(Host, ExitPlan(st))
    /\ quiet' = (quiet \/ st.phase # "inactive" \/ st.owed)
    /\ Spend("host")
    /\ UNCHANGED <<turn, resumed, flight, told, kept>>
HostEnters ==                    \* enter_plan_mode, also a page's revise
    /\ Saves(Host, EnterPlan(st))
    /\ quiet' = (quiet \/ turn \in Running \/ st.phase # "active")
    /\ Spend("host")
    /\ UNCHANGED <<turn, resumed, flight, told, kept>>

-----------------------------------------------------------------------------
(* The process *)

Crash ==
    /\ turn # "down"
    /\ before' = IF ~raced /\ \A a \in Threads : saver[a] = <<>> THEN <<st>> ELSE <<>>
    /\ turn' = "down" /\ st' = Fresh /\ flight' = "unread"
    /\ saver' = [a \in Threads |-> <<>>]
    /\ told' = kept /\ quiet' = (quiet \/ told # kept \/ kept = "faint" \/ before' = <<>>)
    /\ Spend("crashes")
    /\ UNCHANGED <<disk, resumed, kept, raced>>

Restart ==                       \* load_plan_mode_state
    /\ turn = "down"
    /\ turn' = "idle"
    /\ st' = IF disk = <<>> THEN Fresh ELSE FromSnapshot(disk[1])
    /\ UNCHANGED <<left, disk, resumed, saver, flight, told, kept, quiet, raced, before>>

TurnStep ==
    \/ Saved(Turn)
    \/ Parked \/ AskEnds \/ Exits \/ Revises \/ BeginTurn \/ TurnOver \/ EndTurn
TurnTools == AskExit \/ ExitUnasked \/ EnterTool \/ GoalTool \/ Compacted
HostStep ==
    \/ Saved(Host)
    \/ HostTurnsOn \/ HostLooks \/ HostTurnsOff \/ HostExits \/ HostEnters

Next ==
    /\ StartTurn \/ TurnStep \/ TurnTools \/ HostStep \/ Crash \/ Restart
    /\ UNCHANGED hosted

(* A turn runs to its end: the runner returns (SF: it may call tools in    *)
(* between, but not for ever), and exit_fn waits at most ten minutes.      *)
Fairness ==
    /\ WF_vars(TurnStep /\ UNCHANGED hosted)
    /\ SF_vars(TurnOver /\ UNCHANGED hosted)
Spec == Init /\ [][Next]_vars /\ Fairness
-----------------------------------------------------------------------------
(* Properties *)

Snapshots == [phase : Phases, mode : {"normal", "plan", "goal"}, awaiting : BOOLEAN,
              owed : BOOLEAN, odd : BOOLEAN]
AtMostOne == {<<>>} \cup {<<s>> : s \in Snapshots}
TypeOK ==
    /\ hosted \in BOOLEAN /\ st \in Snapshots /\ disk \in AtMostOne
    /\ turn \in Running \cup {"idle", "down"} /\ resumed \in BOOLEAN
    /\ saver \in [Threads -> AtMostOne]
    /\ flight \in {"unread", "yes", "no"}
    /\ left \in [{"turns", "host", "crashes"} -> Nat]
    /\ st.phase \in {"pending", "active", "exit_pending"} => st.mode # "goal"
    /\ {told, kept} \subseteq {"off", "faint", "on"}
    /\ {quiet, raced} \subseteq BOOLEAN
    /\ before \in AtMostOne

(* A model that works under the edit gate has been told so in this window, *)
(* and one that is free of it does not believe it is still planning.       *)
ModelKnows ==
    turn = "run" /\ ~quiet =>
        /\ st.phase = "active" => told # "off"
        /\ st.phase = "inactive" /\ ~st.owed => told = "off"

(* A restart finds plan mode, a parked approval and an owed exit reminder  *)
(* as a crash met them; only a crash in the middle of a save, or after two *)
(* saves at once, may lose them.                                           *)
RestartKeepsPlan ==
    Restart => \A s \in ToSet(before) :
        /\ st'.phase = "active" <=> s.phase = "active"
        /\ s.owed \/ s.phase = "exit_pending" => st'.owed
        /\ s.phase \in {"active", "inactive"} => st'.awaiting = s.awaiting

(* With somebody to ask, a parked approval is answered before the model    *)
(* works again, also after a crash and in whatever phase it was restored.  *)
ApprovalFirst == turn = "begin" /\ turn' = "run" /\ hosted => ~st.awaiting

(* The turn after a fold gets the full rules of plan mode again.           *)
RulesReturn ==
    turn = "begin" /\ turn' = "run" /\ st'.phase = "active" /\ ~quiet => told' = "on"

(* The model's idea of the mode follows the mode, through toggles and      *)
(* folds, and a restart loses neither the mode nor the question that is    *)
(* open in it.                                                             *)
PlanIsKept == [][/\ TypeOK' /\ ModelKnows' /\ RulesReturn
                 /\ RestartKeepsPlan /\ ApprovalFirst]_vars

(* An exit that was deferred to the end of the turn happens.               *)
DeferredExitEnds ==
    st.phase = "exit_pending" /\ turn \in Running
    ~> st.phase # "exit_pending" \/ turn = "down"
=============================================================================
