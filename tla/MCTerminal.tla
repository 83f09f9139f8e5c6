----------------------------- MODULE MCTerminal -----------------------------
(***************************************************************************)
(* The session and the terminal in front of it: its list of tasks and its  *)
(* connection wizard.  The terminal's models have their own, coarser       *)
(* picture of the session and share no variable with Session: a behaviour  *)
(* takes one of the three and the others stay as they begin.               *)
(***************************************************************************)
EXTENDS MCSession, TaskBoard, TerminalLogin
CONSTANT k1
VARIABLE side

TerminalInit ==
    /\ Init /\ BoardInit /\ LoginInit /\ side \in {"session", "board", "login"}
TerminalNext ==
    \/ side = "session" /\ Next /\ UNCHANGED <<side, board, dialog>>
    \/ side = "board" /\ BoardNext /\ UNCHANGED <<side, vars, dialog>>
    \/ side = "login" /\ LoginNext /\ UNCHANGED <<side, vars, board>>
TerminalSpec == TerminalInit /\ [][TerminalNext]_<<side, vars, board, dialog>>

(* The terminal tells the truth: its list of tasks (TaskBoard), and its    *)
(* connection wizard (TerminalLogin).                                      *)
TerminalIsTrue == [][BoardIsTrue /\ LoginIsSound]_<<side, vars, board, dialog>>
=============================================================================
