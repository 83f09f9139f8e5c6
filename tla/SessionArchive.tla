----------------------------- MODULE SessionArchive -----------------------------
(***************************************************************************)
(* The archive of sessions (src/src/codedoggy/memory/session_store.py, the *)
(* claim of bootstrap.py, hydrate_from_store of session/kernel.py, and     *)
(* what AgentTurnRunner.run writes around the loop).                       *)
(*                                                                         *)
(* Several processes share one SQLite file.  Each statement commits by     *)
(* itself and may fail (a locked file, a full disk); a process may die     *)
(* between two of them.  A turn is two messages, archived one by one as    *)
(* "pending" rows; when it ends the live window replaces the session's     *)
(* snapshot, and one UPDATE classifies the turn's rows.                    *)
(***************************************************************************)
EXTENDS Naturals, Sequences, FiniteSets, SequencesExt

CONSTANTS Procs, Workspace,   \* processes, and the workspace each runs in
          Ids,                \* session ids
          TurnIds,            \* archive_turn_id: 1, 2, ...
          TailLimit,          \* `limit` of hydrate_from_store
          Faults, Kills       \* bounds on failed statements and killed processes

Nowhere == "none"    \* no workspace has claimed the session

ASSUME ArchiveAssumption ==
    /\ {Faults, Kills, TailLimit} \subseteq Nat
    /\ \A p \in Procs : Workspace[p] # Nowhere
    /\ Cardinality(TurnIds) \in Nat /\ TurnIds = 1 .. Cardinality(TurnIds)

VARIABLES
    owner,      \* sessions.cwd, per id
    rows,       \* messages: turn and part, in the order of their ids
    outcome,    \* messages.outcome, the same for all rows of a turn
    snapshot,   \* context_snapshots, per id
    proc,       \* per process: where it is, its session, its turn
    window,     \* per process: live_messages
    failing     \* statements that failed and processes that died so far

(* History: read by the properties only. *)
VARIABLES
    turnOf,     \* per turn: its session, its workspace, how it ended
    alone,      \* per session: never attached twice at a time, and no snapshot failed
    last        \* per session: the window its last turn or rewind left

archive == <<owner, rows, outcome, snapshot, proc, window, failing, turnOf, alone, last>>
db == <<owner, rows, outcome, snapshot>>

NoTurn == 0
Parts(t) == <<[turn |-> t, part |-> 1], [turn |-> t, part |-> 2]>>
RowsOf(s) == SelectSeq(rows, LAMBDA r : turnOf[r.turn].id = s)
LastRows(s, n) == LET q == RowsOf(s) IN SubSeq(q, IF Len(q) > n THEN Len(q) - n + 1 ELSE 1, Len(q))
Attached(s) == {p \in Procs : proc[p].at # "off" /\ proc[p].id = s}
Off == [at |-> "off", id |-> CHOOSE s \in Ids : TRUE, turn |-> NoTurn]
Goes(p, step) == proc' = [proc EXCEPT ![p].at = step]
Fault(kind) == failing' = [failing EXCEPT ![kind] = @ + 1]

ArchiveInit ==
    /\ owner = [s \in Ids |-> Nowhere] /\ rows = <<>>
    /\ outcome = [t \in TurnIds |-> "pending"]
    /\ snapshot = [s \in Ids |-> <<>>]
    /\ proc = [p \in Procs |-> Off]
    /\ window = [p \in Procs |-> <<>>] /\ failing = [faults |-> 0, kills |-> 0]
    /\ turnOf = <<>> /\ alone = [s \in Ids |-> TRUE] /\ last = [s \in Ids |-> <<>>]

-----------------------------------------------------------------------------
(* Start and end of a process *)

ClaimAnyway(p, s) ==             \* ensure_session: the row of another workspace is kept
    /\ proc[p].at = "off"
    /\ owner' = [owner EXCEPT ![s] = IF @ = Nowhere THEN Workspace[p] ELSE @]
    /\ proc' = [proc EXCEPT ![p] = [at |-> "claimed", id |-> s, turn |-> NoTurn]]
    /\ alone' = [alone EXCEPT ![s] = @ /\ Attached(s) = {}]
    /\ UNCHANGED <<rows, outcome, snapshot, window, failing, turnOf, last>>
Claim(p, s) ==                   \* claim_session, one IMMEDIATE transaction
    /\ proc[p].at = "off"
    /\ owner[s] \in {Nowhere, Workspace[p]}
    /\ owner' = [owner EXCEPT ![s] = Workspace[p]]
    /\ proc' = [proc EXCEPT ![p] = [at |-> "claimed", id |-> s, turn |-> NoTurn]]
    /\ alone' = [alone EXCEPT ![s] = @ /\ Attached(s) = {}]
    /\ UNCHANGED <<rows, outcome, snapshot, window, failing, turnOf, last>>

HydrateTail(p) == /\ proc[p].at = "claimed" /\ Goes(p, "idle")
                  /\ window' = [window EXCEPT ![p] = LastRows(proc[p].id, TailLimit)]
                  /\ UNCHANGED <<db, failing, turnOf, alone, last>>
Hydrate(p) ==                    \* the snapshot, or the tail of the rows if there is none
    /\ proc[p].at = "claimed" /\ Goes(p, "idle")
    /\ window' = [window EXCEPT ![p] = IF snapshot[proc[p].id] # <<>> THEN snapshot[proc[p].id]
                                       ELSE LastRows(proc[p].id, TailLimit)]
    /\ UNCHANGED <<db, failing, turnOf, alone, last>>

Quit(p) ==                       \* close: the window is cleared, the archive keeps all
    /\ proc[p].at = "idle" /\ proc' = [proc EXCEPT ![p] = Off]
    /\ window' = [window EXCEPT ![p] = <<>>]
    /\ UNCHANGED <<db, failing, turnOf, alone, last>>
Killed(p) ==
    /\ proc[p].at # "off" /\ failing.kills < Kills /\ Fault("kills")
    /\ proc' = [proc EXCEPT ![p] = Off] /\ window' = [window EXCEPT ![p] = <<>>]
    /\ UNCHANGED <<db, turnOf, alone, last>>

-----------------------------------------------------------------------------
(* A turn *)

BeginTurn(p) ==                  \* ensure_session found the row: nothing of it changes here
    /\ proc[p].at = "idle" /\ Len(turnOf) < Cardinality(TurnIds)
    /\ turnOf' = Append(turnOf, [id |-> proc[p].id, cwd |-> Workspace[p], ended |-> "running"])
    /\ proc' = [proc EXCEPT ![p].at = "first", ![p].turn = Len(turnOf')]
    /\ UNCHANGED <<db, window, failing, alone, last>>

RowDone(p) == IF proc[p].at = "first" THEN Goes(p, "second") ELSE Goes(p, "ending")
AppendMessage(p) ==
    /\ proc[p].at \in {"first", "second"} /\ RowDone(p)
    /\ rows' = Append(rows, Parts(proc[p].turn)[IF proc[p].at = "first" THEN 1 ELSE 2])
    /\ UNCHANGED <<owner, outcome, snapshot, window, failing, turnOf, alone, last>>
AppendFails(p) ==                \* logged; the turn goes on
    /\ proc[p].at \in {"first", "second"} /\ RowDone(p)
    /\ failing.faults < Faults /\ Fault("faults")
    /\ UNCHANGED <<db, window, turnOf, alone, last>>

LoopReturns(p, how) ==           \* live_messages; how: TurnResult.status
    /\ proc[p].at = "ending" /\ Goes(p, "saving")
    /\ window' = [window EXCEPT ![p] = @ \o Parts(proc[p].turn)]
    /\ turnOf' = [turnOf EXCEPT ![proc[p].turn].ended = how]
    /\ UNCHANGED <<db, failing, alone, last>>

(* A fold of the turn may have cut the window; it is the window that is    *)
(* saved.                                                                  *)
SaveSnapshot(p) ==
    /\ proc[p].at = "saving" /\ Goes(p, "marking")
    /\ snapshot' = [snapshot EXCEPT ![proc[p].id] = window[p]]
    /\ last' = [last EXCEPT ![proc[p].id] = window[p]]
    /\ UNCHANGED <<owner, rows, outcome, window, failing, turnOf, alone>>
SaveFails(p) ==                  \* logged
    /\ proc[p].at = "saving" /\ Goes(p, "marking")
    /\ failing.faults < Faults /\ Fault("faults")
    /\ alone' = [alone EXCEPT ![proc[p].id] = FALSE]
    /\ UNCHANGED <<db, window, turnOf, last>>

MarkSession(p) ==
    /\ proc[p].at = "marking" /\ proc' = [proc EXCEPT ![p].at = "idle", ![p].turn = NoTurn]
    /\ outcome' = [t \in TurnIds |->
                     IF t \in DOMAIN turnOf /\ turnOf[t].id = proc[p].id
                     THEN turnOf[proc[p].turn].ended ELSE outcome[t]]
    /\ UNCHANGED <<owner, rows, snapshot, window, failing, turnOf, alone, last>>
MarkTurnOutcome(p) ==
    /\ proc[p].at = "marking" /\ proc' = [proc EXCEPT ![p].at = "idle", ![p].turn = NoTurn]
    /\ outcome' = [outcome EXCEPT ![proc[p].turn] = turnOf[proc[p].turn].ended]
    /\ UNCHANGED <<owner, rows, snapshot, window, failing, turnOf, alone, last>>
MarkFails(p) ==                  \* logged; the rows stay pending
    /\ proc[p].at = "marking" /\ proc' = [proc EXCEPT ![p].at = "idle", ![p].turn = NoTurn]
    /\ failing.faults < Faults /\ Fault("faults")
    /\ UNCHANGED <<db, window, turnOf, alone, last>>

Rewind(p) ==                     \* rewind to a checkpoint, out of a turn; saved at once
    /\ proc[p].at = "idle" /\ Len(window[p]) > 2
    /\ window' = [window EXCEPT ![p] = SubSeq(@, 1, Len(@) - 2)]
    /\ snapshot' = [snapshot EXCEPT ![proc[p].id] = window'[p]]
    /\ last' = [last EXCEPT ![proc[p].id] = window'[p]]
    /\ UNCHANGED <<owner, rows, outcome, proc, failing, turnOf, alone>>

ArchiveNext == \E p \in Procs :
    \/ \E s \in Ids : Claim(p, s)
    \/ Hydrate(p) \/ Quit(p) \/ Killed(p)
    \/ BeginTurn(p) \/ AppendMessage(p) \/ AppendFails(p)
    \/ \E how \in {"completed", "failed"} : LoopReturns(p, how)
    \/ SaveSnapshot(p) \/ SaveFails(p) \/ MarkTurnOutcome(p) \/ MarkFails(p) \/ Rewind(p)

-----------------------------------------------------------------------------
(* search with completed_only, for a prompt in workspace c *)
Recalled(c) == {r \in ToSet(rows) : outcome[r.turn] = "completed" /\ owner[turnOf[r.turn].id] = c}

ArchiveTypeOK ==
    /\ \A s \in Ids : owner[s] \in {Nowhere} \cup {Workspace[p] : p \in Procs}
    /\ \A t \in TurnIds : outcome[t] \in {"pending", "completed", "failed"}
    /\ \A p \in Procs : proc[p].at \in {"off", "claimed", "idle", "first", "second", "ending",
                                        "saving", "marking"}
    /\ \A r \in ToSet(rows) : r.turn \in DOMAIN turnOf

(* A prompt recalls only turns that completed, in its own workspace: not   *)
(* one that was cancelled, that is under way in another process, or whose  *)
(* process died before it could say how it ended.                          *)
RecallIsEarned ==
    \A c \in {Workspace[p] : p \in Procs} : \A r \in Recalled(c) :
        turnOf[r.turn].ended = "completed" /\ turnOf[r.turn].cwd = c

(* A session that one process at a time used resumes with the window its   *)
(* last turn or rewind left, whatever the archive holds of turns that were *)
(* cut off later.                                                          *)
ResumeIsExact ==
    \A p \in Procs :
        LET s == proc[p].id IN
          (proc[p].at \in {"idle", "first"} /\ alone[s] /\ last[s] # <<>>) => window[p] = last[s]

(* A process never works in a session of another workspace.                *)
OwnWorkspace == \A p \in Procs : proc[p].at # "off" => owner[proc[p].id] = Workspace[p]

ArchiveIsRight == ArchiveTypeOK /\ RecallIsEarned /\ ResumeIsExact /\ OwnWorkspace
=============================================================================
