------------------------------- MODULE MCMemory -------------------------------
(***************************************************************************)
(* The memory of a session: extraction beside the turn, the curated file,  *)
(* the providers, and the archive.  They meet in no shared variable and    *)
(* are explored one at a time: a behaviour picks one, and the others stay  *)
(* as they begin.                                                          *)
(***************************************************************************)
EXTENDS MemoryFlush, MemoryStore, MemorySync, SessionArchive, TLC
CONSTANTS w1, w2, w3, p1, p2, p3, e1, e2, e3, s1
VARIABLE part

(* Two threads of one process and one of another. *)
MCStoreOf == (w1 :> p1) @@ (w2 :> p1) @@ (w3 :> p2)
One(kind, old, new) == [kind |-> kind, old |-> old, new |-> new]
MCOperations ==
    {[batch |-> FALSE, ops |-> <<op1>>] :
        op1 \in {One("add", {}, e) : e \in {e1, e2, e3}} \cup {One("replace", {e1, e2}, e3), One("remove", {e1}, e1)}}
    \cup {[batch |-> TRUE, ops |-> <<One("add", {}, e2), One("remove", {e3}, e3)>>]}
(* Two processes in one workspace and one in another. *)
MCWorkspace == (p1 :> "here") @@ (p2 :> "here") @@ (p3 :> "there")

MemoryInit ==
    /\ Init /\ NotesInit /\ SyncInit /\ ArchiveInit
    /\ part \in {"flush", "notes", "providers", "archive"}
MemoryNext ==
    \/ part = "flush" /\ Next /\ UNCHANGED <<part, notes, syncs, archive>>
    \/ part = "notes" /\ NotesNext /\ UNCHANGED <<part, vars, syncs, archive>>
    \/ part = "providers" /\ SyncNext /\ UNCHANGED <<part, vars, notes, archive>>
    \/ part = "archive" /\ ArchiveNext /\ UNCHANGED <<part, vars, notes, syncs>>
FlushTurnStep == part = "flush" /\ TurnStep
MemorySpec ==
    /\ MemoryInit /\ [][MemoryNext]_<<part, vars, notes, syncs, archive>>
    /\ WF_vars(FlushTurnStep) /\ NotesFairness /\ CloserFairness

(* What is remembered, and recalled, was earned: by the transcript it came *)
(* from, by a turn that completed, in the workspace that asks for it.      *)
MemoryIsKept == MemoryIsEarned /\ TurnsAreTaught /\ ArchiveIsRight

(* Neither a hung worker, nor a hung provider, nor a dead holder of the    *)
(* lock stops a turn, a close or a call.                                   *)
Waits == WaitsForWorker \/ CallIsOpen \/ CloseIsOpen
MemoryNeverHangs == Waits ~> ~Waits
=============================================================================
