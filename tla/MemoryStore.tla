------------------------------ MODULE MemoryStore ------------------------------
(***************************************************************************)
(* The curated memory file (src/src/codedoggy/memory/store.py).            *)
(*                                                                         *)
(* MEMORY.md (USER.md is another instance) is read and rewritten by the    *)
(* memory tool and by the flush worker of one process, by other processes, *)
(* and by editors, patch tools and shells that know nothing of its lock.   *)
(* An operation takes the file lock, reloads, decides, writes a temporary  *)
(* file and renames it.  A step is what lies between two points where      *)
(* another process may be seen.  Entries are a set, for the order plays no *)
(* part and reload drops duplicates, and every entry takes one unit of the *)
(* limit.                                                                  *)
(***************************************************************************)
EXTENDS Naturals, FiniteSets, Sequences

CONSTANTS Writers, Stores, StoreOf,  \* threads, processes with a store, whose thread
          Entry, Limit,              \* entries, and how many fit: _char_limit
          Operations,                \* what the tool is asked, see Ops
          NoWriter,
          MaxOps, MaxEdits,          \* bounds on calls and on foreign edits
          MaxReadFaults, MaxDeaths   \* bounds on unreadable files and on killed processes

(* A call is one operation, or a batch of them. *)
Ops == [batch : BOOLEAN, ops : Seq([kind : {"add", "replace", "remove"},
                                    old : SUBSET Entry, new : Entry])]
ASSUME StoreAssumption ==
    /\ StoreOf \in [Writers -> Stores] /\ NoWriter \notin Writers
    /\ Operations \subseteq Ops
    /\ \A c \in Operations : c.ops # <<>> /\ (~c.batch => Len(c.ops) = 1)
    /\ {Limit, MaxOps, MaxEdits, MaxReadFaults, MaxDeaths} \subseteq Nat

VARIABLES
    mfile,      \* entries; of these, glued: the ones foreign text was appended to
    flock,      \* the writer that holds MEMORY.md.lock
    live,       \* per store: memory_entries
    at, op,     \* per writer: its step, its call
    budget      \* calls, edits, read faults and deaths so far

(* History: read by the properties only. *)
VARIABLES
    owed,       \* entries, and entries with foreign text, that nobody asked to drop
    seen        \* per writer: what its reload found, and whether it could read

notes == <<mfile, flock, live, at, op, budget, owed, seen>>

NoCall == [batch |-> FALSE, ops |-> <<>>]
Unread == [entries |-> {}, glued |-> {}, readable |-> TRUE]
Spend(what) == budget' = [budget EXCEPT ![what] = @ + 1]

NotesInit ==
    /\ mfile = [entries |-> {}, glued |-> {}] /\ flock = NoWriter
    /\ live = [s \in Stores |-> {}]
    /\ at = [w \in Writers |-> "idle"]
    /\ op = [w \in Writers |-> NoCall]
    /\ budget = [ops |-> 0, edits |-> 0, faults |-> 0, deaths |-> 0]
    /\ owed = mfile /\ seen = [w \in Writers |-> Unread]

-----------------------------------------------------------------------------
(* What a call makes of the entries *)

(* One operation.  old_text names the entries that contain it; it must     *)
(* match one, not two that differ.                                         *)
Apply(r, o) ==
    LET matches == r.set \cap o.old IN
      IF ~r.ok \/ (o.kind # "add" /\ Cardinality(matches) # 1) THEN [r EXCEPT !.ok = FALSE]
      ELSE [r EXCEPT !.set = CASE o.kind = "add" -> r.set \cup {o.new}
                               [] o.kind = "replace" -> (r.set \ matches) \cup {o.new}
                               [] o.kind = "remove" -> r.set \ matches]
Results(S, c) ==                 \* after each of the operations
    LET after[i \in 0 .. Len(c.ops)] ==
          IF i = 0 THEN [ok |-> TRUE, set |-> S] ELSE Apply(after[i - 1], c.ops[i])
    IN after
Outcome(S, c) == Results(S, c)[Len(c.ops)]
IsSingle(c, kind) == ~c.batch /\ c.ops[1].kind = kind
(* An entry with foreign text is longer than the limit by itself. *)
TooBig(S, glued, c) ==
    ~IsSingle(c, "remove") /\ (Cardinality(S) > Limit \/ S \cap glued # {})

NoDrift(c) == FALSE
(* Text that does not round-trip; a single add skips the check. *)
Drifted(c) == mfile.glued # {} /\ ~IsSingle(c, "add")

(* r is what the reload found.  An add of what is there answers without writing. *)
NothingToDo(r, c) == IsSingle(c, "add") /\ c.ops[1].new \in r.entries
Refused(r, c) ==
    LET out == Outcome(r.entries, c) IN ~out.ok \/ TooBig(out.set, r.glued, c)

-----------------------------------------------------------------------------
(* A call *)

Call(w, c) ==
    /\ at[w] = "idle" /\ budget.ops < MaxOps
    /\ at' = [at EXCEPT ![w] = "waiting"] /\ op' = [op EXCEPT ![w] = c] /\ Spend("ops")
    /\ UNCHANGED <<mfile, flock, live, owed, seen>>

LockFree(w) == /\ at[w] = "waiting" /\ at' = [at EXCEPT ![w] = "locked"] /\ flock' = w
               /\ UNCHANGED <<mfile, live, op, budget, owed, seen>>
Lock(w) ==                       \* flock excludes threads too: each call opens the file
    /\ at[w] = "waiting" /\ flock = NoWriter
    /\ at' = [at EXCEPT ![w] = "locked"] /\ flock' = w
    /\ UNCHANGED <<mfile, live, op, budget, owed, seen>>

NothingRead == [entries |-> {}, glued |-> {}, readable |-> FALSE]

(* The rest of the call up to the write.  What cannot be read counts as    *)
(* an empty file (_read_file), and as one without drift.                   *)
Settle(w, r) ==
    LET c == op[w]  stay == Refused(r, c) \/ NothingToDo(r, c) IN
      /\ live' = [live EXCEPT ![StoreOf[w]] = IF stay THEN r.entries ELSE Outcome(r.entries, c).set]
      /\ at' = [at EXCEPT ![w] = IF stay THEN "done" ELSE "writing"]
      /\ seen' = [seen EXCEPT ![w] = r]

TrustLive(w) ==
    /\ at[w] = "locked"
    /\ Settle(w, [entries |-> live[StoreOf[w]], glued |-> {}, readable |-> TRUE])
    /\ UNCHANGED <<mfile, flock, op, budget, owed>>
Reload(w) ==
    /\ at[w] = "locked"
    /\ IF Drifted(op[w])        \* a backup is written, the file stays
       THEN /\ live' = [live EXCEPT ![StoreOf[w]] = mfile.entries]
            /\ at' = [at EXCEPT ![w] = "done"] /\ UNCHANGED seen
       ELSE Settle(w, [entries |-> mfile.entries, glued |-> mfile.glued, readable |-> TRUE])
    /\ UNCHANGED <<mfile, flock, op, budget, owed>>

CannotRead(w) ==                 \* OSError
    /\ at[w] = "locked" /\ budget.faults < MaxReadFaults /\ Spend("faults")
    /\ Settle(w, NothingRead)
    /\ UNCHANGED <<mfile, flock, op, owed>>

WriteInPlace(w) ==
    /\ at[w] = "writing" /\ at' = [at EXCEPT ![w] = "written"]
    /\ mfile' = [entries |-> {}, glued |-> {}]
    /\ UNCHANGED <<flock, live, op, budget, owed, seen>>
WriteTemp(w) ==
    /\ at[w] = "writing" /\ at' = [at EXCEPT ![w] = "written"]
    /\ UNCHANGED <<mfile, flock, live, op, budget, owed, seen>>

WriteFails(w) ==                 \* the temporary file is removed, the exception goes on
    /\ at[w] \in {"writing", "written"} /\ at' = [at EXCEPT ![w] = "done"]
    /\ UNCHANGED <<mfile, flock, live, op, budget, owed, seen>>

(* What the call was asked to drop, of what it had read. *)
Dropped(w) == seen[w].entries \cap
    (UNION {op[w].ops[i].old : i \in {j \in DOMAIN op[w].ops : op[w].ops[j].kind # "add"}})

Replace(w) ==
    /\ at[w] = "written" /\ at' = [at EXCEPT ![w] = "done"]
    /\ LET S == live[StoreOf[w]]  kept == seen[w].glued \cap S IN
         /\ mfile' = [entries |-> S, glued |-> kept]
         /\ owed' = IF seen[w].readable
                    THEN [entries |-> (owed.entries \ Dropped(w)) \cup S, glued |-> owed.glued]
                    ELSE [entries |-> S, glued |-> kept]
    /\ UNCHANGED <<flock, live, op, budget, seen>>

Unlock(w) ==
    /\ at[w] = "done" /\ at' = [at EXCEPT ![w] = "idle"]
    /\ flock' = NoWriter /\ op' = [op EXCEPT ![w] = NoCall] /\ seen' = [seen EXCEPT ![w] = Unread]
    /\ UNCHANGED <<mfile, live, budget, owed>>

-----------------------------------------------------------------------------
(* The surroundings *)

(* An edit that falls between a reload and its rename is written over.     *)
InWindow == \E w \in Writers : at[w] \in {"writing", "written"}
Edit(S, G) ==
    /\ budget.edits < MaxEdits /\ Spend("edits")
    /\ mfile' = [entries |-> S, glued |-> G]
    /\ owed' = IF InWindow THEN [entries |-> owed.entries \cap S, glued |-> owed.glued \cap G]
               ELSE mfile'
    /\ UNCHANGED <<flock, live, at, op, seen>>

DieHoldingLock(s) ==
    /\ budget.deaths < MaxDeaths /\ Spend("deaths")
    /\ LET gone == {w \in Writers : StoreOf[w] = s} IN
         /\ at' = [w \in Writers |-> IF w \in gone THEN "idle" ELSE at[w]]
         /\ op' = [w \in Writers |-> IF w \in gone THEN NoCall ELSE op[w]]
         /\ seen' = [w \in Writers |-> IF w \in gone THEN Unread ELSE seen[w]]
    /\ live' = [live EXCEPT ![s] = mfile.entries]
    /\ UNCHANGED <<mfile, flock, owed>>
(* A killed process leaves the lock, and starts again with load_from_disk. *)
Die(s) ==
    /\ budget.deaths < MaxDeaths /\ Spend("deaths")
    /\ LET gone == {w \in Writers : StoreOf[w] = s} IN
         /\ at' = [w \in Writers |-> IF w \in gone THEN "idle" ELSE at[w]]
         /\ op' = [w \in Writers |-> IF w \in gone THEN NoCall ELSE op[w]]
         /\ seen' = [w \in Writers |-> IF w \in gone THEN Unread ELSE seen[w]]
    /\ flock' = IF flock # NoWriter /\ StoreOf[flock] = s THEN NoWriter ELSE flock
    /\ live' = [live EXCEPT ![s] = mfile.entries]
    /\ UNCHANGED <<mfile, owed>>

NotesNext ==
    \/ \E w \in Writers, c \in Operations : Call(w, c)
    \/ \E w \in Writers : \/ Lock(w) \/ Reload(w) \/ CannotRead(w) \/ WriteTemp(w)
                          \/ WriteFails(w) \/ Replace(w) \/ Unlock(w)
    \/ \E e \in Entry : \/ Edit(mfile.entries \cup {e}, mfile.glued)
                        \/ Edit(mfile.entries \ {e}, mfile.glued \ {e})
                        \/ e \in mfile.entries /\ Edit(mfile.entries, mfile.glued \cup {e})
    \/ \E s \in Stores : Die(s)

(* A thread that is not killed goes on. *)
NotesFairness ==
    \A w \in Writers : /\ WF_notes(Lock(w)) /\ WF_notes(Reload(w)) /\ WF_notes(WriteTemp(w))
                       /\ WF_notes(Replace(w)) /\ WF_notes(Unlock(w))

-----------------------------------------------------------------------------
NotesTypeOK ==
    /\ mfile \in [entries : SUBSET Entry, glued : SUBSET Entry] /\ mfile.glued \subseteq mfile.entries
    /\ live \in [Stores -> SUBSET Entry]
    /\ at \in [Writers -> {"idle", "waiting", "locked", "writing", "written", "done"}]
    /\ flock \in Writers \cup {NoWriter} /\ \A w \in Writers : op[w] \in Operations \cup {NoCall}

(* What a writer saved and what somebody else put into the file stays      *)
(* until a call names it or an editor takes it out: two writers do not     *)
(* overwrite each other, a killed one leaves the file whole, and text that *)
(* was appended to an entry is not dropped with it.  The two exceptions    *)
(* the code makes are in Replace and Edit: a call whose read failed takes  *)
(* the file for empty, and an edit between a reload and its rename is lost.*)
NothingIsForgotten ==
    owed.entries \subseteq mfile.entries /\ owed.glued \subseteq mfile.glued

(* A call never makes the file larger than the prompt has room for, unless *)
(* it only takes away.                                                     *)
RoomIsKept ==
    \A w \in Writers : at[w] = "written" =>
        IsSingle(op[w], "remove") \/ Cardinality(live[StoreOf[w]]) <= Limit

(* A call comes back, also when a process died with the lock.              *)
CallIsOpen == \E w \in Writers : at[w] # "idle"
CallsReturn == CallIsOpen ~> ~CallIsOpen
NotesAreSafe == NotesTypeOK /\ NothingIsForgotten /\ RoomIsKept
=============================================================================
