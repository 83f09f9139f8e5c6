-------------------------- MODULE StoresInvariants --------------------------
(***************************************************************************)
(* The inductive invariants of what outlives a turn, which StoresProofs    *)
(* proves: of the worktrees of the children, of the index of the code      *)
(* graph, of the runtime its sessions share, and of the transcript.        *)
(*                                                                         *)
(* WorktreeInv adds to the promise about edits what it needs: a worktree   *)
(* that is there has its branch, and a merge between two steps still has   *)
(* every edit it owes. GraphInv says of every file what its last event     *)
(* will make of it, wherever that event waits. RuntimeInv ties the place   *)
(* of every session to the leases, the watchers and the queue of its       *)
(* runtime. HistoryInv says that a transcript is the system's message and  *)
(* whole exchanges, but for the results still due in a batch under way,    *)
(* and that each result is of its own round.                               *)
(***************************************************************************)
EXTENDS MCStores

-----------------------------------------------------------------------------
(* The worktrees of the children (Worktree). *)

(* Types: the edits of children, by child and number; the steps of a       *)
(* merge.                                                                  *)
EditSets == SUBSET (Children \X Nat)
Steps == {"commit", "merge", "remove", "delete"}
WorktreeTypes ==
    /\ status \in [Children -> {"none", "running", "completed", "failed"}]
    /\ resumes \in [Children -> Nat] /\ dir \subseteq Children
    /\ made \in [Children -> Nat]
    /\ loose \in [Children -> EditSets] /\ tip \in [Children -> EditSets \cup {NoBranch}]
    /\ parent \in EditSets /\ given \in EditSets
    /\ conflicted \in BOOLEAN /\ envCleanup \in BOOLEAN
    /\ landed \in [ever : SUBSET Children, noted : SUBSET Children,
         armed : SUBSET Children]
    /\ merge \in [Mergers -> {Free} \cup [child : Children, step : Steps,
         cleanup : BOOLEAN,
                                          drop : BOOLEAN, owes : EditSets]]

OnBranch(c) == IF tip[c] = NoBranch THEN {} ELSE tip[c]

(* A worktree that is there has its branch, one that is not has nothing    *)
(* uncommitted, and a child that never ran has made no edit.               *)
CheckoutsFit ==
    \A c \in Children :
        /\ c \in dir => tip[c] # NoBranch
        /\ c \notin dir => loose[c] = {}
        /\ status[c] = "none" => made[c] = 0

(* What a merge that is under way may still destroy is accounted for.      *)
MergesFit ==
    \A m \in Mergers : merge[m] # Free =>
        LET c == merge[m].child IN
        /\ status[c] # "none"
        /\ merge[m].owes \subseteq EditsOf(c)
        /\ merge[m].cleanup \/ merge[m].drop =>
              /\ EditsOf(c) \subseteq merge[m].owes \cup given
              /\ merge[m].step # "commit" => loose[c] \subseteq given
        /\ merge[m].step = "merge" =>
             merge[m].owes \ given \subseteq OnBranch(c) \cup parent

WorktreeInv ==
  WorktreeTypes /\ CheckoutsFit /\ MergesFit /\ NoEditIsLost /\ MergeIsComplete

-----------------------------------------------------------------------------
(* The runtime that sessions share (GraphRuntime). *)

(* Where a session waits for a command, and every place it can be. *)
Waits == {"asking", "closing", "saving", "fencing"}
Places == Holding \cup {"out", "found", "failed", "shutdown", "fencing", "fenced", "gone"}
(* What the variables hold. *)
RuntimeTypes ==
    /\ registry \in 0 .. Generations
    /\ life \in [Gens -> {"unborn", "open", "closing", "closed"}]
    /\ leases \in [Gens -> SUBSET Sessions] /\ watchers \in [Gens -> SUBSET Sessions]
    /\ observer \in [Gens -> {"off", "on", "stopping"}]
    /\ watchLock \in [Gens -> Sessions \cup {Nobody}]
    /\ heard \in [Gens -> Nat] /\ popped \in [Gens -> Nat]
    /\ cmds \in [Gens -> Seq(Sessions \cup {Nobody})]
    /\ sess \in [Sessions -> [at : Places, rt : 0 .. Generations, retried : BOOLEAN]]
    /\ spent \in [commands : Nat, notices : Nat]

(* Session s is at one of these places. *)
At(s, where) == sess[s].at \in where

(* Only the newest generation may be open; a closed one has no leases.     *)
LivesFit ==
    \A g \in Gens :
        /\ life[g] = "unborn" <=> g > registry
        /\ life[g] = "open" => g = registry
        /\ life[g] = "open" =>
             leases[g] # {} \/ \E s \in Sessions : At(s, {"found"}) /\ sess[s].rt = g
        /\ life[g] # "open" => leases[g] = {}

(* Where a session is says what it holds, and the other way round.         *)
SessionsFit ==
    \A s \in Sessions :
        /\ ~At(s, {"out", "failed"}) => sess[s].rt \in Gens /\ life[sess[s].rt] # "unborn"
        /\ \A g \in Gens : s \in leases[g] <=> At(s, Holding) /\ sess[s].rt = g
        /\ At(s, {"shutdown", "fencing", "fenced"}) => life[sess[s].rt] = "closing"
        /\ \A t \in Sessions : /\ At(s, {"shutdown", "fencing", "fenced"})
                               /\ sess[s].rt = sess[t].rt
                               /\ At(t, {"shutdown", "fencing", "fenced"})
                               => s = t

(* Who watches is in, and the observer is stopped by whoever has the lock. *)
WatchesFit ==
    /\ \A g \in Gens : \A s \in watchers[g] :
          s \in leases[g] /\ At(s, {"open", "asking", "closing", "unwatch"})
    /\ \A g \in Gens : /\ observer[g] = "on" <=> watchers[g] # {}
                       /\ observer[g] = "stopping" <=> watchLock[g] # Nobody
    /\ \A g \in Gens : \A s \in Sessions :
          watchLock[g] = s <=> At(s, {"flush"}) /\ sess[s].rt = g

(* A session waits for one command, and a fence is the last of its queue.  *)
QueuesFit ==
    /\ \A g \in Gens : \A i \in DOMAIN cmds[g] : cmds[g][i] # Nobody =>
          /\ At(cmds[g][i], Waits) /\ sess[cmds[g][i]].rt = g
          /\ At(cmds[g][i], {"fencing"}) => i = Len(cmds[g])
          /\ \A j \in DOMAIN cmds[g] : cmds[g][i] = cmds[g][j] => i = j
    /\ \A s \in Sessions : At(s, {"fenced"}) => cmds[sess[s].rt] = <<>>
    /\ \A g \in Gens : life[g] = "closed" => cmds[g] = <<>>

(* The inductive invariant. *)
RuntimeInv == RuntimeTypes /\ LivesFit /\ SessionsFit /\ WatchesFit /\ QueuesFit

-----------------------------------------------------------------------------
(* The index of the code graph (GraphIndex). *)

(* Types: the events of files, the commands of the queue, and the indexes. *)
Events == {e \in [kind : {"touch", "remove", "rename"}, file : Files, to : Files] :
             e.kind = "rename" <=> e.to # e.file}
Orders == {c \in [cmd : Blocking \cup {"events", "request"}, events : Seq(Events)] :
                c.cmd # "events" => c.events = <<>>}
Indexes == {None} \cup [Files -> [text : Nat, meta : Nat]]
(* What the variables hold. *)
GraphTypes ==
    /\ disk \in [Files -> Nat] /\ changes \in Nat
    /\ os \in Seq(Events) /\ pend \in Seq(Events) /\ events \in Seq(Events)
    /\ queue \in Seq(Orders)
    /\ worker \in [cmd : {"none", "events", "load", "ensure", "rebuild"},
         todo : Seq(Events),
                   index : Indexes, read : Seq(Nat), replay : BOOLEAN]
    /\ manager \in Indexes /\ cache \in Indexes
    /\ dirty \in BOOLEAN /\ rebuild \in BOOLEAN
    /\ thread \in Files \cup {"idle", "answered", "reading"} \cup Blocking
    /\ since \in [Files -> SUBSET Nat] /\ shadowed \subseteq Files

(* The worker and the thread. *)
WorkFits ==
    /\ worker.cmd = "none" <=> worker = Idle
    /\ worker.cmd # "none" => worker.index \in [Files -> [text : Nat, meta : Nat]]
    /\ worker.cmd = "events" => manager = worker.index /\ manager # None /\ ~worker.replay
    /\ worker.cmd = "load" =>
         worker.index = cache /\ worker.todo = <<>> /\ worker.read = <<>>
    /\ worker.read # <<>> => /\ worker.todo # <<>> /\ Head(worker.todo).kind = "touch"
                             /\ Len(worker.read) = 1
    /\ events # <<>> => manager = None /\ (worker.cmd # "none" => worker.replay)

(* The thread waits for one command, which is in the queue or at work.     *)
ThreadFits ==
    /\ \A k \in DOMAIN queue : queue[k].cmd \in Blocking =>
          /\ thread = queue[k].cmd /\ worker.cmd \in {"none", "events"}
          /\ \A j \in DOMAIN queue : queue[j].cmd \in Blocking => j = k
    /\ worker.cmd \in {"load", "ensure"} => thread = "ensure"
    /\ worker.cmd = "rebuild" => thread = "rebuild"
    /\ thread \in {"answered", "fence", "reading"} => manager # None

-----------------------------------------------------------------------------
(* What becomes of a file when the events of a sequence are applied, where *)
(* `good` are the versions that are right for it.                          *)
Fixes(e, f, good) == \/ e.kind # "remove" /\ e.to = f
                     \/ e.kind # "touch" /\ e.file = f /\ 0 \in good
Spoils(e, f, good) == e.kind # "touch" /\ e.file = f /\ 0 \notin good
Fixing(s, f, good) == \E i \in DOMAIN s : /\ Fixes(s[i], f, good)
                                          /\ \A j \in DOMAIN s : j > i =>
                                               ~Spoils(s[j], f, good)
Clean(s, f, good) == \A i \in DOMAIN s : ~Spoils(s[i], f, good)
Ends(before, s, f, good) == Fixing(s, f, good) \/ (before /\ Clean(s, f, good))

(* The same for the commands of a queue, up to one that stops it.          *)
QueueFixes(q, f, good, stops) ==
    \E k \in DOMAIN q : /\ Fixing(q[k].events, f, good)
                        /\ \A j \in DOMAIN q : j > k => Clean(q[j].events, f, good)
                        /\ \A j \in DOMAIN q : j <= k => q[j].cmd \notin stops
QueueClean(q, f, good) == \A k \in DOMAIN q : Clean(q[k].events, f, good)
QueueEnds(before, q, f, good, stops) ==
    QueueFixes(q, f, good, stops) \/ (before /\ QueueClean(q, f, good))

(* The worker has read file f and not yet its metadata. *)
Reads(f) == worker.read # <<>> /\ Head(worker.todo).file = f
(* The entry a crash between the two reads of a file left in the cache. *)
Torn(f) == cache # None /\ cache[f].text # cache[f].meta
(* What the index the worker is at, or will begin with, has of a file.     *)
Base(f, good) ==
    \/ worker.cmd = "none" /\ manager # None /\ manager[f].text \in good
    \/ worker.cmd = "none" /\ manager = None /\ ~Torn(f)
    \/ worker.cmd # "none" /\ Reads(f) /\ Head(worker.read) \in good
    \/ worker.cmd # "none" /\ ~Reads(f) /\ worker.index[f].text \in good
(* What the worker has still to apply, and what a file comes to by then. *)
Todo == IF worker.read # <<>> THEN Tail(worker.todo) ELSE worker.todo
Worked(f, good) == Ends(Ends(Base(f, good), Todo, f, good), events, f, good)

-----------------------------------------------------------------------------
(* A file's last event is on its way as long as the index may be wrong. *)
OsFits == \A f \in Files : Ends(TRUE, os, f, {disk[f]})
(* What a file whose versions `good` a query may find goes by.             *)
SinceFit(f, good) ==
    /\ disk[f] \in good
    /\ Clean(os, f, good) /\ Clean(pend, f, good)
    /\ QueueEnds(Worked(f, good), queue, f, good, {"fence"})
    /\ thread = "reading" =>
          /\ worker.cmd \in {"none", "events"} /\ manager[f].text \in good
          /\ Base(f, good) /\ Clean(Todo, f, good) /\ QueueClean(queue, f, good)
SinceFits == \A f \in Files : since[f] # {} => SinceFit(f, since[f])
(* What a file goes by that nobody writes around the notices. *)
CatchFit(f, good) ==
    Ends(Ends(QueueEnds(Worked(f, good), queue, f, good, {}), pend, f, good), os, f, good)
WillCatchUp == \A f \in Files \ shadowed : CatchFit(f, {disk[f]})
(* The inductive invariant. *)
GraphInv ==
  GraphTypes /\ WorkFits /\ ThreadFits /\ CleanIsSaved /\ OsFits /\ SinceFits
    /\ WillCatchUp

-----------------------------------------------------------------------------
(* The transcript (LiveHistory, ToolPairs). *)

(* What a message is; every call has an id.                                *)
Ids == STRING \ {NoId}
Words == STRING \cup {NoId, Blank, Cleared, "prose", "never executed", "system", "prompt",
                      "summary"}
Message == {m \in [role : {"system", "user", "assistant", "tool"}, calls : Seq(Ids),
                   id : Words, text : Words] : HasCalls(m) => m.role = "assistant"}

(* The messages, and those that are no system message.                     *)
Plain == {m \in Message : m.role # "system"}

(* Every result has the text of its round, unless it was cleared or made   *)
(* up.                                                                     *)
Faithful(ms) ==
    \A i \in 1 .. Len(ms) : \A j \in 1 .. Len(ms[i].calls) :
        i + j \in 1 .. Len(ms) => ms[i + j].text \in {ms[i].id, Cleared, "never executed"}

(* Transcripts whose calls and results fit, and whose results are true if  *)
(* f holds; with or without the system message in front.                   *)
Whole(T, f) == {s \in Seq(T) : WellFormed(s) /\ (f => Faithful(s))}
Systems == {m \in Message : m.role = "system"}
Opened(f) == {<<y>> \o s : y \in Systems, s \in Whole(Plain, f)}

(* What the variables hold. *)
HistoryTypes ==
    /\ pc \in {"idle", "head", "batch", "over", "down"}
    /\ turns \in 0 .. MaxTurns /\ rounds \in 0 .. Len(Texts)
    /\ compacted \in BOOLEAN /\ fromRows \in BOOLEAN
    /\ live \in Seq(Message) /\ messages \in Seq(Message) /\ rows \in Seq(Message)
    /\ snapshot \in Seq(Message)

(* In the midst of a batch: the calls of the last sample, in a transcript  *)
(* that was whole before it, have their results up to some place.          *)
BatchAt(f, ms, name, a) ==
    /\ a \in 2 .. Len(ms) /\ SubSeq(ms, 1, a - 1) \in Opened(f)
    /\ HasCalls(ms[a]) /\ ms[a].id = name /\ Len(ms) - a <= Len(ms[a].calls)
    /\ \A j \in 1 .. Len(ms) - a :
         IsResult(ms[a + j]) /\ ms[a + j].id = ms[a].calls[j] /\ ms[a + j].text = name
InBatch(f, ms, name) == \E a \in 2 .. Len(ms) : BatchAt(f, ms, name, a)

(* The inductive invariant. *)
HistoryInv ==
    /\ HistoryTypes
    /\ live \in Opened(~fromRows) \/ live \in Whole(Plain, ~fromRows)
    /\ snapshot = <<>> \/ snapshot \in Opened(~fromRows)
    /\ pc \in {"head", "over"} => messages \in Opened(~fromRows)
    /\ pc = "batch" => rounds \in 1 .. Len(Texts) /\ InBatch(~fromRows, messages, Texts[rounds])
    /\ pc \in {"idle", "down"} => messages = <<>>
=============================================================================
