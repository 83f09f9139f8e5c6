------------------------------ MODULE GraphIndex ------------------------------
(***************************************************************************)
(* The symbol index of one workspace (src/src/codedoggy/graph/runtime.py,  *)
(* index_manager.py, watcher.py, cache.py, builder.py).                    *)
(*                                                                         *)
(* A worker owns the index and takes commands in their order.  It learns   *)
(* of a change twice: from the tool that made it, and from the watcher,    *)
(* later and merged with others.  A version stands for the content of a    *)
(* file; version 0 is a file that is not there.  Reading a file and its    *)
(* stat are two steps, and the process may crash between any two.          *)
(***************************************************************************)
EXTENDS Naturals, Sequences, FiniteSets, SequencesExt

CONSTANTS Files,
          Changes,      \* bound: how often the disk changes
          Queries,      \* bound: how many queries and rebuilds are asked for
          Crashes,      \* bound
          Activity      \* bound: how much of the three happens together

Blocking == {"ensure", "rebuild", "persist", "fence"}

ASSUME GraphIndexAssumption ==
    /\ {Changes, Queries, Crashes, Activity} \subseteq Nat /\ IsFiniteSet(Files) /\ Files # {}
    /\ Files \cap (Blocking \cup {"idle", "answered", "reading"}) = {}

None == [f \in {} |-> 0]
Nothing == [f \in Files |-> [text |-> 0, meta |-> 0]]
Idle == [cmd |-> "none", todo |-> <<>>, index |-> None, read |-> <<>>, replay |-> FALSE]

VARIABLES
    disk,       \* per file: its version
    changes,    \* versions so far
    os,         \* notifications the observer has not handled
    pend,       \* EventDebouncer._pending, in insertion order
    queue,      \* of the executor: commands
    worker,     \* the command under way
    manager,    \* _manager: per file what is indexed and its FileMeta, or None
    events,     \* _pending_events
    dirty,      \* _dirty
    rebuild,    \* _rebuild_requested
    cache,      \* the file of get_cache_path: an index, or None
    thread,     \* where the session's thread is
    left,       \* bounds: queries and crashes to come
    since,      \* auxiliary: what a query may find, {} when nothing is promised
    shadowed    \* auxiliary: files whose arrival merged with an event before their removal

graph == <<disk, changes, os, pend, queue, worker, manager, events, dirty, rebuild, cache, thread,
           left, since, shadowed>>

Touch(f) == [kind |-> "touch", file |-> f, to |-> f]
Removed(f) == [kind |-> "remove", file |-> f, to |-> f]
Rename(f, g) == [kind |-> "rename", file |-> f, to |-> g]
Key(e) == IF e.kind = "rename" THEN <<e.file, e.to>> ELSE <<e.file>>

GraphInit ==
    /\ \E new \in SUBSET Files : disk = [f \in Files |-> IF f \in new THEN 0 ELSE 1]
    /\ changes = 1
    /\ os = <<>> /\ pend = <<>> /\ queue = <<>> /\ worker = Idle
    /\ manager = None /\ events = <<>> /\ dirty = FALSE /\ rebuild = FALSE /\ cache = None
    /\ thread = "idle" /\ left = [queries |-> Queries, crashes |-> Crashes]
    /\ since = [f \in Files |-> {disk[f]}] /\ shadowed = {}

-----------------------------------------------------------------------------
(* The disk, the observer and the debouncer *)

Spare == changes + (Queries - left.queries) + (Crashes - left.crashes) < Activity

Change(new, event) ==
    /\ changes < Changes /\ Spare
    /\ changes' = changes + 1 /\ disk' = new /\ os' = Append(os, event)
    /\ since' = [f \in Files |-> IF since[f] = {} THEN {} ELSE since[f] \cup {new[f]}]

DiskChanges ==                   \* external: editors, shells, git
    /\ \E f \in Files :
         \/ Change([disk EXCEPT ![f] = changes + 1], Touch(f))
         \/ disk[f] # 0 /\ Change([disk EXCEPT ![f] = 0], Removed(f))
         \/ \E g \in Files \ {f} :
              disk[f] # 0 /\ Change([disk EXCEPT ![f] = 0, ![g] = changes + 1], Rename(f, g))
    /\ UNCHANGED <<pend, queue, worker, manager, events, dirty, rebuild, cache, thread, left, shadowed>>

(* Mutant: the first event of a key stays.                                 *)
PushUnlessThere ==
    LET e == Head(os)
        same == {i \in DOMAIN pend : Key(pend[i]) = Key(e)}
    IN  /\ os # <<>> /\ os' = Tail(os)
        /\ pend' = IF same = {} THEN Append(pend, e) ELSE pend
        /\ shadowed' = shadowed \ {e.file, e.to}
        /\ UNCHANGED <<disk, changes, queue, worker, manager, events, dirty, rebuild, cache, thread, left, since>>

(* A later event takes the place of an earlier one with its key.           *)
Push ==
    LET e == Head(os)
        same == {i \in DOMAIN pend : Key(pend[i]) = Key(e)}
        hidden == \E i \in same : \E j \in DOMAIN pend :
                      j > i /\ pend[j].kind # "touch" /\ pend[j].file = e.to
    IN  /\ os # <<>> /\ os' = Tail(os)
        /\ pend' = IF same = {} THEN Append(pend, e)
                   ELSE [i \in DOMAIN pend |-> IF i \in same THEN e ELSE pend[i]]
        /\ shadowed' = IF e.kind # "remove" /\ hidden THEN shadowed \cup {e.to}
                       ELSE shadowed \ {e.file, e.to}
        /\ UNCHANGED <<disk, changes, queue, worker, manager, events, dirty, rebuild, cache, thread, left, since>>

Enqueue(cmd, es) == queue' = Append(queue, [cmd |-> cmd, events |-> es])

Fire ==                          \* the timer, or stop's flush
    /\ pend # <<>> /\ pend' = <<>> /\ Enqueue("events", pend)
    /\ UNCHANGED <<disk, changes, os, worker, manager, events, dirty, rebuild, cache, thread, left, since, shadowed>>

-----------------------------------------------------------------------------
(* A thread of the session *)

ToolWrites(f) ==
    /\ thread = "idle" /\ Change([disk EXCEPT ![f] = changes + 1], Touch(f)) /\ thread' = f
    /\ UNCHANGED <<pend, queue, worker, manager, events, dirty, rebuild, cache, left, shadowed>>

(* record_mutation.  From here on a query answers with what is there now,  *)
(* or comes later; unless a removal of the file is still on its way.       *)
MarkDirty ==
    /\ thread \in Files /\ Enqueue("events", <<Touch(thread)>>) /\ thread' = "idle"
    /\ since' = [since EXCEPT ![thread] =
                   IF \E e \in ToSet(os \o pend) : e.kind # "touch" /\ e.file = thread THEN {} ELSE {disk[thread]}]
    /\ UNCHANGED <<disk, changes, os, pend, worker, manager, events, dirty, rebuild, cache, left, shadowed>>

Ask(cmd) ==                      \* a query of the navigator, or a reindex, or mark_dirty()
    /\ thread = "idle" /\ left.queries > 0 /\ Spare /\ left' = [left EXCEPT !.queries = @ - 1]
    /\ Enqueue(cmd, <<>>) /\ thread' = IF cmd = "request" THEN thread ELSE cmd
    /\ UNCHANGED <<disk, changes, os, pend, worker, manager, events, dirty, rebuild, cache, since, shadowed>>

ReadFence ==                     \* Navigator._read_index: before_read
    /\ thread = "answered" /\ Enqueue("fence", <<>>) /\ thread' = "fence"
    /\ UNCHANGED <<disk, changes, os, pend, worker, manager, events, dirty, rebuild, cache, left, since, shadowed>>

Read ==
    /\ thread = "reading" /\ thread' = "idle"
    /\ UNCHANGED <<disk, changes, os, pend, queue, worker, manager, events, dirty, rebuild, cache, left, since, shadowed>>

-----------------------------------------------------------------------------
(* The worker *)

CacheThere == cache # None       \* mutant: any cache will do
CacheFresh ==                    \* a cache of no file is not trusted
    /\ cache # None /\ \E f \in Files : cache[f].meta # 0
    /\ \A f \in Files : cache[f].meta = disk[f]
Everything == SetToSeq({Touch(f) : f \in {g \in Files : disk[g] # 0}})   \* _collect_files
Work(cmd, todo, index, replay) ==
    worker' = [cmd |-> cmd, todo |-> todo, index |-> index, read |-> <<>>, replay |-> replay]

(* A build is the indexing of the files that are there into an empty index. *)
Take ==
    LET c == Head(queue) IN
    /\ worker = Idle /\ queue # <<>> /\ queue' = Tail(queue)
    /\ \/ /\ c.cmd = "events" /\ manager = None
          /\ events' = events \o c.events /\ dirty' = TRUE
          /\ UNCHANGED <<worker, rebuild, cache, thread>>
       \/ /\ c.cmd = "events" /\ manager # None
          /\ Work("events", c.events, manager, FALSE)
          /\ UNCHANGED <<events, dirty, rebuild, cache, thread>>
       \/ /\ c.cmd = "ensure" /\ manager # None /\ ~rebuild
          /\ thread' = "answered" /\ UNCHANGED <<worker, events, dirty, rebuild, cache>>
       \/ /\ c.cmd = "ensure" /\ manager = None /\ CacheFresh
          /\ Work("load", <<>>, cache, TRUE) /\ UNCHANGED <<events, dirty, rebuild, cache, thread>>
       \/ /\ c.cmd = "ensure" /\ (rebuild \/ manager = None) /\ ~(manager = None /\ CacheFresh)
          /\ Work("ensure", Everything, Nothing, TRUE) /\ UNCHANGED <<events, dirty, rebuild, cache, thread>>
       \/ /\ c.cmd = "rebuild"
          /\ Work("rebuild", Everything, Nothing, TRUE) /\ UNCHANGED <<events, dirty, rebuild, cache, thread>>
       \/ /\ c.cmd = "request" /\ rebuild' = TRUE /\ dirty' = TRUE
          /\ UNCHANGED <<worker, events, cache, thread>>
       \/ /\ c.cmd = "persist" /\ thread' = "idle"
          /\ IF manager # None /\ dirty THEN cache' = manager /\ dirty' = FALSE ELSE UNCHANGED <<cache, dirty>>
          /\ UNCHANGED <<worker, events, rebuild>>
       \/ /\ c.cmd = "fence" /\ thread' = "reading" /\ UNCHANGED <<worker, events, dirty, rebuild, cache>>
    /\ UNCHANGED <<disk, changes, os, pend, manager, left, since, shadowed>>

InPlace(index) == IF worker.cmd = "events" THEN manager' = index ELSE UNCHANGED manager
Step(index, todo, read) ==
    /\ worker' = [worker EXCEPT !.index = index, !.todo = todo, !.read = read]
    /\ InPlace(index)
    /\ UNCHANGED <<disk, changes, os, pend, queue, events, dirty, rebuild, cache, thread, left, since, shadowed>>

ApplyRemoval ==                  \* a rename removes one file and indexes another
    /\ worker.todo # <<>>
    /\ LET e == Head(worker.todo) IN
       /\ e.kind # "touch"
       /\ Step([worker.index EXCEPT ![e.file] = [text |-> 0, meta |-> 0]],
               IF e.kind = "rename" THEN <<Touch(e.to)>> \o Tail(worker.todo) ELSE Tail(worker.todo), <<>>)

ReadFile ==
    /\ worker.todo # <<>> /\ Head(worker.todo).kind = "touch" /\ worker.read = <<>>
    /\ Step(worker.index, worker.todo, <<disk[Head(worker.todo).file]>>)

(* The entry is swapped in after the extraction, with a stat made then; a  *)
(* file that is gone at the stat is as good as not indexed.                *)
StatFile ==
    /\ worker.read # <<>>
    /\ LET f == Head(worker.todo).file
           text == Head(worker.read)
       IN Step([worker.index EXCEPT ![f] = IF text = 0 THEN [text |-> 0, meta |-> 0]
                                           ELSE [text |-> text, meta |-> disk[f]]],
               Tail(worker.todo), <<>>)

Replay ==                        \* what came before the index was there
    /\ worker.replay /\ worker.todo = <<>>
    /\ worker' = [worker EXCEPT !.todo = events, !.replay = FALSE,
                                !.cmd = IF @ = "load" /\ events # <<>> THEN "ensure" ELSE @]
    /\ events' = <<>>
    /\ UNCHANGED <<disk, changes, os, pend, queue, manager, dirty, rebuild, cache, thread, left, since, shadowed>>

(* Mutant: events that were applied do not make the index dirty.           *)
FinishClean ==
    /\ worker # Idle /\ worker.todo = <<>> /\ ~worker.replay /\ worker' = Idle
    /\ manager' = worker.index /\ dirty' = (worker.cmd = "rebuild")
    /\ rebuild' = (worker.cmd = "events" /\ rebuild)
    /\ cache' = IF worker.cmd = "ensure" THEN worker.index ELSE cache
    /\ thread' = CASE worker.cmd = "events" -> thread [] worker.cmd = "rebuild" -> "persist" [] OTHER -> "answered"
    /\ queue' = IF worker.cmd = "rebuild" THEN Append(queue, [cmd |-> "persist", events |-> <<>>]) ELSE queue
    /\ UNCHANGED <<disk, changes, os, pend, events, left, since, shadowed>>

(* A query's build is saved at once; a rebuild is saved by its caller.     *)
Finish ==
    /\ worker # Idle /\ worker.todo = <<>> /\ ~worker.replay /\ worker' = Idle
    /\ manager' = worker.index
    /\ CASE worker.cmd = "events" -> dirty' = TRUE /\ UNCHANGED <<rebuild, cache, thread, queue>>
         [] worker.cmd = "load" ->
              dirty' = FALSE /\ rebuild' = FALSE /\ thread' = "answered" /\ UNCHANGED <<cache, queue>>
         [] worker.cmd = "ensure" ->
              /\ dirty' = FALSE /\ rebuild' = FALSE /\ cache' = worker.index
              /\ thread' = "answered" /\ UNCHANGED queue
         [] worker.cmd = "rebuild" ->
              /\ dirty' = TRUE /\ rebuild' = FALSE
              /\ Enqueue("persist", <<>>) /\ thread' = "persist" /\ UNCHANGED cache
    /\ UNCHANGED <<disk, changes, os, pend, events, left, since, shadowed>>

-----------------------------------------------------------------------------
(* A new process finds the disk and the cache.  It promises nothing of a   *)
(* file whose content and stat in the cache are not of one version.        *)
ProcessDies ==
    /\ left.crashes > 0 /\ Spare /\ left' = [left EXCEPT !.crashes = @ - 1]
    /\ os' = <<>> /\ pend' = <<>> /\ queue' = <<>> /\ worker' = Idle
    /\ manager' = None /\ events' = <<>> /\ dirty' = FALSE /\ rebuild' = FALSE
    /\ thread' = "idle"
    /\ LET torn == {f \in Files : cache # None /\ cache[f].text # cache[f].meta}
       IN since' = [f \in Files |-> IF f \in torn THEN {} ELSE {disk[f]}]
    /\ shadowed' = {f \in Files : cache # None /\ cache[f].text # cache[f].meta}
    /\ UNCHANGED <<disk, changes, cache>>

WorkerStep == Take \/ ApplyRemoval \/ ReadFile \/ StatFile \/ Replay \/ Finish
GraphNext ==
    \/ DiskChanges \/ Push \/ Fire
    \/ \E f \in Files : ToolWrites(f)
    \/ MarkDirty \/ \E cmd \in {"ensure", "rebuild", "request"} : Ask(cmd)
    \/ ReadFence \/ Read
    \/ WorkerStep \/ ProcessDies
GraphSpec == GraphInit /\ [][GraphNext]_graph

-----------------------------------------------------------------------------
(* A query finds what the session itself wrote before, or what replaced    *)
(* that since: through builds, loads from the cache, replays and crashes.  *)
ReadsItsWrites ==
    thread = "reading" => \A f \in Files : since[f] # {} => manager[f].text \in since[f]

(* Once every notification has been handled the index is what is on disk,  *)
(* in whatever order the two reports of a change came.                     *)
CatchesUp ==
    os \o pend \o queue \o events = <<>> /\ worker = Idle /\ manager # None /\ thread = "idle" /\ ~rebuild
    => \A f \in Files \ shadowed : manager[f].text = disk[f]

(* An index that is not dirty is in the cache.                             *)
CleanIsSaved == manager # None /\ worker = Idle /\ ~dirty => cache = manager

IndexIsRight == ReadsItsWrites /\ CatchesUp /\ CleanIsSaved
=============================================================================
