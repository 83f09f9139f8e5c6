----------------------------- MODULE GraphRuntime -----------------------------
(***************************************************************************)
(* Who owns the code graph of a workspace (src/src/codedoggy/graph/        *)
(* runtime.py, handle.py, watcher.py).                                     *)
(*                                                                         *)
(* Sessions of one process share a runtime through leases, and those that  *)
(* watch share its observer through a second kind of lease.  The last      *)
(* lease closes the runtime in the thread that releases it; a session that *)
(* comes meanwhile finds or creates the next generation.                   *)
(***************************************************************************)
EXTENDS Naturals, Sequences, FiniteSets, SequencesExt

CONSTANTS Sessions, Nobody,
          Generations, Commands, Notices     \* bounds: runtimes, commands and OS notices

ASSUME GraphRuntimeAssumption ==
    Nobody \notin Sessions /\ {Generations, Commands, Notices} \subseteq Nat

Gens == 1 .. Generations
Holding == {"open", "asking", "closing", "unwatch", "flush", "unwatched", "saving", "release"}

VARIABLES
    registry,   \* the generation CodebaseIndexManager has for the root, 0 for none
    life,       \* per generation: _closing and _closed
    leases,     \* per generation: _handle_leases
    watchers,   \* per generation: _watch_leases
    observer,   \* per generation: its WorkspaceWatcher
    watchLock,  \* per generation: who holds _watch_lock
    heard,      \* per generation: notices in the debouncer
    popped,     \* per generation: notices the timer took and has not delivered
    cmds,       \* per generation: the executor's queue, each command by its waiter
    sess,       \* per session: where it is, and in which runtime
    spent       \* bounds: commands and notices so far

runtimes == <<registry, life, leases, watchers, observer, watchLock, heard, popped, cmds, sess, spent>>

RuntimeInit ==
    /\ registry = 0 /\ life = [g \in Gens |-> "unborn"]
    /\ leases = [g \in Gens |-> {}] /\ watchers = [g \in Gens |-> {}]
    /\ observer = [g \in Gens |-> "off"] /\ watchLock = [g \in Gens |-> Nobody]
    /\ heard = [g \in Gens |-> 0] /\ popped = [g \in Gens |-> 0]
    /\ cmds = [g \in Gens |-> <<>>]
    /\ sess = [s \in Sessions |-> [at |-> "out", rt |-> 0, retried |-> FALSE]]
    /\ spent = [commands |-> 0, notices |-> 0]

Goes(s, where) == sess' = [sess EXCEPT ![s].at = where]
Queued(g, waiter) == cmds' = [cmds EXCEPT ![g] = Append(@, waiter)]

-----------------------------------------------------------------------------
(* CodebaseGraph.__init__: two steps, and one more try *)

GetOrCreate(s) ==
    /\ sess[s].at = "out"
    /\ IF registry # 0 /\ life[registry] = "open"
       THEN /\ sess' = [sess EXCEPT ![s].at = "found", ![s].rt = registry]
            /\ UNCHANGED <<registry, life>>
       ELSE /\ registry < Generations
            /\ registry' = registry + 1 /\ life' = [life EXCEPT ![registry + 1] = "open"]
            /\ sess' = [sess EXCEPT ![s].at = "found", ![s].rt = registry + 1]
    /\ UNCHANGED <<leases, watchers, observer, watchLock, heard, popped, cmds, spent>>

(* Mutant: a lease is granted whether or not the runtime is closing.       *)
AcquireUnchecked(s) ==
    /\ sess[s].at = "found"
    /\ leases' = [leases EXCEPT ![sess[s].rt] = @ \cup {s}] /\ Goes(s, "open")
    /\ UNCHANGED <<registry, life, watchers, observer, watchLock, heard, popped, cmds, spent>>

AcquireHandle(s) ==
    /\ sess[s].at = "found" /\ life[sess[s].rt] = "open"
    /\ leases' = [leases EXCEPT ![sess[s].rt] = @ \cup {s}] /\ Goes(s, "open")
    /\ UNCHANGED <<registry, life, watchers, observer, watchLock, heard, popped, cmds, spent>>

AcquireRaises(s) ==              \* the second time the constructor raises
    /\ sess[s].at = "found" /\ life[sess[s].rt] # "open"
    /\ sess' = [sess EXCEPT ![s] = [at |-> IF @.retried THEN "failed" ELSE "out",
                                    rt |-> 0, retried |-> TRUE]]
    /\ UNCHANGED <<registry, life, leases, watchers, observer, watchLock, heard, popped, cmds, spent>>

-----------------------------------------------------------------------------
(* A session that is open *)

(* A command that is not waited for (mark_dirty), or that is (a query).    *)
SubmitCommand(s) ==
    /\ sess[s].at = "open" /\ spent.commands < Commands
    /\ life[sess[s].rt] = "open"
    /\ spent' = [spent EXCEPT !.commands = @ + 1]
    /\ \/ Queued(sess[s].rt, Nobody) /\ UNCHANGED sess
       \/ Queued(sess[s].rt, s) /\ Goes(s, "asking")
    /\ UNCHANGED <<registry, life, leases, watchers, observer, watchLock, heard, popped>>

(* Mutant: an observer may be asked for while the last one is stopping.    *)
AcquireWatchAtOnce(s) ==
    LET g == sess[s].rt IN
    /\ sess[s].at = "open" /\ s \notin watchers[g]
    /\ observer' = [observer EXCEPT ![g] = "on"]
    /\ watchers' = [watchers EXCEPT ![g] = @ \cup {s}]
    /\ UNCHANGED <<registry, life, leases, watchLock, heard, popped, cmds, sess, spent>>

AcquireWatch(s) ==
    LET g == sess[s].rt IN
    /\ sess[s].at = "open" /\ watchLock[g] = Nobody /\ s \notin watchers[g]
    /\ observer' = [observer EXCEPT ![g] = "on"]
    /\ watchers' = [watchers EXCEPT ![g] = @ \cup {s}]
    /\ UNCHANGED <<registry, life, leases, watchLock, heard, popped, cmds, sess, spent>>

(* close persists, and waits for that; a session that is only dropped is   *)
(* released by its finalizer, which does not.                              *)
CloseBegins(s) ==
    /\ sess[s].at = "open"
    /\ \/ Queued(sess[s].rt, s) /\ Goes(s, "closing")
       \/ Goes(s, "unwatch") /\ UNCHANGED cmds
    /\ UNCHANGED <<registry, life, leases, watchers, observer, watchLock, heard, popped, spent>>

(* The last watch lease takes the observer down under _watch_lock.         *)
ReleaseWatch(s) ==
    LET g == sess[s].rt
        last == watchers[g] = {s}
    IN  /\ sess[s].at = "unwatch" /\ watchLock[g] = Nobody
        /\ watchers' = [watchers EXCEPT ![g] = @ \ {s}]
        /\ Goes(s, IF last THEN "flush" ELSE IF s \in watchers[g] THEN "unwatched" ELSE "release")
        /\ watchLock' = IF last THEN [watchLock EXCEPT ![g] = s] ELSE watchLock
        /\ observer' = IF last THEN [observer EXCEPT ![g] = "stopping"] ELSE observer
        /\ UNCHANGED <<registry, life, leases, heard, popped, cmds, spent>>

StopFlushes(s) ==                \* WorkspaceWatcher.stop; then the lock is let go
    LET g == sess[s].rt IN
    /\ sess[s].at = "flush" /\ Goes(s, "unwatched")
    /\ observer' = [observer EXCEPT ![g] = "off"]
    /\ watchLock' = [watchLock EXCEPT ![g] = Nobody]
    /\ heard' = [heard EXCEPT ![g] = 0]
    /\ IF heard[g] > 0 THEN Queued(g, Nobody) ELSE UNCHANGED cmds
    /\ UNCHANGED <<registry, life, leases, watchers, popped, spent>>

PersistAgain(s) ==               \* saves what stop flushed; a finalizer does not
    /\ sess[s].at = "unwatched"
    /\ \/ Queued(sess[s].rt, s) /\ Goes(s, "saving")
       \/ Goes(s, "release") /\ UNCHANGED cmds
    /\ UNCHANGED <<registry, life, leases, watchers, observer, watchLock, heard, popped, spent>>

(* Removing the last lease and closing the gate are one step.              *)
ReleaseHandle(s) ==
    LET g == sess[s].rt IN
    /\ sess[s].at = "release"
    /\ leases' = [leases EXCEPT ![g] = @ \ {s}]
    /\ IF leases'[g] = {}
       THEN life' = [life EXCEPT ![g] = "closing"] /\ Goes(s, "shutdown")
       ELSE Goes(s, "gone") /\ UNCHANGED life
    /\ UNCHANGED <<registry, watchers, observer, watchLock, heard, popped, cmds, spent>>

(* _finish_shutdown: its fence passes the closed gate, as the last command. *)
Fence(s) ==
    LET g == sess[s].rt IN
    /\ sess[s].at = "shutdown" /\ watchLock[g] = Nobody
    /\ observer' = [observer EXCEPT ![g] = "off"] /\ watchers' = [watchers EXCEPT ![g] = {}]
    /\ heard' = [heard EXCEPT ![g] = 0]
    /\ Queued(g, s) /\ Goes(s, "fencing")
    /\ UNCHANGED <<registry, life, leases, watchLock, popped, spent>>

ShutsDown(s) ==                  \* what is queued behind the fence is cancelled
    LET g == sess[s].rt IN
    /\ sess[s].at = "fenced" /\ Goes(s, "gone")
    /\ life' = [life EXCEPT ![g] = "closed"]
    /\ UNCHANGED <<registry, leases, watchers, observer, watchLock, heard, popped, cmds, spent>>

NextSession(s) ==                \* external: another session on the same root
    /\ sess[s].at = "gone"
    /\ sess' = [sess EXCEPT ![s] = [at |-> "out", rt |-> 0, retried |-> FALSE]]
    /\ UNCHANGED <<registry, life, leases, watchers, observer, watchLock, heard, popped, cmds, spent>>

-----------------------------------------------------------------------------
(* The worker, the observer and the timer *)

(* A command that makes an index needs _watch_lock for a moment.           *)
Executes(g) ==
    LET w == Head(cmds[g]) IN
    /\ cmds[g] # <<>> /\ watchLock[g] = Nobody /\ cmds' = [cmds EXCEPT ![g] = Tail(@)]
    /\ IF w = Nobody THEN UNCHANGED sess
       ELSE Goes(w, CASE sess[w].at = "asking" -> "open" [] sess[w].at = "closing" -> "unwatch"
                      [] sess[w].at = "saving" -> "release" [] sess[w].at = "fencing" -> "fenced")
    /\ UNCHANGED <<registry, life, leases, watchers, observer, watchLock, heard, popped, spent>>

Notice(g) ==                     \* external: a file of the workspace changes
    /\ observer[g] # "off" /\ spent.notices < Notices
    /\ spent' = [spent EXCEPT !.notices = @ + 1]
    /\ heard' = [heard EXCEPT ![g] = @ + 1]
    /\ UNCHANGED <<registry, life, leases, watchers, observer, watchLock, popped, cmds, sess>>

(* The timer takes the batch under the debouncer's lock and delivers it    *)
(* after; a runtime that closed in between refuses it.                     *)
TimerPops(g) ==
    /\ heard[g] > 0 /\ popped[g] = 0
    /\ popped' = [popped EXCEPT ![g] = heard[g]] /\ heard' = [heard EXCEPT ![g] = 0]
    /\ UNCHANGED <<registry, life, leases, watchers, observer, watchLock, cmds, sess, spent>>

TimerDelivers(g) ==
    /\ popped[g] > 0 /\ popped' = [popped EXCEPT ![g] = 0]
    /\ IF life[g] = "open" THEN Queued(g, Nobody) ELSE UNCHANGED cmds
    /\ UNCHANGED <<registry, life, leases, watchers, observer, watchLock, heard, sess, spent>>

RuntimeNext ==
    \/ \E s \in Sessions :
         \/ GetOrCreate(s) \/ AcquireHandle(s) \/ AcquireRaises(s)
         \/ SubmitCommand(s) \/ AcquireWatch(s) \/ CloseBegins(s) \/ ReleaseWatch(s)
         \/ StopFlushes(s) \/ PersistAgain(s) \/ ReleaseHandle(s) \/ Fence(s) \/ ShutsDown(s)
         \/ NextSession(s)
    \/ \E g \in Gens : Executes(g) \/ Notice(g) \/ TimerPops(g) \/ TimerDelivers(g)
RuntimeSpec == RuntimeInit /\ [][RuntimeNext]_runtimes

-----------------------------------------------------------------------------
(* A session that holds a lease is never told that its runtime is closed.  *)
LeaseKeepsOpen ==
    \A s \in Sessions : sess[s].at \in Holding => /\ life[sess[s].rt] = "open"
                                                 /\ s \in leases[sess[s].rt]

(* One runtime of a root accepts commands and one observes the root at a   *)
(* time; who watches is observed; and a runtime that is open has a session *)
(* or one about to take a lease: no executor runs on for nobody.           *)
OneActor ==
    /\ \A g, h \in Gens : life[g] = "open" /\ life[h] = "open" => g = h
    /\ \A g, h \in Gens : observer[g] # "off" /\ observer[h] # "off" => g = h
    /\ \A g \in Gens : watchers[g] # {} => observer[g] = "on"
    /\ \A g \in Gens : life[g] = "open" =>
          leases[g] # {} \/ \E s \in Sessions : sess[s].at = "found" /\ sess[s].rt = g

(* What the gate admitted is executed: nothing is left in the queue of a   *)
(* runtime that has shut down, and nobody waits for an answer from it.     *)
AdmittedIsDone ==
    \A g \in Gens : life[g] = "closed" => cmds[g] = <<>> /\ observer[g] = "off" /\ watchers[g] = {}

RuntimeIsShared == LeaseKeepsOpen /\ OneActor /\ AdmittedIsDone
=============================================================================
