-------------------------- MODULE CoordinatorProofs --------------------------
(***************************************************************************)
(* Proofs about SubagentCoordinator, for any number of children, callers,  *)
(* workers and resumes, and any nesting limit.                             *)
(*                                                                         *)
(* The three invariants of the coordinator's runs follow from CoordInv,    *)
(* which is inductive: TypeInv by itself, RunInv over it, and ShutInv over *)
(* both.                                                                   *)
(***************************************************************************)
EXTENDS SubagentCoordinator, TLAPS

(* Whoever is inside a call knows the run it is about.                     *)
CallsAreRuns == \A a \in Actors : pc[a] # "idle" => call[a] \in Runs

(* A run that calls is at work: it does not return in the middle of a call *)
(* of its own.                                                             *)
CallersWork == \A a \in Runs \ Callers : pc[a] # "idle" => job[a] = "working"

(* A run nobody has handed to the pool yet has no job, and one actor at    *)
(* most is about to hand it over.                                          *)
Submitting(r) == \E a \in Actors : pc[a] = "submit" /\ call[a] = r
SubmittersOwn ==
    \A a \in Actors : pc[a] = "submit" =>
        /\ call[a] = Latest(call[a][1])
        /\ job[call[a]] = "none"
        /\ \A b \in Actors : pc[b] = "submit" /\ call[b] = call[a] => b = a

(* The runs to come are untouched.                                         *)
LaterRunsAreFresh ==
    /\ \A r \in Runs : r[2] > latest[r[1]] => job[r] = "none"
    /\ \A c \in Children : status[c] = "none" => latest[c] = 0 /\ job[<<c, 0>>] = "none"

(* A child whose latest run is on its way to an end is active in the entry *)
(* or was cancelled, and then its Event is set.                            *)
UnderWay(c) == Unfinished(Latest(c)) \/ Submitting(Latest(c))
EntriesShowRuns ==
    \A c \in Children : UnderWay(c) =>
        status[c] \in Active \/ (status[c] = "cancelled" /\ Latest(c) \in fired)

(* A run that returned left a result.                                      *)
ReturnsHaveOutcomes == \A r \in Runs : job[r] = "left" => outcome[r] \in Results

(* Nothing of a completed child is under way, and a running one is at work. *)
EntriesAreTrue ==
    \A c \in Children :
        /\ status[c] = "completed" => job[Latest(c)] \in {"stored", "done"}
        /\ status[c] = "running" => job[Latest(c)] \in {"working", "left"}

(* A pending child is in somebody's hands.                                 *)
PendingIsOwned ==
    \A c \in Children : status[c] = "pending" =>
        \/ job[Latest(c)] \in {"queued", "picked"}
        \/ job[Latest(c)] = "none" /\ Submitting(Latest(c))
        \/ poolDown

(* The Event of an entry is that of its latest run, and is set by those    *)
(* who mean that run.                                                      *)
EventsMeanRuns ==
    /\ \A c \in Children : token[c] = Latest(c)
    /\ fired = cancelled

(* The callers of the main turn are gone when shutdown begins, the pool    *)
(* goes down after the signals, and what it dropped stays dropped.         *)
ShutdownStages ==
    /\ shut # "open" => \A k \in Callers : pc[k] = "idle"
    /\ poolDown <=> shut \in {"joining", "joined", "gave_up"}
    /\ poolDown => \A r \in Runs : job[r] # "queued"

(* Once there is a job, some future is or is about to be in an entry; so   *)
(* a shutdown that found no future to wait for found no job either.        *)
FuturesShowJobs ==
    /\ (\E r \in Runs : job[r] # "none") =>
          \/ \E c \in Children : future[c] # NoFuture
          \/ \E k \in Callers : pc[k] = "assign"
    /\ shut # "open" /\ awaited = {} => \A r \in Runs : job[r] = "none"

(* The signals reach what the main session dispatched.                     *)
SignalsReach ==
    shut # "open" => \A c \in Children :
        parent[c] = Main /\ UnderWay(c) => Latest(c) \in fired

TypeInv == TypeOK /\ CallsAreRuns
RunInv == /\ CallersWork /\ SubmittersOwn /\ LaterRunsAreFresh
          /\ OneRunPerChild /\ ReturnsHaveOutcomes /\ EntriesAreTrue
          /\ EntriesShowRuns /\ PendingIsOwned /\ EventsMeanRuns
ShutInv == ShutdownStages /\ FuturesShowJobs /\ SignalsReach /\ JoinedMeansIdle
CoordInv == TypeInv /\ RunInv /\ ShutInv

USE CoordinatorAssumption
USE DEF entries, pool, closing, calls, history

-----------------------------------------------------------------------------
(* Operators *)

(* Who calls, and for whom, is typed.                                      *)
LEMMA CallerTypes ==
    ASSUME TypeOK, NEW a \in Actors
    PROVE  /\ a \in Callers \/ (a \in Runs /\ a[1] \in Children)
           /\ Home(a) \in Children \cup {Main}
           /\ DepthOf(a) \in 0 .. MaxDepth
BY DEF TypeOK, Actors, Runs, Home, DepthOf

(* The latest run of a child is a run of that child.                       *)
LEMMA LatestIsRun ==
    ASSUME TypeOK, NEW c \in Children
    PROVE  Latest(c) \in Runs /\ Latest(c)[1] = c /\ Latest(c)[2] = latest[c]
BY DEF TypeOK, Runs, Latest

-----------------------------------------------------------------------------
(* Types *)

(* Every variable keeps its type, and whoever is in a call knows its run.   *)
THEOREM TypesHold == Spec => []TypeInv
<1>1. Init => TypeInv
  <2> SUFFICES ASSUME Init PROVE TypeInv
    OBVIOUS
  <2>1. token \in [Children -> Runs] /\ future \in [Children -> 0 .. NoFuture]
    BY DEF Init, Runs, NoFuture
  <2>2. /\ latest \in [Children -> 0 .. MaxResumes]
        /\ depth \in [Children -> 0 .. MaxDepth]
    BY DEF Init
  <2>3. TypeOK
    BY <2>1, <2>2 DEF Init, TypeOK, Places, JobStates, Labels
  <2>4. QED BY <2>3 DEF Init, TypeInv, CallsAreRuns
<1>2. TypeInv /\ [Next]_vars => TypeInv'
  <2> SUFFICES ASSUME TypeOK, CallsAreRuns, [Next]_vars PROVE TypeInv'
    BY DEF TypeInv
  <2> USE DEF TypeInv, TypeOK, CallsAreRuns
  <2>1. ASSUME NEW a \in Actors, NEW c \in Children, Spawn(a, c) PROVE TypeInv'
    BY <2>1, CallerTypes DEF Spawn, MayCall, GoSubmit, Active, Labels, Runs
  <2>2. ASSUME NEW a \in Actors, NEW c \in Children, SpawnUnknown(a, c) PROVE TypeInv'
    BY <2>2, CallerTypes DEF SpawnUnknown, MayCall, Results
  <2>3. ASSUME NEW a \in Actors, NEW c \in Children, Resume(a, c) PROVE TypeInv'
    BY <2>3, CallerTypes DEF Resume, MayCall, GoSubmit, NewEvent, Active, Labels, Runs, Places
  <2>4. ASSUME NEW a \in Actors, NEW c \in Children, Wait(a, c) PROVE TypeInv'
    BY <2>4, CallerTypes DEF Wait, MayCall, Runs, NoFuture, Labels
  <2>5. ASSUME NEW a \in Actors, Submit(a) PROVE TypeInv'
    <3>1. call[a] \in Runs /\ call[a][1] \in Children
      BY <2>5 DEF Submit, Runs
    <3>2. CASE poolDown
      BY <2>5, <3>1, <3>2 DEF Submit, Return, Labels
    <3>3. CASE ~poolDown
      BY <2>5, <3>1, <3>3 DEF Submit, JobStates, Labels
    <3>4. QED BY <3>2, <3>3
  <2>6. ASSUME NEW a \in Actors, Assign(a) PROVE TypeInv'
    <3>1. call[a] \in Runs /\ call[a][1] \in Children /\ call[a][2] \in 0 .. NoFuture
      BY <2>6 DEF Assign, Runs, NoFuture
    <3>2. future' \in [Children -> 0 .. NoFuture]
      BY <2>6, <3>1 DEF Assign
    <3>3. CASE Return(a)
      BY <2>6, <3>1, <3>2, <3>3 DEF Assign, Return, Labels
    <3>4. CASE pc' = [pc EXCEPT ![a] = "block"] /\ UNCHANGED <<call, known>>
      BY <2>6, <3>1, <3>2, <3>4 DEF Assign, Labels
    <3>5. QED BY <2>6, <3>3, <3>4 DEF Assign
  <2>7. ASSUME NEW a \in Actors, Unblock(a) PROVE TypeInv'
    BY <2>7, CallerTypes DEF Unblock, Return, Labels, Runs
  <2>8. ASSUME NEW a \in Actors, WaitAnswered(a) PROVE TypeInv'
    BY <2>8, CallerTypes DEF WaitAnswered, Return, Labels, Runs
  <2>9. ASSUME NEW a \in Actors, WaitTimesOut(a) PROVE TypeInv'
    BY <2>9, CallerTypes DEF WaitTimesOut, Return, Labels, Runs
  <2>10. ASSUME NEW r \in Runs, Pick(r) PROVE TypeInv'
    BY <2>10, CallerTypes DEF Pick, SetJob, JobStates
  <2>11. ASSUME NEW r \in Runs, BeginRun(r) PROVE TypeInv'
    BY <2>11, CallerTypes DEF BeginRun, SetJob, JobStates, Active, Runs
  <2>12. ASSUME NEW r \in Runs, RunReturns(r) PROVE TypeInv'
    BY <2>12, CallerTypes DEF RunReturns, SetJob, JobStates, Results
  <2>13. ASSUME NEW r \in Runs, StoreResult(r) PROVE TypeInv'
    BY <2>13, CallerTypes DEF StoreResult, SetJob, StoredStatus, JobStates, Runs
  <2>14. ASSUME NEW r \in Runs, FinishJob(r) PROVE TypeInv'
    BY <2>14, CallerTypes DEF FinishJob, SetJob, JobStates
  <2>15. ASSUME NEW c \in Children, Cancel(c) PROVE TypeInv'
    BY <2>15, CallerTypes DEF Cancel, Latest, Results, Runs
  <2>16. ASSUME ShutdownSignals PROVE TypeInv'
    <3>1. \A c \in Children : Latest(c) \in Runs
      BY LatestIsRun
    <3>2. fired' \subseteq Runs /\ cancelled' \subseteq Runs
      BY <2>16, <3>1 DEF ShutdownSignals
    <3>3. awaited' \subseteq Runs
      <4>1. ASSUME NEW c \in Children, future[c] # NoFuture
            PROVE  <<c, future[c]>> \in Runs
        <5>1. future[c] \in 0 .. MaxResumes
          BY <4>1 DEF NoFuture
        <5>2. QED BY <5>1 DEF Runs
      <4>2. QED BY <2>16, <4>1 DEF ShutdownSignals, Awaited
    <3>4. QED BY <2>16, <3>2, <3>3 DEF ShutdownSignals
  <2>17. ASSUME ShutdownPool PROVE TypeInv'
    BY <2>17, CallerTypes DEF ShutdownPool, JobStates
  <2>18. ASSUME ShutdownJoins PROVE TypeInv'
    BY <2>18, CallerTypes DEF ShutdownJoins
  <2>19. ASSUME ShutdownGivesUp PROVE TypeInv'
    BY <2>19, CallerTypes DEF ShutdownGivesUp
  <2>20. CASE UNCHANGED vars
    BY <2>20 DEF vars
  <2>21. QED
    BY <2>1, <2>2, <2>3, <2>4, <2>5, <2>6, <2>7, <2>8, <2>9, <2>10, <2>11, <2>12, <2>13, <2>14, <2>15, <2>16, <2>17, <2>18, <2>19, <2>20 DEF Next, CallStep, PoolStep
<1>3. QED BY <1>1, <1>2, PTL DEF Spec

-----------------------------------------------------------------------------
(* Runs *)

(* No step makes two runs of a child, or an entry that lies about its run:  *)
(* a resume finds a completed child, whose latest run is over and which     *)
(* nobody is submitting.                                                    *)
LEMMA RunsStep == ASSUME TypeInv, TypeInv', RunInv, [Next]_vars PROVE RunInv'
<1> USE DEF TypeInv, TypeOK, CallsAreRuns, RunInv, Actors, Runs, Latest, Active,
        CallersWork, SubmittersOwn, LaterRunsAreFresh, OneRunPerChild, Unfinished
<1>1. ASSUME NEW a \in Actors, NEW c \in Children, Spawn(a, c) PROVE RunInv'
  <2>1. CallersWork'
    BY <1>1 DEF Spawn, MayCall, GoSubmit
  <2>2. SubmittersOwn'
    BY <1>1 DEF Spawn, MayCall, GoSubmit, EntriesShowRuns, UnderWay, Submitting
  <2>3. LaterRunsAreFresh'
    BY <1>1 DEF Spawn, MayCall, GoSubmit
  <2>4. OneRunPerChild'
    BY <1>1 DEF Spawn, MayCall, GoSubmit
  <2>5. EntriesAreTrue'
    BY <1>1 DEF Spawn, MayCall, GoSubmit, EntriesAreTrue
  <2>6. EntriesShowRuns'
    BY <1>1 DEF Spawn, MayCall, GoSubmit, EntriesShowRuns, UnderWay, Submitting
  <2>7. PendingIsOwned'
    <3> SUFFICES ASSUME NEW d \in Children, status'[d] = "pending"
                 PROVE  \/ job'[Latest(d)'] \in {"queued", "picked"}
                        \/ job'[Latest(d)'] = "none" /\ Submitting(Latest(d))'
                        \/ poolDown'
      BY DEF PendingIsOwned, Latest
    <3>1. CASE d = c
      BY <1>1, <3>1 DEF Spawn, MayCall, GoSubmit, Submitting
    <3>2. CASE d # c
      <4>1. Submitting(Latest(d)) => Submitting(Latest(d))'
        BY <1>1 DEF Spawn, MayCall, GoSubmit, Submitting
      <4>2. QED BY <1>1, <3>2, <4>1 DEF Spawn, PendingIsOwned
    <3>3. QED BY <3>1, <3>2
  <2>8. EventsMeanRuns'
    BY <1>1 DEF Spawn, MayCall, GoSubmit, EventsMeanRuns
  <2>9. ReturnsHaveOutcomes'
    BY <1>1 DEF Spawn, MayCall, GoSubmit, ReturnsHaveOutcomes
  <2>10. QED BY <2>1, <2>2, <2>3, <2>4, <2>5, <2>6, <2>7, <2>8, <2>9
<1>2. ASSUME NEW a \in Actors, NEW c \in Children, SpawnUnknown(a, c) PROVE RunInv'
  <2>1. CallersWork'
    BY <1>2 DEF SpawnUnknown, MayCall
  <2>2. SubmittersOwn'
    BY <1>2 DEF SpawnUnknown, MayCall
  <2>3. LaterRunsAreFresh'
    BY <1>2 DEF SpawnUnknown, MayCall
  <2>4. OneRunPerChild'
    BY <1>2 DEF SpawnUnknown, MayCall
  <2>5. EntriesAreTrue'
    BY <1>2 DEF SpawnUnknown, MayCall, EntriesAreTrue
  <2>6. EntriesShowRuns'
    BY <1>2 DEF SpawnUnknown, MayCall, EntriesShowRuns, UnderWay, Submitting
  <2>7. PendingIsOwned'
    <3> SUFFICES ASSUME NEW d \in Children, status'[d] = "pending"
                 PROVE  \/ job'[Latest(d)'] \in {"queued", "picked"}
                        \/ job'[Latest(d)'] = "none" /\ Submitting(Latest(d))'
                        \/ poolDown'
      BY DEF PendingIsOwned, Latest
    <3>1. Submitting(Latest(d)) => Submitting(Latest(d))'
      BY <1>2 DEF SpawnUnknown, Submitting
    <3>2. QED BY <1>2, <3>1 DEF SpawnUnknown, PendingIsOwned
  <2>8. EventsMeanRuns'
    BY <1>2 DEF SpawnUnknown, MayCall, EventsMeanRuns
  <2>9. ReturnsHaveOutcomes'
    BY <1>2 DEF SpawnUnknown, MayCall, ReturnsHaveOutcomes
  <2>10. QED BY <2>1, <2>2, <2>3, <2>4, <2>5, <2>6, <2>7, <2>8, <2>9
<1>3. ASSUME NEW a \in Actors, NEW c \in Children, Resume(a, c) PROVE RunInv'
  <2>1. CallersWork'
    BY <1>3 DEF Resume, Resumable, MayCall, GoSubmit, NewEvent
  <2>2. SubmittersOwn'
    BY <1>3 DEF Resume, Resumable, MayCall, GoSubmit, NewEvent, EntriesShowRuns, UnderWay, Submitting
  <2>3. LaterRunsAreFresh'
    BY <1>3 DEF Resume, Resumable, MayCall, GoSubmit, NewEvent
  <2>4. OneRunPerChild'
    BY <1>3 DEF Resume, Resumable, MayCall, GoSubmit, NewEvent, EntriesShowRuns, UnderWay, Submitting
  <2>5. EntriesAreTrue'
    BY <1>3 DEF Resume, Resumable, MayCall, GoSubmit, NewEvent, EntriesAreTrue
  <2>6. EntriesShowRuns'
    BY <1>3 DEF Resume, Resumable, MayCall, GoSubmit, NewEvent, EntriesShowRuns, UnderWay, Submitting
  <2>7. PendingIsOwned'
    BY <1>3 DEF Resume, Resumable, MayCall, GoSubmit, NewEvent, PendingIsOwned, Submitting
  <2>8. EventsMeanRuns'
    BY <1>3 DEF Resume, Resumable, MayCall, GoSubmit, NewEvent, EventsMeanRuns
  <2>9. ReturnsHaveOutcomes'
    BY <1>3 DEF Resume, Resumable, MayCall, GoSubmit, NewEvent, ReturnsHaveOutcomes
  <2>10. QED BY <2>1, <2>2, <2>3, <2>4, <2>5, <2>6, <2>7, <2>8, <2>9
<1>4. ASSUME NEW a \in Actors, NEW c \in Children, Wait(a, c) PROVE RunInv'
  <2>1. CallersWork'
    BY <1>4 DEF Wait, MayCall
  <2>2. SubmittersOwn'
    BY <1>4 DEF Wait, MayCall
  <2>3. LaterRunsAreFresh'
    BY <1>4 DEF Wait, MayCall
  <2>4. OneRunPerChild'
    BY <1>4 DEF Wait, MayCall
  <2>5. EntriesAreTrue'
    BY <1>4 DEF Wait, MayCall, EntriesAreTrue
  <2>6. EntriesShowRuns'
    BY <1>4 DEF Wait, MayCall, EntriesShowRuns, UnderWay, Submitting
  <2>7. PendingIsOwned'
    BY <1>4 DEF Wait, MayCall, PendingIsOwned, Submitting
  <2>8. EventsMeanRuns'
    BY <1>4 DEF Wait, MayCall, EventsMeanRuns
  <2>9. ReturnsHaveOutcomes'
    BY <1>4 DEF Wait, MayCall, ReturnsHaveOutcomes
  <2>10. QED BY <2>1, <2>2, <2>3, <2>4, <2>5, <2>6, <2>7, <2>8, <2>9
<1>5. ASSUME NEW a \in Actors, Submit(a) PROVE RunInv'
  <2>1. CallersWork'
    BY <1>5 DEF Submit, Return
  <2>2. SubmittersOwn'
    BY <1>5 DEF Submit, Return
  <2>3. LaterRunsAreFresh'
    BY <1>5 DEF Submit, Return, EntriesShowRuns, UnderWay, Submitting
  <2>4. OneRunPerChild'
    BY <1>5 DEF Submit, Return
  <2>5. EntriesAreTrue'
    BY <1>5 DEF Submit, Return, EntriesAreTrue
  <2>6. EntriesShowRuns'
    BY <1>5 DEF Submit, Return, EntriesShowRuns, UnderWay, Submitting
  <2>7. PendingIsOwned'
    <3> SUFFICES ASSUME NEW d \in Children, status'[d] = "pending"
                 PROVE  \/ job'[Latest(d)'] \in {"queued", "picked"}
                        \/ job'[Latest(d)'] = "none" /\ Submitting(Latest(d))'
                        \/ poolDown'
      BY DEF PendingIsOwned, Latest
    <3>1. CASE poolDown
      BY <1>5, <3>1 DEF Submit
    <3>2. CASE ~poolDown /\ Latest(d) = call[a]
      <4>1. pc[a] = "submit" /\ job' = [job EXCEPT ![call[a]] = "queued"] /\ latest' = latest
        BY <1>5, <3>2 DEF Submit
      <4>2. call[a] \in Runs
        BY <4>1
      <4>3. job'[Latest(d)] = "queued"
        BY <3>2, <4>1, <4>2
      <4>4. QED BY <4>1, <4>3
    <3>3. CASE ~poolDown /\ Latest(d) # call[a]
      <4>1. Submitting(Latest(d)) => Submitting(Latest(d))'
        BY <1>5, <3>3 DEF Submit, Submitting
      <4>2. QED BY <1>5, <3>3, <4>1 DEF Submit, PendingIsOwned
    <3>4. QED BY <3>1, <3>2, <3>3
  <2>8. EventsMeanRuns'
    BY <1>5 DEF Submit, Return, EventsMeanRuns
  <2>9. ReturnsHaveOutcomes'
    BY <1>5 DEF Submit, Return, ReturnsHaveOutcomes
  <2>10. QED BY <2>1, <2>2, <2>3, <2>4, <2>5, <2>6, <2>7, <2>8, <2>9
<1>6. ASSUME NEW a \in Actors, Assign(a) PROVE RunInv'
  <2>1. CallersWork'
    BY <1>6 DEF Assign, Return
  <2>2. SubmittersOwn'
    BY <1>6 DEF Assign, Return
  <2>3. LaterRunsAreFresh'
    BY <1>6 DEF Assign, Return
  <2>4. OneRunPerChild'
    BY <1>6 DEF Assign, Return
  <2>5. EntriesAreTrue'
    BY <1>6 DEF Assign, Return, EntriesAreTrue
  <2>6. EntriesShowRuns'
    <3> SUFFICES ASSUME NEW d \in Children, UnderWay(d)'
                 PROVE  (status[d] \in Active \/ (status[d] = "cancelled" /\ Latest(d) \in fired))'
      BY DEF EntriesShowRuns
    <3>1. UnderWay(d)
      <4>1. Unfinished(Latest(d))' => Unfinished(Latest(d))
        BY <1>6, LatestIsRun DEF Assign, Return
      <4>2. Submitting(Latest(d))' => Submitting(Latest(d))
        BY <1>6 DEF Assign, Return, Submitting
      <4>3. QED BY <4>1, <4>2 DEF UnderWay
    <3>2. QED BY <1>6, <3>1 DEF Assign, EntriesShowRuns
  <2>7. PendingIsOwned'
    <3> SUFFICES ASSUME NEW d \in Children, status'[d] = "pending"
                 PROVE  \/ job'[Latest(d)'] \in {"queued", "picked"}
                        \/ job'[Latest(d)'] = "none" /\ Submitting(Latest(d))'
                        \/ poolDown'
      BY DEF PendingIsOwned, Latest
    <3>1. Submitting(Latest(d)) => Submitting(Latest(d))'
      <4>1. ASSUME NEW b \in Actors, pc[b] = "submit", call[b] = Latest(d)
            PROVE  pc'[b] = "submit" /\ call'[b] = Latest(d)
        BY <1>6, <4>1 DEF Assign, Return
      <4>2. latest' = latest
        BY <1>6 DEF Assign
      <4> HIDE DEF TypeInv, TypeOK, RunInv
      <4>3. QED BY <4>1, <4>2, Zenon DEF Submitting
    <3>2. QED BY <1>6, <3>1 DEF Assign, PendingIsOwned
  <2>8. EventsMeanRuns'
    BY <1>6 DEF Assign, Return, EventsMeanRuns
  <2>9. ReturnsHaveOutcomes'
    BY <1>6 DEF Assign, Return, ReturnsHaveOutcomes
  <2>10. QED BY <2>1, <2>2, <2>3, <2>4, <2>5, <2>6, <2>7, <2>8, <2>9
<1>7. ASSUME NEW a \in Actors, Unblock(a) PROVE RunInv'
  <2>1. CallersWork'
    BY <1>7 DEF Unblock, Return
  <2>2. SubmittersOwn'
    BY <1>7 DEF Unblock, Return
  <2>3. LaterRunsAreFresh'
    BY <1>7 DEF Unblock, Return
  <2>4. OneRunPerChild'
    BY <1>7 DEF Unblock, Return
  <2>5. EntriesAreTrue'
    BY <1>7 DEF Unblock, Return, EntriesAreTrue
  <2>6. EntriesShowRuns'
    BY <1>7 DEF Unblock, Return, EntriesShowRuns, UnderWay, Submitting
  <2>7. PendingIsOwned'
    BY <1>7 DEF Unblock, Return, PendingIsOwned, Submitting
  <2>8. EventsMeanRuns'
    BY <1>7 DEF Unblock, Return, EventsMeanRuns
  <2>9. ReturnsHaveOutcomes'
    BY <1>7 DEF Unblock, Return, ReturnsHaveOutcomes
  <2>10. QED BY <2>1, <2>2, <2>3, <2>4, <2>5, <2>6, <2>7, <2>8, <2>9
<1>8. ASSUME NEW a \in Actors, WaitAnswered(a) PROVE RunInv'
  <2>1. CallersWork'
    BY <1>8 DEF WaitAnswered, Return
  <2>2. SubmittersOwn'
    BY <1>8 DEF WaitAnswered, Return
  <2>3. LaterRunsAreFresh'
    BY <1>8 DEF WaitAnswered, Return
  <2>4. OneRunPerChild'
    BY <1>8 DEF WaitAnswered, Return
  <2>5. EntriesAreTrue'
    BY <1>8 DEF WaitAnswered, Return, EntriesAreTrue
  <2>6. EntriesShowRuns'
    BY <1>8 DEF WaitAnswered, Return, EntriesShowRuns, UnderWay, Submitting
  <2>7. PendingIsOwned'
    BY <1>8 DEF WaitAnswered, Return, PendingIsOwned, Submitting
  <2>8. EventsMeanRuns'
    BY <1>8 DEF WaitAnswered, Return, EventsMeanRuns
  <2>9. ReturnsHaveOutcomes'
    BY <1>8 DEF WaitAnswered, Return, ReturnsHaveOutcomes
  <2>10. QED BY <2>1, <2>2, <2>3, <2>4, <2>5, <2>6, <2>7, <2>8, <2>9
<1>9. ASSUME NEW a \in Actors, WaitTimesOut(a) PROVE RunInv'
  <2>1. CallersWork'
    BY <1>9 DEF WaitTimesOut, Return
  <2>2. SubmittersOwn'
    BY <1>9 DEF WaitTimesOut, Return
  <2>3. LaterRunsAreFresh'
    BY <1>9 DEF WaitTimesOut, Return
  <2>4. OneRunPerChild'
    BY <1>9 DEF WaitTimesOut, Return
  <2>5. EntriesAreTrue'
    BY <1>9 DEF WaitTimesOut, Return, EntriesAreTrue
  <2>6. EntriesShowRuns'
    BY <1>9 DEF WaitTimesOut, Return, EntriesShowRuns, UnderWay, Submitting
  <2>7. PendingIsOwned'
    BY <1>9 DEF WaitTimesOut, Return, PendingIsOwned, Submitting
  <2>8. EventsMeanRuns'
    BY <1>9 DEF WaitTimesOut, Return, EventsMeanRuns
  <2>9. ReturnsHaveOutcomes'
    BY <1>9 DEF WaitTimesOut, Return, ReturnsHaveOutcomes
  <2>10. QED BY <2>1, <2>2, <2>3, <2>4, <2>5, <2>6, <2>7, <2>8, <2>9
<1>10. ASSUME NEW r \in Runs, Pick(r) PROVE RunInv'
  <2>1. CallersWork'
    BY <1>10 DEF Pick, SetJob
  <2>2. SubmittersOwn'
    BY <1>10 DEF Pick, SetJob
  <2>3. LaterRunsAreFresh'
    BY <1>10 DEF Pick, SetJob
  <2>4. OneRunPerChild'
    BY <1>10 DEF Pick, SetJob
  <2>5. EntriesAreTrue'
    BY <1>10 DEF Pick, SetJob, EntriesAreTrue
  <2>6. EntriesShowRuns'
    <3> SUFFICES ASSUME NEW d \in Children, UnderWay(d)'
                 PROVE  (status[d] \in Active \/ (status[d] = "cancelled" /\ Latest(d) \in fired))'
      BY DEF EntriesShowRuns
    <3>1. UnderWay(d)
      <4>1. Unfinished(Latest(d))' => Unfinished(Latest(d))
        BY <1>10, LatestIsRun DEF Pick, SetJob
      <4>2. Submitting(Latest(d))' => Submitting(Latest(d))
        BY <1>10 DEF Pick, SetJob, Submitting
      <4>3. QED BY <4>1, <4>2 DEF UnderWay
    <3>2. QED BY <1>10, <3>1 DEF Pick, EntriesShowRuns
  <2>7. PendingIsOwned'
    BY <1>10 DEF Pick, SetJob, PendingIsOwned, Submitting
  <2>8. EventsMeanRuns'
    BY <1>10 DEF Pick, SetJob, EventsMeanRuns
  <2>9. ReturnsHaveOutcomes'
    BY <1>10 DEF Pick, SetJob, ReturnsHaveOutcomes
  <2>10. QED BY <2>1, <2>2, <2>3, <2>4, <2>5, <2>6, <2>7, <2>8, <2>9
<1>11. ASSUME NEW r \in Runs, BeginRun(r) PROVE RunInv'
  <2>1. CallersWork'
    BY <1>11 DEF BeginRun, SetJob
  <2>2. SubmittersOwn'
    BY <1>11 DEF BeginRun, SetJob
  <2>3. LaterRunsAreFresh'
    BY <1>11 DEF BeginRun, SetJob
  <2>4. OneRunPerChild'
    BY <1>11 DEF BeginRun, SetJob
  <2>5. EntriesAreTrue'
    BY <1>11 DEF BeginRun, SetJob, EntriesAreTrue
  <2>6. EntriesShowRuns'
    BY <1>11 DEF BeginRun, SetJob, EntriesShowRuns, UnderWay, Submitting
  <2>7. PendingIsOwned'
    <3> SUFFICES ASSUME NEW d \in Children, status'[d] = "pending"
                 PROVE  \/ job'[Latest(d)'] \in {"queued", "picked"}
                        \/ job'[Latest(d)'] = "none" /\ Submitting(Latest(d))'
                        \/ poolDown'
      BY DEF PendingIsOwned, Latest
    <3>1. d # r[1] /\ status[d] = "pending"
      BY <1>11 DEF BeginRun
    <3>2. Submitting(Latest(d)) => Submitting(Latest(d))'
      BY <1>11 DEF BeginRun, Submitting
    <3>3. QED BY <1>11, <3>1, <3>2 DEF BeginRun, SetJob, PendingIsOwned
  <2>8. EventsMeanRuns'
    BY <1>11 DEF BeginRun, SetJob, EventsMeanRuns
  <2>9. ReturnsHaveOutcomes'
    BY <1>11 DEF BeginRun, SetJob, ReturnsHaveOutcomes
  <2>10. QED BY <2>1, <2>2, <2>3, <2>4, <2>5, <2>6, <2>7, <2>8, <2>9
<1>12. ASSUME NEW r \in Runs, RunReturns(r) PROVE RunInv'
  <2>1. CallersWork'
    BY <1>12 DEF RunReturns, SetJob, Results
  <2>2. SubmittersOwn'
    BY <1>12 DEF RunReturns, SetJob, Results
  <2>3. LaterRunsAreFresh'
    BY <1>12 DEF RunReturns, SetJob, Results
  <2>4. OneRunPerChild'
    BY <1>12 DEF RunReturns, SetJob, Results
  <2>5. EntriesAreTrue'
    BY <1>12 DEF RunReturns, SetJob, Results, EntriesAreTrue
  <2>6. EntriesShowRuns'
    <3> SUFFICES ASSUME NEW d \in Children, UnderWay(d)'
                 PROVE  (status[d] \in Active \/ (status[d] = "cancelled" /\ Latest(d) \in fired))'
      BY DEF EntriesShowRuns
    <3>1. UnderWay(d)
      <4>1. Unfinished(Latest(d))' => Unfinished(Latest(d))
        BY <1>12, LatestIsRun DEF RunReturns, SetJob
      <4>2. Submitting(Latest(d))' => Submitting(Latest(d))
        BY <1>12 DEF RunReturns, SetJob, Submitting
      <4>3. QED BY <4>1, <4>2 DEF UnderWay
    <3>2. QED BY <1>12, <3>1 DEF RunReturns, EntriesShowRuns
  <2>7. PendingIsOwned'
    BY <1>12 DEF RunReturns, SetJob, Results, PendingIsOwned, Submitting
  <2>8. EventsMeanRuns'
    BY <1>12 DEF RunReturns, SetJob, Results, EventsMeanRuns
  <2>9. ReturnsHaveOutcomes'
    BY <1>12 DEF RunReturns, SetJob, Results, ReturnsHaveOutcomes
  <2>10. QED BY <2>1, <2>2, <2>3, <2>4, <2>5, <2>6, <2>7, <2>8, <2>9
<1>13. ASSUME NEW r \in Runs, StoreResult(r) PROVE RunInv'
  <2>1. CallersWork'
    BY <1>13 DEF StoreResult, SetJob, StoredStatus
  <2>2. SubmittersOwn'
    BY <1>13 DEF StoreResult, SetJob, StoredStatus
  <2>3. LaterRunsAreFresh'
    BY <1>13 DEF StoreResult, SetJob, StoredStatus, ReturnsHaveOutcomes, Results
  <2>4. OneRunPerChild'
    BY <1>13 DEF StoreResult, SetJob, StoredStatus
  <2>5. EntriesAreTrue'
    BY <1>13 DEF StoreResult, SetJob, StoredStatus, EntriesAreTrue, ReturnsHaveOutcomes, Results
  <2>6. EntriesShowRuns'
    <3> SUFFICES ASSUME NEW d \in Children, UnderWay(d)'
                 PROVE  (status[d] \in Active \/ (status[d] = "cancelled" /\ Latest(d) \in fired))'
      BY DEF EntriesShowRuns
    <3>1. CASE d = r[1]
      BY <1>13, <3>1 DEF StoreResult, SetJob, UnderWay, Submitting
    <3>2. CASE d # r[1]
      BY <1>13, <3>2 DEF StoreResult, SetJob, EntriesShowRuns, UnderWay, Submitting
    <3>3. QED BY <3>1, <3>2
  <2>7. PendingIsOwned'
    BY SMTT(30), <1>13 DEF StoreResult, SetJob, StoredStatus, PendingIsOwned, Submitting, ReturnsHaveOutcomes, Results
  <2>8. EventsMeanRuns'
    BY <1>13 DEF StoreResult, SetJob, StoredStatus, EventsMeanRuns
  <2>9. ReturnsHaveOutcomes'
    BY <1>13 DEF StoreResult, SetJob, StoredStatus, ReturnsHaveOutcomes
  <2>10. QED BY <2>1, <2>2, <2>3, <2>4, <2>5, <2>6, <2>7, <2>8, <2>9
<1>14. ASSUME NEW r \in Runs, FinishJob(r) PROVE RunInv'
  <2>1. CallersWork'
    BY <1>14 DEF FinishJob, SetJob
  <2>2. SubmittersOwn'
    BY <1>14 DEF FinishJob, SetJob
  <2>3. LaterRunsAreFresh'
    BY <1>14 DEF FinishJob, SetJob
  <2>4. OneRunPerChild'
    BY <1>14 DEF FinishJob, SetJob
  <2>5. EntriesAreTrue'
    BY <1>14 DEF FinishJob, SetJob, EntriesAreTrue
  <2>6. EntriesShowRuns'
    BY <1>14 DEF FinishJob, SetJob, EntriesShowRuns, UnderWay, Submitting
  <2>7. PendingIsOwned'
    BY SMTT(30), <1>14 DEF FinishJob, SetJob, PendingIsOwned, Submitting
  <2>8. EventsMeanRuns'
    BY <1>14 DEF FinishJob, SetJob, EventsMeanRuns
  <2>9. ReturnsHaveOutcomes'
    BY <1>14 DEF FinishJob, SetJob, ReturnsHaveOutcomes
  <2>10. QED BY <2>1, <2>2, <2>3, <2>4, <2>5, <2>6, <2>7, <2>8, <2>9
<1>15. ASSUME NEW c \in Children, Cancel(c) PROVE RunInv'
  <2>1. CallersWork'
    BY <1>15 DEF Cancel
  <2>2. SubmittersOwn'
    BY <1>15 DEF Cancel
  <2>3. LaterRunsAreFresh'
    BY <1>15 DEF Cancel
  <2>4. OneRunPerChild'
    BY <1>15 DEF Cancel
  <2>5. EntriesAreTrue'
    BY <1>15 DEF Cancel, EntriesAreTrue
  <2>6. EntriesShowRuns'
    BY <1>15 DEF Cancel, EntriesShowRuns, UnderWay, Submitting, EventsMeanRuns
  <2>7. PendingIsOwned'
    BY <1>15 DEF Cancel, PendingIsOwned, Submitting
  <2>8. EventsMeanRuns'
    BY <1>15 DEF Cancel, EventsMeanRuns
  <2>9. ReturnsHaveOutcomes'
    BY <1>15 DEF Cancel, ReturnsHaveOutcomes
  <2>10. QED BY <2>1, <2>2, <2>3, <2>4, <2>5, <2>6, <2>7, <2>8, <2>9
<1>16. ASSUME ShutdownSignals PROVE RunInv'
  <2>1. CallersWork'
    BY <1>16 DEF ShutdownSignals, Signalled
  <2>2. SubmittersOwn'
    BY <1>16 DEF ShutdownSignals, Signalled
  <2>3. LaterRunsAreFresh'
    BY <1>16 DEF ShutdownSignals, Signalled
  <2>4. OneRunPerChild'
    BY <1>16 DEF ShutdownSignals, Signalled
  <2>5. EntriesAreTrue'
    BY <1>16 DEF ShutdownSignals, Signalled, EntriesAreTrue
  <2>6. EntriesShowRuns'
    BY <1>16 DEF ShutdownSignals, Signalled, EntriesShowRuns, UnderWay, Submitting
  <2>7. PendingIsOwned'
    BY <1>16 DEF ShutdownSignals, Signalled, PendingIsOwned, Submitting
  <2>8. EventsMeanRuns'
    BY <1>16 DEF ShutdownSignals, Signalled, EventsMeanRuns
  <2>9. ReturnsHaveOutcomes'
    BY <1>16 DEF ShutdownSignals, Signalled, ReturnsHaveOutcomes
  <2>10. QED BY <2>1, <2>2, <2>3, <2>4, <2>5, <2>6, <2>7, <2>8, <2>9
<1>17. ASSUME ShutdownPool PROVE RunInv'
  <2>1. CallersWork'
    BY <1>17 DEF ShutdownPool
  <2>2. SubmittersOwn'
    BY <1>17 DEF ShutdownPool
  <2>3. LaterRunsAreFresh'
    BY <1>17 DEF ShutdownPool
  <2>4. OneRunPerChild'
    BY <1>17 DEF ShutdownPool
  <2>5. EntriesAreTrue'
    BY <1>17 DEF ShutdownPool, EntriesAreTrue
  <2>6. EntriesShowRuns'
    BY <1>17 DEF ShutdownPool, EntriesShowRuns, UnderWay, Submitting
  <2>7. PendingIsOwned'
    BY <1>17 DEF ShutdownPool, PendingIsOwned, Submitting
  <2>8. EventsMeanRuns'
    BY <1>17 DEF ShutdownPool, EventsMeanRuns
  <2>9. ReturnsHaveOutcomes'
    BY <1>17 DEF ShutdownPool, ReturnsHaveOutcomes
  <2>10. QED BY <2>1, <2>2, <2>3, <2>4, <2>5, <2>6, <2>7, <2>8, <2>9
<1>18. ASSUME ShutdownJoins PROVE RunInv'
  <2>1. CallersWork'
    BY <1>18 DEF ShutdownJoins
  <2>2. SubmittersOwn'
    BY <1>18 DEF ShutdownJoins
  <2>3. LaterRunsAreFresh'
    BY <1>18 DEF ShutdownJoins
  <2>4. OneRunPerChild'
    BY <1>18 DEF ShutdownJoins
  <2>5. EntriesAreTrue'
    BY <1>18 DEF ShutdownJoins, EntriesAreTrue
  <2>6. EntriesShowRuns'
    BY <1>18 DEF ShutdownJoins, EntriesShowRuns, UnderWay, Submitting
  <2>7. PendingIsOwned'
    BY <1>18 DEF ShutdownJoins, PendingIsOwned, Submitting
  <2>8. EventsMeanRuns'
    BY <1>18 DEF ShutdownJoins, EventsMeanRuns
  <2>9. ReturnsHaveOutcomes'
    BY <1>18 DEF ShutdownJoins, ReturnsHaveOutcomes
  <2>10. QED BY <2>1, <2>2, <2>3, <2>4, <2>5, <2>6, <2>7, <2>8, <2>9
<1>19. ASSUME ShutdownGivesUp PROVE RunInv'
  <2>1. CallersWork'
    BY <1>19 DEF ShutdownGivesUp
  <2>2. SubmittersOwn'
    BY <1>19 DEF ShutdownGivesUp
  <2>3. LaterRunsAreFresh'
    BY <1>19 DEF ShutdownGivesUp
  <2>4. OneRunPerChild'
    BY <1>19 DEF ShutdownGivesUp
  <2>5. EntriesAreTrue'
    BY <1>19 DEF ShutdownGivesUp, EntriesAreTrue
  <2>6. EntriesShowRuns'
    BY <1>19 DEF ShutdownGivesUp, EntriesShowRuns, UnderWay, Submitting
  <2>7. PendingIsOwned'
    BY <1>19 DEF ShutdownGivesUp, PendingIsOwned, Submitting
  <2>8. EventsMeanRuns'
    BY <1>19 DEF ShutdownGivesUp, EventsMeanRuns
  <2>9. ReturnsHaveOutcomes'
    BY <1>19 DEF ShutdownGivesUp, ReturnsHaveOutcomes
  <2>10. QED BY <2>1, <2>2, <2>3, <2>4, <2>5, <2>6, <2>7, <2>8, <2>9
<1>20. CASE UNCHANGED vars
  BY <1>20 DEF vars, EntriesAreTrue, ReturnsHaveOutcomes, EntriesShowRuns, UnderWay, Submitting, PendingIsOwned, EventsMeanRuns
<1>21. QED
  BY <1>1, <1>2, <1>3, <1>4, <1>5, <1>6, <1>7, <1>8, <1>9, <1>10, <1>11, <1>12, <1>13, <1>14, <1>15, <1>16, <1>17, <1>18, <1>19, <1>20 DEF Next, CallStep, PoolStep

-----------------------------------------------------------------------------
(* Shutdown *)

(* No step after the signals starts a child of the main session: its        *)
(* callers are gone, and a running child is the parent of what it spawns.   *)
LEMMA ShutdownStep ==
    ASSUME TypeInv, TypeInv', RunInv, RunInv', ShutInv, [Next]_vars
    PROVE  ShutInv'
<1> USE DEF TypeInv, TypeOK, CallsAreRuns, ShutInv, Actors, ShutdownStages
<1>1. ASSUME NEW a \in Actors, NEW c \in Children, Spawn(a, c) PROVE ShutInv'
  <2>1. ShutdownStages'
    BY <1>1 DEF Spawn, MayCall, GoSubmit, Home
  <2>2. FuturesShowJobs'
    BY <1>1 DEF Spawn, MayCall, GoSubmit, Home, FuturesShowJobs, Runs, NoFuture
  <2>3. SignalsReach'
    BY <1>1 DEF Spawn, MayCall, GoSubmit, Home, SignalsReach, UnderWay, Unfinished, Submitting, Latest, Runs
  <2>4. JoinedMeansIdle'
    BY <1>1 DEF Spawn, MayCall, GoSubmit, Home, JoinedMeansIdle
  <2>5. QED BY <2>1, <2>2, <2>3, <2>4
<1>2. ASSUME NEW a \in Actors, NEW c \in Children, SpawnUnknown(a, c) PROVE ShutInv'
  <2>1. ShutdownStages'
    BY <1>2 DEF SpawnUnknown, MayCall, Home
  <2>2. FuturesShowJobs'
    BY <1>2 DEF SpawnUnknown, MayCall, Home, FuturesShowJobs, Runs, NoFuture
  <2>3. SignalsReach'
    BY <1>2 DEF SpawnUnknown, MayCall, Home, SignalsReach, UnderWay, Unfinished, Submitting, Latest, Runs
  <2>4. JoinedMeansIdle'
    BY <1>2 DEF SpawnUnknown, MayCall, Home, JoinedMeansIdle
  <2>5. QED BY <2>1, <2>2, <2>3, <2>4
<1>3. ASSUME NEW a \in Actors, NEW c \in Children, Resume(a, c) PROVE ShutInv'
  <2>1. ShutdownStages'
    BY <1>3 DEF Resume, Resumable, MayCall, GoSubmit, NewEvent, Home
  <2>2. FuturesShowJobs'
    BY <1>3 DEF Resume, Resumable, MayCall, GoSubmit, NewEvent, Home, FuturesShowJobs, Runs, NoFuture
  <2>3. SignalsReach'
    <3> SUFFICES ASSUME shut' # "open", NEW d \in Children, parent'[d] = Main, UnderWay(d)'
                 PROVE  <<d, latest'[d]>> \in fired'
      BY DEF SignalsReach, Latest
    <3>1. a \notin Callers /\ d # c
      <4>1. a \notin Callers
        BY <1>3 DEF Resume, MayCall
      <4>2. parent[c] # Main
        BY <1>3, <4>1 DEF Resume, Home, Runs
      <4>3. QED BY <1>3, <4>1, <4>2 DEF Resume
    <3>2. UnderWay(d)
      BY <1>3, <3>1 DEF Resume, MayCall, GoSubmit, UnderWay, Unfinished, Submitting, Latest
    <3>3. QED BY <1>3, <3>1, <3>2 DEF Resume, SignalsReach, Latest
  <2>4. JoinedMeansIdle'
    BY <1>3 DEF Resume, Resumable, MayCall, GoSubmit, NewEvent, Home, JoinedMeansIdle
  <2>5. QED BY <2>1, <2>2, <2>3, <2>4
<1>4. ASSUME NEW a \in Actors, NEW c \in Children, Wait(a, c) PROVE ShutInv'
  <2>1. ShutdownStages'
    BY <1>4 DEF Wait, MayCall
  <2>2. FuturesShowJobs'
    BY <1>4 DEF Wait, MayCall, FuturesShowJobs, Runs, NoFuture
  <2>3. SignalsReach'
    <3> SUFFICES ASSUME shut' # "open", NEW d \in Children, parent'[d] = Main, UnderWay(d)'
                 PROVE  <<d, latest'[d]>> \in fired'
      BY DEF SignalsReach, Latest
    <3>1. UnderWay(d)
      BY <1>4 DEF Wait, UnderWay, Unfinished, Submitting, Latest
    <3>2. QED BY <1>4, <3>1 DEF Wait, SignalsReach, Latest
  <2>4. JoinedMeansIdle'
    BY <1>4 DEF Wait, MayCall, JoinedMeansIdle
  <2>5. QED BY <2>1, <2>2, <2>3, <2>4
<1>5. ASSUME NEW a \in Actors, Submit(a) PROVE ShutInv'
  <2>1. ShutdownStages'
    BY <1>5 DEF Submit, Return
  <2>2. FuturesShowJobs'
    <3>1. CASE a \in Callers
      BY <1>5, <3>1 DEF Submit, Return, FuturesShowJobs
    <3>2. CASE a \notin Callers
      <4>1. a \in Runs /\ job[a] = "working"
        BY <1>5, <3>2 DEF Submit, RunInv, CallersWork
      <4>2. QED BY <1>5, <3>2, <4>1 DEF Submit, Return, FuturesShowJobs
    <3>3. QED BY <3>1, <3>2
  <2>3. SignalsReach'
    <3> SUFFICES ASSUME shut' # "open", NEW d \in Children, parent'[d] = Main, UnderWay(d)'
                 PROVE  <<d, latest'[d]>> \in fired'
      BY DEF SignalsReach, Latest
    <3>1. UnderWay(d)
      BY SMTT(30), <1>5 DEF Submit, Return, UnderWay, Unfinished, Submitting, Latest, Runs
    <3>2. QED BY <1>5, <3>1 DEF Submit, SignalsReach, Latest
  <2>4. JoinedMeansIdle'
    BY <1>5 DEF Submit, Return, JoinedMeansIdle
  <2>5. QED BY <2>1, <2>2, <2>3, <2>4
<1>6. ASSUME NEW a \in Actors, Assign(a) PROVE ShutInv'
  <2>1. ShutdownStages'
    BY <1>6 DEF Assign, Return
  <2>2. FuturesShowJobs'
    BY <1>6 DEF Assign, Return, FuturesShowJobs, Runs, NoFuture
  <2>3. SignalsReach'
    BY SMTT(30), <1>6 DEF Assign, Return, SignalsReach, UnderWay, Unfinished, Submitting, Latest, Runs
  <2>4. JoinedMeansIdle'
    BY <1>6 DEF Assign, Return, JoinedMeansIdle
  <2>5. QED BY <2>1, <2>2, <2>3, <2>4
<1>7. ASSUME NEW a \in Actors, Unblock(a) PROVE ShutInv'
  <2>1. ShutdownStages'
    BY <1>7 DEF Unblock, Return
  <2>2. FuturesShowJobs'
    BY <1>7 DEF Unblock, Return, FuturesShowJobs, Runs, NoFuture
  <2>3. SignalsReach'
    BY <1>7 DEF Unblock, Return, SignalsReach, UnderWay, Unfinished, Submitting, Latest, Runs
  <2>4. JoinedMeansIdle'
    BY <1>7 DEF Unblock, Return, JoinedMeansIdle
  <2>5. QED BY <2>1, <2>2, <2>3, <2>4
<1>8. ASSUME NEW a \in Actors, WaitAnswered(a) PROVE ShutInv'
  <2>1. ShutdownStages'
    BY <1>8 DEF WaitAnswered, Return
  <2>2. FuturesShowJobs'
    BY <1>8 DEF WaitAnswered, Return, FuturesShowJobs, Runs, NoFuture
  <2>3. SignalsReach'
    BY <1>8 DEF WaitAnswered, Return, SignalsReach, UnderWay, Unfinished, Submitting, Latest, Runs
  <2>4. JoinedMeansIdle'
    BY <1>8 DEF WaitAnswered, Return, JoinedMeansIdle
  <2>5. QED BY <2>1, <2>2, <2>3, <2>4
<1>9. ASSUME NEW a \in Actors, WaitTimesOut(a) PROVE ShutInv'
  <2>1. ShutdownStages'
    BY <1>9 DEF WaitTimesOut, Return
  <2>2. FuturesShowJobs'
    BY <1>9 DEF WaitTimesOut, Return, FuturesShowJobs, Runs, NoFuture
  <2>3. SignalsReach'
    BY <1>9 DEF WaitTimesOut, Return, SignalsReach, UnderWay, Unfinished, Submitting, Latest, Runs
  <2>4. JoinedMeansIdle'
    BY <1>9 DEF WaitTimesOut, Return, JoinedMeansIdle
  <2>5. QED BY <2>1, <2>2, <2>3, <2>4
<1>10. ASSUME NEW r \in Runs, Pick(r) PROVE ShutInv'
  <2>1. ShutdownStages'
    BY <1>10 DEF Pick, SetJob
  <2>2. FuturesShowJobs'
    BY <1>10 DEF Pick, SetJob, FuturesShowJobs, Runs, NoFuture
  <2>3. SignalsReach'
    BY <1>10 DEF Pick, SetJob, SignalsReach, UnderWay, Unfinished, Submitting, Latest, Runs
  <2>4. JoinedMeansIdle'
    BY <1>10 DEF Pick, SetJob, JoinedMeansIdle
  <2>5. QED BY <2>1, <2>2, <2>3, <2>4
<1>11. ASSUME NEW r \in Runs, BeginRun(r) PROVE ShutInv'
  <2>1. ShutdownStages'
    BY <1>11 DEF BeginRun, SetJob
  <2>2. FuturesShowJobs'
    BY <1>11 DEF BeginRun, SetJob, FuturesShowJobs, Runs, NoFuture
  <2>3. SignalsReach'
    <3>1. \A s \in Runs : Unfinished(s)' => Unfinished(s)
      BY <1>11 DEF BeginRun, SetJob, Unfinished
    <3>2. \A d \in Children : Latest(d)' = Latest(d) /\ Latest(d) \in Runs
      BY <1>11 DEF BeginRun, Latest, Runs, TypeInv, TypeOK
    <3>3. \A s : Submitting(s)' => Submitting(s)
      BY <1>11 DEF BeginRun, Submitting, calls
    <3>4. UNCHANGED <<shut, parent, fired>> BY <1>11 DEF BeginRun, history, closing
    <3> SUFFICES ASSUME shut' # "open", NEW d \in Children, parent'[d] = Main, UnderWay(d)'
                 PROVE  Latest(d)' \in fired'
      BY DEF SignalsReach
    <3>5. latest' = latest BY <1>11 DEF BeginRun
    <3>6. PICK s \in Runs : s = <<d, latest[d]>> BY <3>2 DEF Latest
    <3>7. Unfinished(s)' \/ Submitting(s)'
      BY <3>5, <3>6 DEF UnderWay, Latest, Unfinished, Submitting
    <3>8. UnderWay(d) BY <3>1, <3>3, <3>6, <3>7 DEF UnderWay, Latest
    <3> QED BY <3>2, <3>4, <3>8 DEF SignalsReach
  <2>4. JoinedMeansIdle'
    BY <1>11 DEF BeginRun, SetJob, JoinedMeansIdle
  <2>5. QED BY <2>1, <2>2, <2>3, <2>4
<1>12. ASSUME NEW r \in Runs, RunReturns(r) PROVE ShutInv'
  <2>1. ShutdownStages'
    BY <1>12 DEF RunReturns, SetJob
  <2>2. FuturesShowJobs'
    BY <1>12 DEF RunReturns, SetJob, FuturesShowJobs, Runs, NoFuture
  <2>3. SignalsReach'
    BY <1>12 DEF RunReturns, SetJob, SignalsReach, UnderWay, Unfinished, Submitting, Latest, Runs
  <2>4. JoinedMeansIdle'
    BY <1>12 DEF RunReturns, SetJob, JoinedMeansIdle
  <2>5. QED BY <2>1, <2>2, <2>3, <2>4
<1>13. ASSUME NEW r \in Runs, StoreResult(r) PROVE ShutInv'
  <2>1. ShutdownStages'
    BY <1>13 DEF StoreResult, SetJob
  <2>2. FuturesShowJobs'
    BY <1>13 DEF StoreResult, SetJob, FuturesShowJobs, Runs, NoFuture
  <2>3. SignalsReach'
    BY <1>13 DEF StoreResult, SetJob, SignalsReach, UnderWay, Unfinished, Submitting, Latest, Runs
  <2>4. JoinedMeansIdle'
    BY <1>13 DEF StoreResult, SetJob, JoinedMeansIdle
  <2>5. QED BY <2>1, <2>2, <2>3, <2>4
<1>14. ASSUME NEW r \in Runs, FinishJob(r) PROVE ShutInv'
  <2>1. ShutdownStages'
    BY <1>14 DEF FinishJob, SetJob
  <2>2. FuturesShowJobs'
    BY <1>14 DEF FinishJob, SetJob, FuturesShowJobs, Runs, NoFuture
  <2>3. SignalsReach'
    BY <1>14 DEF FinishJob, SetJob, SignalsReach, UnderWay, Unfinished, Submitting, Latest, Runs
  <2>4. JoinedMeansIdle'
    BY <1>14 DEF FinishJob, SetJob, JoinedMeansIdle
  <2>5. QED BY <2>1, <2>2, <2>3, <2>4
<1>15. ASSUME NEW c \in Children, Cancel(c) PROVE ShutInv'
  <2>1. ShutdownStages'
    BY <1>15 DEF Cancel
  <2>2. FuturesShowJobs'
    BY <1>15 DEF Cancel, FuturesShowJobs, Runs, NoFuture
  <2>3. SignalsReach'
    BY <1>15 DEF Cancel, SignalsReach, UnderWay, Unfinished, Submitting, Latest, Runs
  <2>4. JoinedMeansIdle'
    BY <1>15 DEF Cancel, JoinedMeansIdle
  <2>5. QED BY <2>1, <2>2, <2>3, <2>4
<1>16. ASSUME ShutdownSignals PROVE ShutInv'
  <2>1. ShutdownStages'
    BY <1>16 DEF ShutdownSignals, Signalled
  <2>2. FuturesShowJobs'
    <3>1. \A k \in Callers : pc[k] = "idle"
      BY <1>16 DEF ShutdownSignals
    <3>2. awaited' = {} => \A c \in Children : future[c] = NoFuture
      <4>1. ASSUME NEW c \in Children, future[c] # NoFuture
            PROVE  <<c, future[c]>> \in Awaited
        BY <4>1 DEF Awaited
      <4>2. QED BY <1>16, <4>1 DEF ShutdownSignals
    <3>3. QED BY <1>16, <3>1, <3>2 DEF ShutdownSignals, FuturesShowJobs
  <2>3. SignalsReach'
    <3> SUFFICES ASSUME shut' # "open", NEW d \in Children, parent'[d] = Main, UnderWay(d)'
                 PROVE  <<d, latest'[d]>> \in fired'
      BY DEF SignalsReach, Latest
    <3>1. UnderWay(d) /\ latest'[d] = latest[d] /\ token[d] = <<d, latest[d]>>
      BY <1>16 DEF ShutdownSignals, UnderWay, Unfinished, Submitting, Latest, RunInv, EventsMeanRuns
    <3>2. status[d] \in Active \/ <<d, latest[d]>> \in fired
      BY <3>1 DEF RunInv, EntriesShowRuns, Latest
    <3>3. QED BY <1>16, <3>1, <3>2 DEF ShutdownSignals, Signalled
  <2>4. JoinedMeansIdle'
    BY <1>16 DEF ShutdownSignals, Signalled, JoinedMeansIdle
  <2>5. QED BY <2>1, <2>2, <2>3, <2>4
<1>17. ASSUME ShutdownPool PROVE ShutInv'
  <2>1. ShutdownStages'
    BY <1>17 DEF ShutdownPool
  <2>2. FuturesShowJobs'
    BY <1>17 DEF ShutdownPool, FuturesShowJobs, Runs, NoFuture
  <2>3. SignalsReach'
    BY <1>17 DEF ShutdownPool, SignalsReach, UnderWay, Unfinished, Submitting, Latest, Runs
  <2>4. JoinedMeansIdle'
    BY <1>17 DEF ShutdownPool, JoinedMeansIdle
  <2>5. QED BY <2>1, <2>2, <2>3, <2>4
<1>18. ASSUME ShutdownJoins PROVE ShutInv'
  <2>1. ShutdownStages'
    BY <1>18 DEF ShutdownJoins, WorkersJoined, Busy
  <2>2. FuturesShowJobs'
    BY <1>18 DEF ShutdownJoins, WorkersJoined, Busy, FuturesShowJobs, Runs, NoFuture
  <2>3. SignalsReach'
    BY <1>18 DEF ShutdownJoins, WorkersJoined, Busy, SignalsReach, UnderWay, Unfinished, Submitting, Latest, Runs
  <2>4. JoinedMeansIdle'
    BY <1>18 DEF ShutdownJoins, WorkersJoined, Busy, JoinedMeansIdle, FuturesShowJobs
  <2>5. QED BY <2>1, <2>2, <2>3, <2>4
<1>19. ASSUME ShutdownGivesUp PROVE ShutInv'
  <2>1. ShutdownStages'
    BY <1>19 DEF ShutdownGivesUp
  <2>2. FuturesShowJobs'
    BY <1>19 DEF ShutdownGivesUp, FuturesShowJobs, Runs, NoFuture
  <2>3. SignalsReach'
    BY <1>19 DEF ShutdownGivesUp, SignalsReach, UnderWay, Unfinished, Submitting, Latest, Runs
  <2>4. JoinedMeansIdle'
    BY <1>19 DEF ShutdownGivesUp, JoinedMeansIdle
  <2>5. QED BY <2>1, <2>2, <2>3, <2>4
<1>20. CASE UNCHANGED vars
  BY <1>20 DEF vars, FuturesShowJobs, SignalsReach, UnderWay, Unfinished, Submitting, Latest, JoinedMeansIdle
<1>21. QED
  BY <1>1, <1>2, <1>3, <1>4, <1>5, <1>6, <1>7, <1>8, <1>9, <1>10, <1>11, <1>12, <1>13, <1>14, <1>15, <1>16, <1>17, <1>18, <1>19, <1>20 DEF Next, CallStep, PoolStep

-----------------------------------------------------------------------------
(* The theorems *)

(* All parts together are inductive.                                       *)
THEOREM CoordinatorInvariant == Spec => []CoordInv
<1>1. Init => RunInv /\ ShutInv
  <2> SUFFICES ASSUME Init PROVE RunInv /\ ShutInv
    OBVIOUS
  <2> USE DEF Init, Runs, Actors
  <2>1. CallersWork /\ SubmittersOwn /\ LaterRunsAreFresh
    BY DEF CallersWork, SubmittersOwn, LaterRunsAreFresh
  <2>2. \A c \in Children : ~UnderWay(c) /\ status[c] = "none" /\ token[c] = Latest(c)
    BY DEF UnderWay, Unfinished, Submitting, Latest
  <2>3. OneRunPerChild /\ ReturnsHaveOutcomes
    BY DEF OneRunPerChild, ReturnsHaveOutcomes, Unfinished
  <2>4. EntriesAreTrue /\ EntriesShowRuns /\ PendingIsOwned /\ EventsMeanRuns
    BY <2>2 DEF EntriesAreTrue, EntriesShowRuns, PendingIsOwned, EventsMeanRuns
  <2>5. ShutInv
    BY DEF ShutInv, ShutdownStages, FuturesShowJobs, SignalsReach, JoinedMeansIdle
  <2>6. QED BY <2>1, <2>3, <2>4, <2>5 DEF RunInv
<1>2. TypeInv /\ TypeInv' /\ RunInv /\ ShutInv /\ [Next]_vars => RunInv' /\ ShutInv'
  BY RunsStep, ShutdownStep
<1>3. QED BY <1>1, <1>2, TypesHold, PTL DEF Spec, CoordInv

(* At most one run of a child is scheduled or at work, and what its entry  *)
(* says of it is true (subagent.py, _schedule, _job and resume).           *)
THEOREM RunsTracked == Spec => []RunsAreTracked
<1>1. CoordInv => RunsAreTracked
  BY DEF CoordInv, TypeInv, RunInv, RunsAreTracked, StatusTracksJob,
         EntriesAreTrue, PendingIsOwned, Submitting
<1>2. QED BY <1>1, CoordinatorInvariant, PTL

(* A cancel reaches the run it was meant for, and no other.                *)
THEOREM CancelsTarget == Spec => []CancelTargetsRun
<1>1. CoordInv => CancelTargetsRun
  BY DEF CoordInv, RunInv, EventsMeanRuns, CancelTargetsRun
<1>2. QED BY <1>1, CoordinatorInvariant, PTL

(* Shutdown signals whatever the main session dispatched before it takes   *)
(* the pool down, and when it answers True no run is under way.            *)
THEOREM ShutdownOrdered == Spec => []ShutdownIsOrderly
<1>1. CoordInv => ShutdownIsOrderly
  <2> SUFFICES ASSUME CoordInv PROVE ShutdownReachesAll
    BY DEF CoordInv, ShutInv, ShutdownIsOrderly
  <2> SUFFICES ASSUME poolDown, NEW r \in Runs, parent[r[1]] = Main,
                      job[r] \in {"picked", "working"}
               PROVE  token[r[1]] \in fired
    BY DEF ShutdownReachesAll
  <2>1. r[1] \in Children /\ shut # "open"
    BY DEF Runs, CoordInv, ShutInv, ShutdownStages
  <2>2. r = Latest(r[1]) /\ Unfinished(r)
    BY DEF CoordInv, RunInv, OneRunPerChild, Unfinished
  <2>3. UnderWay(r[1])
    BY <2>2 DEF UnderWay
  <2>4. Latest(r[1]) \in fired
    BY <2>1, <2>3 DEF CoordInv, ShutInv, SignalsReach
  <2>5. QED BY <2>1, <2>4 DEF CoordInv, RunInv, EventsMeanRuns
<1>2. QED BY <1>1, CoordinatorInvariant, PTL

=============================================================================
