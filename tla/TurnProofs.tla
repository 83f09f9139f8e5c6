----------------------------- MODULE TurnProofs -----------------------------
(***************************************************************************)
(* Proofs about what one turn goes through: the plan mode it is in         *)
(* (PlanMode), the request to a model that its cancellation abandons       *)
(* (ModelRequests), and a completion of the Codex app server (CodexTurn),  *)
(* for any number of turns, host operations and crashes, every finite set  *)
(* of callers, and any number of messages.                                 *)
(*                                                                         *)
(* RequestInv strengthens the count of the slots and the rule about        *)
(* forgotten requests with what makes them inductive: a caller that has    *)
(* not started its owner has no owner, and an answer in the box means that *)
(* the operation is over. CodexInv ties what the client has read, and has  *)
(* still to read, to what the server last said.                            *)
(***************************************************************************)
EXTENDS PlanMode, ModelRequests, CodexTurn, FiniteSetTheorems, SequenceTheorems,
        WellFoundedInduction, TLAPS

-----------------------------------------------------------------------------
(* Plan mode and goal mode (PlanMode). *)

InPlan(s) == s.phase \in {"active", "exit_pending"}

(* What is in memory, on its way to the file or in it: plan mode is no     *)
(* goal mode, a reminder is owed only when plan mode is off, and a         *)
(* headless session never asks.                                            *)
Sound(s) ==
    /\ s \in Snapshots
    /\ s.phase # "inactive" => s.mode # "goal"
    /\ s.owed => s.phase = "inactive"
    /\ s.awaiting => hosted
SnapshotsFit ==
    /\ Sound(st)
    /\ \A a \in Threads : saver[a] # <<>> => Sound(saver[a][1])
    /\ disk # <<>> => Sound(disk[1])

(* Nobody is asked for an approval that is answered.                       *)
ApprovalFits ==
    /\ turn = "answer" => ~st.awaiting
    /\ turn = "begin" /\ hosted => ~st.awaiting

(* Unless the model was left in the dark, the transcript says what holds,  *)
(* and all of it while the full rules are not due.                         *)
Knows(s) ==
    /\ InPlan(s) => told # "off"
    /\ InPlan(s) /\ s.odd => told = "on"
    /\ ~InPlan(s) /\ ~s.owed => told = "off"
ToldFits ==
    /\ turn \in {"idle", "ending", "down"} => told = kept
    /\ turn # "down" /\ ~quiet => Knows(st)

(* What a restart makes of a state does not depend on the reminder count,  *)
(* which a fold changes without a save.                                    *)
Core(s) == [FromSnapshot(s) EXCEPT !.odd = FALSE]
OnDisk == IF disk = <<>> THEN Fresh ELSE disk[1]
DiskFits ==
    turn # "down" /\ ~raced =>
        /\ \A a \in Threads : saver[a] # <<>> =>
              /\ Core(saver[a][1]) = Core(st)
              /\ \A b \in Threads \ {a} : saver[b] = <<>>
        /\ (\A a \in Threads : saver[a] = <<>>) => Core(OnDisk) = Core(st)
DownFits ==
    turn = "down" =>
        /\ \A a \in Threads : saver[a] = <<>>
        /\ before = <<>> => quiet
        /\ before # <<>> => /\ Core(OnDisk) = Core(before[1])
                            /\ before[1].owed => before[1].phase = "inactive"
                            /\ ~quiet => Knows(before[1]) /\ told # "faint"

PlanInv == TypeOK /\ SnapshotsFit /\ ApprovalFits /\ ToldFits /\ DiskFits /\ DownFits

-----------------------------------------------------------------------------
(* The operators on SessionModeState *)

(* No change of the mode asks for an approval on its own, or makes a state *)
(* that owes a reminder while plan mode is on.                             *)
LEMMA Changes ==
    ASSUME NEW s, Sound(s), NEW inFlight \in BOOLEAN
    PROVE  \A t \in {EnterPlan(s), EnterPending(s), ExitPlan(s), UserExit(s, inFlight),
                     Begun(s), Ended(s), Folded(s), EnterGoal(s)} :
              Sound(t) /\ (t.awaiting => s.awaiting)
<1>1. Sound(EnterPlan(s)) /\ ~EnterPlan(s).awaiting
  BY DEF Sound, Snapshots, EnterPlan, Phases
<1>2. Sound(EnterPending(s)) /\ (EnterPending(s).awaiting => s.awaiting)
  BY DEF Sound, Snapshots, EnterPending, Phases
<1>3. Sound(ExitPlan(s)) /\ ~ExitPlan(s).awaiting
  BY DEF Sound, Snapshots, ExitPlan, Phases
<1>4. Sound(UserExit(s, inFlight)) /\ ~UserExit(s, inFlight).awaiting
  BY DEF Sound, Snapshots, UserExit, Phases
<1>5. Sound(Begun(s)) /\ (Begun(s).awaiting => s.awaiting)
  BY DEF Sound, Snapshots, Begun, Phases
<1>6. Sound(Ended(s)) /\ (Ended(s).awaiting => s.awaiting)
  BY DEF Sound, Snapshots, Ended, ExitPlan, Phases
<1>7. Sound(Folded(s)) /\ (Folded(s).awaiting => s.awaiting)
  BY DEF Sound, Snapshots, Folded
<1>8. Sound(EnterGoal(s)) /\ ~EnterGoal(s).awaiting
  BY DEF Sound, Snapshots, EnterGoal, Phases
<1> QED BY <1>1, <1>2, <1>3, <1>4, <1>5, <1>6, <1>7, <1>8

(* What comes back from a file.                                            *)
LEMMA Restored ==
    ASSUME NEW s \in Snapshots
    PROVE  /\ FromSnapshot(s) \in Snapshots
           /\ FromSnapshot(s).phase = IF s.phase = "active" THEN "active" ELSE "inactive"
           /\ FromSnapshot(s).mode = IF s.phase = "active" THEN "plan"
                                     ELSE IF s.mode = "goal" THEN "goal" ELSE "normal"
           /\ FromSnapshot(s).awaiting <=>
                s.awaiting /\ s.phase \in {"active", "inactive"}
           /\ FromSnapshot(s).owed <=> s.owed \/ s.phase = "exit_pending"
           /\ FromSnapshot(s).odd = s.odd
BY DEF FromSnapshot, Snapshots, Phases

(* Two states that are restored alike.                                     *)
Alike(s, t) ==
    /\ s.phase = "active" <=> t.phase = "active"
    /\ s.phase # "active" => (s.mode = "goal" <=> t.mode = "goal")
    /\ s.awaiting /\ s.phase \in {"active", "inactive"}
       <=> t.awaiting /\ t.phase \in {"active", "inactive"}
    /\ s.owed \/ s.phase = "exit_pending" <=> t.owed \/ t.phase = "exit_pending"

(* Such states, and only such, are equal but for the reminder count.       *)
LEMMA SameCore ==
    ASSUME NEW s \in Snapshots, NEW t \in Snapshots
    PROVE  Core(s) = Core(t) <=> Alike(s, t)
<1> DEFINE u == FromSnapshot(s)
           v == FromSnapshot(t)
<1>1. u \in Snapshots /\ v \in Snapshots BY Restored
<1>2. Alike(s, t) <=> u.phase = v.phase /\ u.mode = v.mode
                      /\ (u.awaiting <=> v.awaiting) /\ (u.owed <=> v.owed)
  BY Restored DEF Alike
<1> HIDE DEF u, v
<1>3. [u EXCEPT !.odd = FALSE] = [v EXCEPT !.odd = FALSE]
      <=> u.phase = v.phase /\ u.mode = v.mode
          /\ (u.awaiting <=> v.awaiting) /\ (u.owed <=> v.owed)
  BY ZenonT(60), <1>1 DEF Snapshots
<1> QED BY <1>2, <1>3 DEF Core, u, v

(* What was restored once is restored to itself, and a fold leaves no mark *)
(* on what a restart finds.                                                *)
LEMMA RestoredAlike ==
    ASSUME NEW s \in Snapshots
    PROVE  /\ Core(FromSnapshot(s)) = Core(s)
           /\ Folded(s) \in Snapshots /\ Core(Folded(s)) = Core(s)
           /\ Fresh \in Snapshots /\ FromSnapshot(Fresh) = Fresh
<1>1. Alike(FromSnapshot(s), s) BY Restored DEF Alike
<1>2. Folded(s) \in Snapshots /\ Alike(Folded(s), s) BY DEF Folded, Alike, Snapshots
<1>3. Fresh \in Snapshots /\ FromSnapshot(Fresh) = Fresh
  BY DEF Fresh, Snapshots, Phases, FromSnapshot
<1> QED BY <1>1, <1>2, <1>3, Restored, SameCore

-----------------------------------------------------------------------------
(* The file *)

(* A save that meets no other leaves the state it saves to be written.     *)
LEMMA SavesFit ==
    ASSUME TypeOK, NEW a \in Threads, NEW s, Sound(s), Saves(a, s)
    PROVE  /\ turn # "down" /\ st' = s /\ before' = before
           /\ disk' \in AtMostOne /\ saver' \in [Threads -> AtMostOne]
           /\ raced' \in BOOLEAN
           /\ DiskFits' /\ (SnapshotsFit /\ hosted' = hosted => SnapshotsFit')
<1>1. saver \in [Threads -> AtMostOne] /\ saver' = [saver EXCEPT ![a] = <<s>>]
      /\ <<s>> \in AtMostOne /\ <<>> \in AtMostOne /\ <<s>> # <<>> /\ <<s>>[1] = s
  BY DEF TypeOK, Saves, Sound, AtMostOne
<1>2. saver' \in [Threads -> AtMostOne] /\ saver'[a] = <<s>>
      /\ \A b \in Threads \ {a} : saver'[b] = saver[b]
  BY <1>1
<1>3. st' = s /\ (raced' = \E b \in Threads \ {a} : saver[b] # <<>>) BY DEF Saves
<1>4. ASSUME ~raced' PROVE \A b \in Threads \ {a} : saver'[b] = <<>>
  BY <1>2, <1>3, <1>4
<1>5. DiskFits'
  <2> SUFFICES ASSUME turn' # "down", ~raced'
               PROVE /\ \A b \in Threads : saver'[b] # <<>> =>
                          /\ Core(saver'[b][1]) = Core(st')
                          /\ \A c \in Threads \ {b} : saver'[c] = <<>>
                     /\ (\A b \in Threads : saver'[b] = <<>>) =>
                          (Core(OnDisk) = Core(st))'
    BY DEF DiskFits
  <2> QED BY <1>1, <1>2, <1>3, <1>4
<1>6. ASSUME SnapshotsFit, hosted' = hosted PROVE SnapshotsFit'
  <2>1. disk' = <<>> BY DEF Saves
  <2>2. \A t : Sound(t)' <=> Sound(t) BY <1>6 DEF Sound
  <2>3. \A b \in Threads : saver'[b] # <<>> => Sound(saver'[b][1])
    BY <1>1, <1>2, <1>6 DEF SnapshotsFit
  <2> QED BY <1>3, <2>1, <2>2, <2>3 DEF SnapshotsFit
<1> QED BY <1>1, <1>2, <1>3, <1>5, <1>6 DEF Saves, Free

(* What touches no file may change no more of the state than a fold does.  *)
LEMMA FilesFit ==
    ASSUME DiskFits, turn # "down", UNCHANGED <<saver, files>>, Core(st)' = Core(st)
    PROVE  DiskFits'
<1>1. disk' = disk /\ saver' = saver /\ raced' = raced /\ OnDisk' = OnDisk
  BY DEF files, OnDisk
<1>2. Core(OnDisk)' = Core(OnDisk)
  <2> DEFINE was == OnDisk
  <2>1. was' = was BY <1>1
  <2> HIDE DEF was
  <2>2. Core(was)' = Core(was) BY <2>1
  <2> QED BY <2>2 DEF was
<1>3. \A a \in Threads : (Core(saver[a][1]))' = Core(saver[a][1])
  BY <1>1
<1> QED BY <1>1, <1>2, <1>3 DEF DiskFits

(* A bound counts down. *)
LEMMA Spent ==
    ASSUME TypeOK, NEW what \in {"turns", "host", "crashes"}, Spend(what)
    PROVE  left' \in [{"turns", "host", "crashes"} -> Nat]
<1>1. left \in [{"turns", "host", "crashes"} -> Nat] BY DEF TypeOK
<1> QED BY <1>1 DEF Spend

-----------------------------------------------------------------------------
(* The invariant *)

(* The first state of a process satisfies the invariant.                   *)
THEOREM PlanStarts == Init => PlanInv
<1> SUFFICES ASSUME Init PROVE PlanInv OBVIOUS
<1>1. Fresh \in Snapshots BY DEF Fresh, Snapshots, Phases
<1>2. TypeOK
  <2> DEFINE none == [a \in Threads |-> <<>>]
             most == [turns |-> MaxTurns, host |-> MaxHostOps, crashes |-> MaxCrashes]
  <2>1. <<>> \in AtMostOne BY DEF AtMostOne
  <2>2. none \in [Threads -> AtMostOne] BY <2>1
  <2>3. most \in [{"turns", "host", "crashes"} -> Nat] BY PlanAssumption
  <2>4. saver = none /\ left = most /\ st = Fresh BY DEF Init
  <2> HIDE DEF none, most
  <2>5. Fresh.phase = "inactive" BY DEF Fresh
  <2>6. hosted \in BOOLEAN BY PlanAssumption DEF Init
  <2> QED BY <1>1, <2>1, <2>2, <2>3, <2>4, <2>5, <2>6 DEF Init, TypeOK
<1>3. Sound(Fresh) /\ ~Fresh.awaiting BY <1>1 DEF Sound, Fresh
<1>4. \A a \in Threads : saver[a] = <<>> BY DEF Init
<1>5. SnapshotsFit BY <1>3, <1>4 DEF Init, SnapshotsFit
<1>6. ApprovalFits /\ ToldFits /\ DownFits
  BY DEF Init, ApprovalFits, ToldFits, DownFits, Knows, InPlan, Fresh
<1>7. DiskFits BY <1>4 DEF Init, DiskFits, OnDisk
<1> QED BY <1>2, <1>5, <1>6, <1>7 DEF PlanInv

(* What is left to show of a step of a running process, once it is known   *)
(* whether it saves.                                                       *)
Lives ==
    /\ hosted' = hosted /\ turn' \in Running \cup {"idle"} /\ resumed' \in BOOLEAN
    /\ flight' \in {"unread", "yes", "no"}
    /\ left' \in [{"turns", "host", "crashes"} -> Nat]
    /\ {told', kept'} \subseteq {"off", "faint", "on"} /\ quiet' \in BOOLEAN

(* A step that saves. *)
LEMMA SaverKeeps ==
    ASSUME PlanInv, NEW a \in Threads, NEW s, Sound(s), Saves(a, s), Lives,
           ApprovalFits', ToldFits'
    PROVE  PlanInv'
<1>1. TypeOK BY DEF PlanInv
<1>2. /\ st' = s /\ before' = before /\ DiskFits'
      /\ disk' \in AtMostOne /\ saver' \in [Threads -> AtMostOne] /\ raced' \in BOOLEAN
  BY <1>1, SavesFit
<1>3. TypeOK' BY <1>1, <1>2 DEF TypeOK, Lives, Sound
<1>4. SnapshotsFit' BY <1>1, SavesFit DEF PlanInv, Lives
<1>5. DownFits' BY DEF DownFits, Lives, Running
<1> QED BY <1>2, <1>3, <1>4, <1>5 DEF PlanInv

(* A step that touches no file. *)
LEMMA ThinkerKeeps ==
    ASSUME PlanInv, turn # "down", UNCHANGED <<saver, files>>, Sound(st'),
           Core(st') = Core(st), Lives, ApprovalFits', ToldFits'
    PROVE  PlanInv'
<1>1. TypeOK BY DEF PlanInv
<1>2. DiskFits' BY FilesFit DEF PlanInv
<1>3. TypeOK' BY <1>1 DEF TypeOK, Lives, Sound, files
<1>4. SnapshotsFit'
  <2>1. SnapshotsFit /\ \A t : Sound(t)' <=> Sound(t) BY DEF PlanInv, Lives, Sound
  <2>2. disk' = disk /\ saver' = saver BY DEF files
  <2> QED BY <2>1, <2>2 DEF SnapshotsFit
<1>5. DownFits' BY DEF DownFits, Lives, Running
<1> QED BY <1>2, <1>3, <1>4, <1>5 DEF PlanInv

(* Every step of Next keeps the invariant.                                 *)
THEOREM PlanStep == PlanInv /\ [Next]_vars => PlanInv'
<1> SUFFICES ASSUME PlanInv, [Next]_vars PROVE PlanInv' OBVIOUS
<1>s. Sound(st) /\ st \in Snapshots BY DEF PlanInv, TypeOK, SnapshotsFit
<1>t. /\ Turn \in Threads /\ Host \in Threads
      /\ hosted \in BOOLEAN /\ turn \in Running \cup {"idle", "down"}
      /\ resumed \in BOOLEAN
      /\ flight \in {"unread", "yes", "no"}
      /\ left \in [{"turns", "host", "crashes"} -> Nat]
      /\ told \in {"off", "faint", "on"} /\ kept \in {"off", "faint", "on"}
      /\ quiet \in BOOLEAN /\ raced \in BOOLEAN
      /\ saver \in [Threads -> AtMostOne] /\ disk \in AtMostOne /\ before \in AtMostOne
  BY DEF PlanInv, TypeOK, Threads
<1>a. ApprovalFits /\ ToldFits /\ TypeOK BY DEF PlanInv
<1>c. \A inFlight \in BOOLEAN :
        \A t \in {EnterPlan(st), EnterPending(st), ExitPlan(st), UserExit(st, inFlight),
                  Begun(st), Ended(st), Folded(st), EnterGoal(st)} :
          Sound(t) /\ (t.awaiting => st.awaiting)
  BY <1>s, Changes
<1>AskExit. ASSUME AskExit, hosted' = hosted PROVE PlanInv'
  <2>1. Saves(Turn, [st EXCEPT !.awaiting = TRUE]) BY <1>AskExit DEF AskExit
  <2>2. Sound([st EXCEPT !.awaiting = TRUE])
    BY <1>s, <1>AskExit DEF Sound, Snapshots, AskExit
  <2>3. st' = [st EXCEPT !.awaiting = TRUE] /\ turn # "down" BY <2>1 DEF Saves, Free
  <2>4. Lives
    BY <1>AskExit, <1>t, <1>a, <2>3 DEF AskExit, Lives, Running, Goes
  <2>5. ApprovalFits'
    BY <1>AskExit, <1>a, <1>t, <1>s, <2>2, <2>3 DEF AskExit, ApprovalFits, Goes
  <2>6. ToldFits'
    BY <1>AskExit, <1>a, <1>t, <1>s, <2>2, <2>3 DEF AskExit, ToldFits, Knows,
       InPlan, Goes
  <2> QED BY <2>1, <2>2, <2>4, <2>5, <2>6, <1>t, SaverKeeps
<1>ExitUnasked. ASSUME ExitUnasked, hosted' = hosted PROVE PlanInv'
  <2>1. Saves(Turn, ExitPlan(st)) BY <1>ExitUnasked DEF ExitUnasked
  <2>2. Sound(ExitPlan(st)) /\ (ExitPlan(st).awaiting => st.awaiting) BY <1>c
  <2>3. st' = ExitPlan(st) /\ turn # "down" BY <2>1 DEF Saves, Free
  <2>4. Lives
    BY <1>ExitUnasked, <1>t, <1>a, <2>3 DEF ExitUnasked, Lives, Says
  <2>5. ApprovalFits'
    BY <1>ExitUnasked, <1>a, <1>t, <1>s, <2>2, <2>3 DEF ExitUnasked, ApprovalFits
  <2>6. ToldFits'
    BY <1>ExitUnasked, <1>a, <1>t, <1>s, <2>2, <2>3 DEF ExitUnasked, ToldFits,
       Knows, InPlan, Says, ExitPlan
  <2> QED BY <2>1, <2>2, <2>4, <2>5, <2>6, <1>t, SaverKeeps
<1>AskEnds. ASSUME AskEnds, hosted' = hosted PROVE PlanInv'
  <2>1. Saves(Turn, [st EXCEPT !.awaiting = FALSE]) BY <1>AskEnds DEF AskEnds
  <2>2. Sound([st EXCEPT !.awaiting = FALSE]) BY <1>s DEF Sound, Snapshots
  <2>3. st' = [st EXCEPT !.awaiting = FALSE] /\ turn # "down"
    BY <2>1 DEF Saves, Free
  <2>4. Lives
    BY <1>AskEnds, <1>t, <1>a, <2>3 DEF AskEnds, Lives, Running, Goes
  <2>5. ApprovalFits'
    BY <1>AskEnds, <1>a, <1>t, <1>s, <2>2, <2>3 DEF ApprovalFits
  <2>6. ToldFits'
    BY <1>AskEnds, <1>a, <1>t, <1>s, <2>2, <2>3 DEF AskEnds, ToldFits, Knows,
       InPlan, Goes
  <2> QED BY <2>1, <2>2, <2>4, <2>5, <2>6, <1>t, SaverKeeps
<1>Exits. ASSUME Exits, hosted' = hosted PROVE PlanInv'
  <2>1. Saves(Turn, ExitPlan(st)) BY <1>Exits DEF Exits
  <2>2. Sound(ExitPlan(st)) /\ (ExitPlan(st).awaiting => st.awaiting) BY <1>c
  <2>3. st' = ExitPlan(st) /\ turn # "down" BY <2>1 DEF Saves, Free
  <2>4. Lives
    BY <1>Exits, <1>t, <1>a, <2>3 DEF Exits, Lives, Running, Goes, Says, Returns
  <2>5. ApprovalFits'
    BY <1>Exits, <1>a, <1>t, <1>s, <2>2, <2>3 DEF Exits, ApprovalFits
  <2>6. ToldFits'
    BY <1>Exits, <1>a, <1>t, <1>s, <2>2, <2>3 DEF Exits, ToldFits, Knows, InPlan,
       Goes, Says, Returns, ExitPlan
  <2> QED BY <2>1, <2>2, <2>4, <2>5, <2>6, <1>t, SaverKeeps
<1>BeginTurn. ASSUME BeginTurn, hosted' = hosted PROVE PlanInv'
  <2>1. Saves(Turn, Begun(st)) BY <1>BeginTurn DEF BeginTurn
  <2>2. Sound(Begun(st)) /\ (Begun(st).awaiting => st.awaiting) BY <1>c
  <2>3. st' = Begun(st) /\ turn # "down" BY <2>1 DEF Saves, Free
  <2>4. Lives
    BY <1>BeginTurn, <1>t, <1>a, <2>3 DEF BeginTurn, Lives, Running, Goes, Reminded
  <2>5. ApprovalFits'
    BY <1>BeginTurn, <1>a, <1>t, <1>s, <2>2, <2>3 DEF BeginTurn, ApprovalFits, Goes
  <2>6. ToldFits'
    BY <1>BeginTurn, <1>a, <1>t, <1>s, <2>2, <2>3 DEF BeginTurn, ToldFits, Knows,
       InPlan, Goes, Sound, Snapshots, Phases, Begun, Reminded
  <2> QED BY <2>1, <2>2, <2>4, <2>5, <2>6, <1>t, SaverKeeps
<1>EnterTool. ASSUME EnterTool, hosted' = hosted PROVE PlanInv'
  <2>1. Saves(Turn, EnterPlan(st)) BY <1>EnterTool DEF EnterTool
  <2>2. Sound(EnterPlan(st)) /\ (EnterPlan(st).awaiting => st.awaiting) BY <1>c
  <2>3. st' = EnterPlan(st) /\ turn # "down" BY <2>1 DEF Saves, Free
  <2>4. Lives
    BY <1>EnterTool, <1>t, <1>a, <2>3 DEF EnterTool, Lives, Says
  <2>5. ApprovalFits'
    BY <1>EnterTool, <1>a, <1>t, <1>s, <2>2, <2>3 DEF EnterTool, ApprovalFits
  <2>6. ToldFits'
    BY <1>EnterTool, <1>a, <1>t, <1>s, <2>2, <2>3 DEF EnterTool, ToldFits, Knows,
       InPlan, Says, EnterPlan
  <2> QED BY <2>1, <2>2, <2>4, <2>5, <2>6, <1>t, SaverKeeps
<1>EndTurn. ASSUME EndTurn, hosted' = hosted PROVE PlanInv'
  <2>1. Saves(Turn, Ended(st)) BY <1>EndTurn DEF EndTurn
  <2>2. Sound(Ended(st)) /\ (Ended(st).awaiting => st.awaiting) BY <1>c
  <2>3. st' = Ended(st) /\ turn # "down" BY <2>1 DEF Saves, Free
  <2>4. Lives
    BY <1>EndTurn, <1>t, <1>a, <2>3 DEF EndTurn, Lives, Goes
  <2>5. ApprovalFits'
    BY <1>EndTurn, <1>a, <1>t, <1>s, <2>2, <2>3 DEF EndTurn, ApprovalFits, Goes
  <2>6. ToldFits'
    BY <1>EndTurn, <1>a, <1>t, <1>s, <2>2, <2>3 DEF EndTurn, ToldFits, Knows,
       InPlan, Sound, Ended
  <2> QED BY <2>1, <2>2, <2>4, <2>5, <2>6, <1>t, SaverKeeps
<1>HostTurnsOn. ASSUME HostTurnsOn, hosted' = hosted PROVE PlanInv'
  <2>1. Saves(Host, EnterPending(st)) BY <1>HostTurnsOn DEF HostTurnsOn
  <2>2. Sound(EnterPending(st)) /\ (EnterPending(st).awaiting => st.awaiting)
    BY <1>c
  <2>3. st' = EnterPending(st) /\ turn # "down" BY <2>1 DEF Saves, Free
  <2>4. Lives
    BY <1>HostTurnsOn, <1>t, <1>a, <2>3, Spent DEF HostTurnsOn, Lives
  <2>5. ApprovalFits'
    BY <1>HostTurnsOn, <1>a, <1>t, <1>s, <2>2, <2>3 DEF HostTurnsOn, ApprovalFits
  <2>6. ToldFits'
    BY <1>HostTurnsOn, <1>a, <1>t, <1>s, <2>2, <2>3 DEF HostTurnsOn, ToldFits,
       Knows, InPlan, Snapshots, EnterPending
  <2> QED BY <2>1, <2>2, <2>4, <2>5, <2>6, <1>t, SaverKeeps
<1>HostTurnsOff. ASSUME HostTurnsOff, hosted' = hosted PROVE PlanInv'
  <2>1. Saves(Host, UserExit(st, flight = "yes"))
    BY <1>HostTurnsOff DEF HostTurnsOff
  <2>2. /\ Sound(UserExit(st, flight = "yes"))
        /\ UserExit(st, flight = "yes").awaiting => st.awaiting
    BY <1>c
  <2>3. st' = UserExit(st, flight = "yes") /\ turn # "down" BY <2>1 DEF Saves, Free
  <2>4. Lives
    BY <1>HostTurnsOff, <1>t, <1>a, <2>3 DEF HostTurnsOff, Lives
  <2>5. ApprovalFits'
    BY <1>HostTurnsOff, <1>a, <1>t, <1>s, <2>2, <2>3 DEF HostTurnsOff, ApprovalFits
  <2>6. ToldFits'
    BY <1>HostTurnsOff, <1>a, <1>t, <1>s, <2>2, <2>3 DEF HostTurnsOff, ToldFits,
       Knows, InPlan, UserExit
  <2> QED BY <2>1, <2>2, <2>4, <2>5, <2>6, <1>t, SaverKeeps
<1>HostExits. ASSUME HostExits, hosted' = hosted PROVE PlanInv'
  <2>1. Saves(Host, ExitPlan(st)) BY <1>HostExits DEF HostExits
  <2>2. Sound(ExitPlan(st)) /\ (ExitPlan(st).awaiting => st.awaiting) BY <1>c
  <2>3. st' = ExitPlan(st) /\ turn # "down" BY <2>1 DEF Saves, Free
  <2>4. Lives
    BY <1>HostExits, <1>t, <1>a, <2>3, Spent DEF HostExits, Lives
  <2>5. ApprovalFits'
    BY <1>HostExits, <1>a, <1>t, <1>s, <2>2, <2>3 DEF HostExits, ApprovalFits
  <2>6. ToldFits'
    BY <1>HostExits, <1>a, <1>t, <1>s, <2>2, <2>3 DEF HostExits, ToldFits, Knows,
       InPlan, Snapshots, ExitPlan
  <2> QED BY <2>1, <2>2, <2>4, <2>5, <2>6, <1>t, SaverKeeps
<1>HostEnters. ASSUME HostEnters, hosted' = hosted PROVE PlanInv'
  <2>1. Saves(Host, EnterPlan(st)) BY <1>HostEnters DEF HostEnters
  <2>2. Sound(EnterPlan(st)) /\ (EnterPlan(st).awaiting => st.awaiting) BY <1>c
  <2>3. st' = EnterPlan(st) /\ turn # "down" BY <2>1 DEF Saves, Free
  <2>4. Lives
    BY <1>HostEnters, <1>t, <1>a, <2>3, Spent DEF HostEnters, Lives
  <2>5. ApprovalFits'
    BY <1>HostEnters, <1>a, <1>t, <1>s, <2>2, <2>3 DEF HostEnters, ApprovalFits
  <2>6. ToldFits'
    BY <1>HostEnters, <1>a, <1>t, <1>s, <2>2, <2>3 DEF HostEnters, ToldFits, Knows,
       InPlan, Snapshots, EnterPlan
  <2> QED BY <2>1, <2>2, <2>4, <2>5, <2>6, <1>t, SaverKeeps
<1>StartTurn. ASSUME StartTurn, hosted' = hosted PROVE PlanInv'
  <2>1. UNCHANGED <<saver, files>> /\ turn # "down"
    BY <1>StartTurn DEF StartTurn
  <2>2. Sound(st') /\ Core(st') = Core(st) /\ (st'.awaiting => st.awaiting)
    BY <1>StartTurn, <1>c, <1>s, RestoredAlike DEF StartTurn
  <2>4. Lives
    BY <1>StartTurn, <1>t, <1>a, <2>1, Spent DEF StartTurn, Lives, Running, Goes
  <2>5. ApprovalFits'
    BY <1>StartTurn, <1>a, <1>t, <1>s, <2>2 DEF StartTurn, ApprovalFits, Goes
  <2>6. ToldFits'
    BY <1>StartTurn, <1>a, <1>t, <1>s, <2>2 DEF StartTurn, ToldFits, Knows
  <2> QED BY <2>1, <2>2, <2>4, <2>5, <2>6, ThinkerKeeps
<1>Compacted. ASSUME Compacted, hosted' = hosted PROVE PlanInv'
  <2>1. UNCHANGED <<saver, files>> /\ turn # "down"
    BY <1>Compacted DEF Compacted
  <2>2. Sound(st') /\ Core(st') = Core(st) /\ (st'.awaiting => st.awaiting)
    BY <1>Compacted, <1>c, <1>s, RestoredAlike DEF Compacted
  <2>4. Lives BY <1>Compacted, <1>t, <1>a, <2>1 DEF Compacted, Lives
  <2>5. ApprovalFits'
    BY <1>Compacted, <1>a, <1>t, <1>s, <2>2 DEF Compacted, ApprovalFits
  <2>6. ToldFits'
    BY <1>Compacted, <1>a, <1>t, <1>s, <2>2 DEF Compacted, ToldFits, Knows, InPlan,
       Snapshots, Folded
  <2> QED BY <2>1, <2>2, <2>4, <2>5, <2>6, ThinkerKeeps
<1>TurnOver. ASSUME TurnOver, hosted' = hosted PROVE PlanInv'
  <2>1. UNCHANGED <<saver, files>> /\ turn # "down"
    BY <1>TurnOver DEF TurnOver
  <2>2. Sound(st') /\ Core(st') = Core(st) /\ (st'.awaiting => st.awaiting)
    BY <1>TurnOver, <1>c, <1>s, RestoredAlike DEF TurnOver
  <2>4. Lives BY <1>TurnOver, <1>t, <1>a, <2>1 DEF TurnOver, Lives, Running, Goes
  <2>5. ApprovalFits'
    BY <1>TurnOver, <1>a, <1>t, <1>s, <2>2 DEF TurnOver, ApprovalFits, Goes
  <2>6. ToldFits'
    BY <1>TurnOver, <1>a, <1>t, <1>s, <2>2 DEF TurnOver, ToldFits, Knows
  <2> QED BY <2>1, <2>2, <2>4, <2>5, <2>6, ThinkerKeeps
<1>HostLooks. ASSUME HostLooks, hosted' = hosted PROVE PlanInv'
  <2>1. UNCHANGED <<saver, files>> /\ turn # "down"
    BY <1>HostLooks DEF HostLooks, Free
  <2>2. Sound(st') /\ Core(st') = Core(st) /\ (st'.awaiting => st.awaiting)
    BY <1>HostLooks, <1>c, <1>s, RestoredAlike DEF HostLooks
  <2>4. Lives
    BY <1>HostLooks, <1>t, <1>a, <2>1, Spent DEF HostLooks, Lives
  <2>5. ApprovalFits'
    BY <1>HostLooks, <1>a, <1>t, <1>s, <2>2 DEF HostLooks, ApprovalFits
  <2>6. ToldFits'
    BY <1>HostLooks, <1>a, <1>t, <1>s, <2>2 DEF HostLooks, ToldFits, Knows
  <2> QED BY <2>1, <2>2, <2>4, <2>5, <2>6, ThinkerKeeps
<1>Parked. ASSUME Parked, hosted' = hosted PROVE PlanInv'
  <2>1. CASE st.awaiting /\ hosted
    <3> DEFINE s == [st EXCEPT !.awaiting = TRUE]
    <3>1. Saves(Turn, s) /\ turn' = "ask" BY <1>Parked, <2>1 DEF Parked, Goes
    <3>2. Sound(s) BY <1>s, <2>1 DEF Snapshots
    <3>3. st' = s BY <3>1 DEF Saves
    <3>4. Lives BY <1>Parked, <1>t, <2>1 DEF Parked, Lives, Running, Goes
    <3>5. ApprovalFits' BY <3>1 DEF ApprovalFits
    <3>6. ToldFits'
      BY <1>Parked, <2>1, <1>a, <1>s, <3>3 DEF Parked, ToldFits, Knows, InPlan, Goes
    <3> HIDE DEF s
    <3> QED BY <3>1, <3>2, <3>4, <3>5, <3>6, <1>t, SaverKeeps
  <2>2. CASE ~(st.awaiting /\ hosted)
    <3>1. UNCHANGED <<saver, files, st>> /\ turn # "down"
      BY <1>Parked, <2>2 DEF Parked
    <3>2. Sound(st') /\ Core(st') = Core(st) BY <3>1, <1>s
    <3>4. Lives BY <1>Parked, <1>t, <2>2 DEF Parked, Lives, Running, Goes
    <3>5. ApprovalFits' BY <1>Parked, <2>2, <3>1 DEF Parked, ApprovalFits, Goes
    <3>6. ToldFits'
      BY <1>Parked, <2>2, <1>a, <1>s, <1>t, <3>1 DEF Parked, ToldFits, Knows, Goes,
         Sound
    <3> QED BY <3>1, <3>2, <3>4, <3>5, <3>6, ThinkerKeeps
  <2> QED BY <2>1, <2>2
<1>Revises. ASSUME Revises, hosted' = hosted PROVE PlanInv'
  <2>4. Lives
    <3>1. turn # "down" BY <1>Revises DEF Revises
    <3> QED BY <1>Revises, <1>t, <3>1 DEF Revises, Lives, Running, Goes, Returns
  <2>1. CASE resumed
    <3> DEFINE s == IF st.phase = "active"
                    THEN [st EXCEPT !.awaiting = FALSE] ELSE EnterPlan(st)
    <3>1. Saves(Turn, s) /\ turn' = "begin"
      BY <1>Revises, <2>1 DEF Revises, Goes, Returns
    <3>2. Sound(s) /\ ~s.awaiting BY <1>s DEF Sound, Snapshots, EnterPlan, Phases
    <3>3. st' = s BY <3>1 DEF Saves
    <3>5. ApprovalFits' BY <3>1, <3>2, <3>3 DEF ApprovalFits
    <3>6. ToldFits'
      BY <1>Revises, <2>1, <1>a, <1>s, <1>t, <3>1, <3>3 DEF Revises, ToldFits,
         Knows, InPlan, EnterPlan
    <3> HIDE DEF s
    <3> QED BY <3>1, <3>2, <2>4, <3>5, <3>6, <1>t, SaverKeeps
  <2>2. CASE ~resumed
    <3>1. UNCHANGED <<saver, files, st>> /\ turn # "down" /\ turn' = "run"
      BY <1>Revises, <2>2 DEF Revises, Goes, Returns
    <3>2. Sound(st') /\ Core(st') = Core(st) BY <3>1, <1>s
    <3>5. ApprovalFits' BY <3>1 DEF ApprovalFits
    <3>6. ToldFits'
      BY <1>Revises, <2>2, <1>a, <1>s, <1>t, <3>1 DEF Revises, ToldFits, Knows,
         InPlan
    <3> QED BY <3>1, <3>2, <2>4, <3>5, <3>6, ThinkerKeeps
  <2> QED BY <2>1, <2>2
<1>GoalTool. ASSUME GoalTool, hosted' = hosted PROVE PlanInv'
  <2>1. PICK s \in {EnterGoal(st), ExitGoal(st)} : Saves(Turn, s)
    BY <1>GoalTool DEF GoalTool
  <2>2. Sound(s) /\ (s.awaiting => st.awaiting)
    BY <1>s DEF Sound, Snapshots, EnterGoal, ExitGoal, Phases
  <2>3. st' = s /\ turn # "down" BY <2>1 DEF Saves, Free
  <2>4. Lives BY <1>GoalTool, <1>t, <2>3 DEF GoalTool, Lives
  <2>5. ApprovalFits' BY <1>GoalTool, <1>a, <2>2, <2>3 DEF GoalTool, ApprovalFits
  <2>6. ToldFits'
    <3>1. s.owed = st.owed /\ s.odd = st.odd
            /\ (s.phase = st.phase \/ s.phase = "inactive")
      BY <1>s DEF EnterGoal, ExitGoal, Snapshots
    <3> QED BY <1>GoalTool, <1>a, <2>3, <3>1 DEF GoalTool, ToldFits, Knows, InPlan
  <2> QED BY <2>1, <2>2, <2>4, <2>5, <2>6, <1>t, SaverKeeps
<1>Saved. ASSUME NEW a \in Threads, Saved(a), hosted' = hosted PROVE PlanInv'
  <2>1. /\ saver' = [saver EXCEPT ![a] = <<>>]
        /\ disk' \in {saver[a]} \cup (IF raced THEN {<<>>} ELSE {})
        /\ turn # "down" /\ saver[a] # <<>>
        /\ UNCHANGED <<left, st, turn, resumed, flight, told, kept, quiet, raced, before>>
    BY <1>Saved DEF Saved
  <2>2. saver' \in [Threads -> AtMostOne] /\ disk' \in AtMostOne
    BY <2>1, <1>t DEF AtMostOne
  <2>3. TypeOK' BY <1>a, <2>1, <2>2, <1>Saved DEF TypeOK
  <2>4. DiskFits'
    <3> SUFFICES ASSUME ~raced PROVE DiskFits' BY <2>1 DEF DiskFits
    <3>1. disk' = saver[a] BY <2>1
    <3>2. Core(saver[a][1]) = Core(st) /\ \A b \in Threads \ {a} : saver[b] = <<>>
      BY <2>1, <1>Saved DEF PlanInv, DiskFits
    <3>3. \A b \in Threads : saver'[b] = <<>> BY <2>1, <3>2, <1>t
    <3>4. OnDisk' = saver[a][1] BY <3>1, <2>1 DEF OnDisk
    <3>5. Core(OnDisk)' = Core(saver[a][1])
      <4> DEFINE now == OnDisk'
      <4>1. now = saver[a][1] BY <3>4
      <4>2. Core(OnDisk)' = Core(now) OBVIOUS
      <4> HIDE DEF now
      <4> QED BY <4>1, <4>2
    <3>6. Core(st)' = Core(st) BY <2>1
    <3> QED BY <3>2, <3>3, <3>5, <3>6 DEF DiskFits
  <2>5. ApprovalFits' /\ DownFits'
    BY <2>1, <1>Saved DEF PlanInv, ApprovalFits, DownFits
  <2>7. SnapshotsFit'
    <3>1. SnapshotsFit /\ \A t : Sound(t)' <=> Sound(t)
      BY <1>Saved DEF PlanInv, Sound
    <3>2. \A b \in Threads : saver'[b] # <<>> => Sound(saver'[b][1])
      BY <2>1, <1>t, <3>1 DEF SnapshotsFit
    <3>3. disk' # <<>> => Sound(disk'[1]) BY <2>1, <3>1 DEF SnapshotsFit
    <3> QED BY <2>1, <3>1, <3>2, <3>3 DEF SnapshotsFit
  <2>6. ToldFits' BY <2>1, <1>a DEF ToldFits, Knows
  <2> QED BY <2>3, <2>4, <2>5, <2>6, <2>7 DEF PlanInv
<1>Crash. ASSUME Crash, hosted' = hosted PROVE PlanInv'
  <2>1. /\ before' = IF ~raced /\ \A a \in Threads : saver[a] = <<>> THEN <<st>> ELSE <<>>
        /\ turn # "down" /\ turn' = "down" /\ st' = Fresh /\ flight' = "unread"
        /\ saver' = [a \in Threads |-> <<>>] /\ told' = kept
        /\ quiet' = (quiet \/ told # kept \/ kept = "faint" \/ before' = <<>>)
        /\ UNCHANGED <<disk, resumed, kept, raced>>
    BY <1>Crash DEF Crash
  <2>2. <<st>> \in AtMostOne /\ <<>> \in AtMostOne /\ <<st>> # <<>> /\ <<st>>[1] = st
    BY <1>s DEF AtMostOne
  <2>3. saver' \in [Threads -> AtMostOne] /\ \A a \in Threads : saver'[a] = <<>>
    BY <2>1, <2>2
  <2>4. before' \in AtMostOne /\ quiet' \in BOOLEAN BY <2>1, <2>2, <1>t
  <2>5. left' \in [{"turns", "host", "crashes"} -> Nat]
    BY <1>Crash, <1>a, Spent DEF Crash
  <2>6. Fresh \in Snapshots /\ Fresh.phase = "inactive" /\ ~Fresh.owed
    BY DEF Fresh, Snapshots, Phases
  <2>7. TypeOK' BY <1>t, <2>1, <2>3, <2>4, <2>5, <2>6, <1>Crash DEF TypeOK
  <2>8. ApprovalFits' /\ ToldFits' /\ DiskFits'
    BY <2>1, <2>6 DEF ApprovalFits, ToldFits, DiskFits
  <2>a. SnapshotsFit'
    <3>1. SnapshotsFit /\ \A t : Sound(t)' <=> Sound(t)
      BY <1>Crash DEF PlanInv, Sound
    <3>2. Sound(Fresh) BY <2>6 DEF Sound, Fresh
    <3> QED BY <2>1, <2>3, <3>1, <3>2 DEF SnapshotsFit
  <2>9. DownFits'
    <3>1. before' = <<>> => quiet' BY <2>1, <1>t
    <3>2. ASSUME before' # <<>>
          PROVE /\ (Core(OnDisk) = Core(before[1]))'
                /\ (before[1].owed => before[1].phase = "inactive")'
                /\ (~quiet => Knows(before[1]) /\ told # "faint")'
      <4>1. before' = <<st>> /\ ~raced /\ \A a \in Threads : saver[a] = <<>>
        BY <2>1, <3>2
      <4>2. Core(OnDisk) = Core(st) BY <4>1, <2>1 DEF PlanInv, DiskFits
      <4>3. Core(OnDisk)' = Core(OnDisk)
        <5> DEFINE was == OnDisk
        <5>1. was' = was BY <2>1 DEF OnDisk
        <5> HIDE DEF was
        <5>2. Core(was)' = Core(was) BY <5>1
        <5> QED BY <5>2 DEF was
      <4>4. Core(before[1])' = Core(st)
        <5> DEFINE now == before'[1]
        <5>1. now = st BY <4>1
        <5>2. Core(before[1])' = Core(now) OBVIOUS
        <5> HIDE DEF now
        <5> QED BY <5>1, <5>2
      <4>5. (before[1].owed => before[1].phase = "inactive")'
        BY <4>1, <2>2, <1>s DEF Sound
      <4>6. ASSUME ~quiet' PROVE Knows(before[1])' /\ told' # "faint"
        <5>1. ~quiet /\ told = kept /\ kept # "faint" BY <2>1, <4>6, <1>t
        <5>2. Knows(st) BY <5>1, <2>1, <1>a DEF ToldFits
        <5> QED BY <5>1, <5>2, <4>1, <2>1, <2>2 DEF Knows
      <4> QED BY <4>2, <4>3, <4>4, <4>5, <4>6
    <3> QED BY <2>3, <3>1, <3>2 DEF DownFits
  <2> QED BY <2>7, <2>8, <2>9, <2>a DEF PlanInv
<1>Restart. ASSUME Restart, hosted' = hosted PROVE PlanInv'
  <2>1. /\ turn = "down" /\ turn' = "idle"
        /\ st' = IF disk = <<>> THEN Fresh ELSE FromSnapshot(disk[1])
        /\ UNCHANGED <<left, disk, resumed, saver, flight, told, kept, quiet, raced,
                       before>>
    BY <1>Restart DEF Restart
  <2>2. Fresh \in Snapshots /\ FromSnapshot(Fresh) = Fresh /\ Sound(Fresh)
    BY <1>s, RestoredAlike DEF Sound, Fresh
  <2>3. Sound(OnDisk) /\ st' = FromSnapshot(OnDisk)
    BY <2>1, <2>2 DEF OnDisk, PlanInv, SnapshotsFit
  <2> DEFINE was == OnDisk
  <2>e. was = OnDisk /\ OnDisk' = was BY <2>1 DEF OnDisk
  <2> HIDE DEF was
  <2>4. Sound(was) /\ st' = FromSnapshot(was) BY <2>3, <2>e
  <2>5. /\ st' \in Snapshots /\ Core(st') = Core(was)
        /\ st'.phase = IF was.phase = "active" THEN "active" ELSE "inactive"
        /\ st'.mode = IF was.phase = "active" THEN "plan"
                      ELSE IF was.mode = "goal" THEN "goal" ELSE "normal"
        /\ st'.awaiting <=> was.awaiting /\ was.phase \in {"active", "inactive"}
        /\ st'.owed <=> was.owed \/ was.phase = "exit_pending"
        /\ st'.odd = was.odd
    BY <2>4, Restored, RestoredAlike DEF Sound
  <2>6. Sound(st') BY <2>4, <2>5 DEF Sound
  <2>7. TypeOK' BY <2>1, <2>6, <1>a, <1>Restart DEF TypeOK, Sound
  <2>8. SnapshotsFit'
    <3>1. SnapshotsFit /\ \A t : Sound(t)' <=> Sound(t)
      BY <1>Restart DEF PlanInv, Sound
    <3> QED BY <2>1, <2>6, <3>1 DEF SnapshotsFit
  <2>9. ApprovalFits' /\ DownFits' BY <2>1 DEF ApprovalFits, DownFits
  <2>a. \A a \in Threads : saver[a] = <<>> BY <2>1 DEF PlanInv, DownFits
  <2>b. DiskFits'
    <3>1. Core(OnDisk)' = Core(was)
      <4> DEFINE now == OnDisk'
      <4>1. now = was BY <2>e
      <4>2. Core(OnDisk)' = Core(now) OBVIOUS
      <4> HIDE DEF now
      <4> QED BY <4>1, <4>2
    <3>2. Core(st)' = Core(st') OBVIOUS
    <3> QED BY <2>1, <2>5, <2>a, <3>1, <3>2 DEF DiskFits
  <2>c. ASSUME ~quiet' PROVE Knows(st)' /\ told' = kept'
    <3>1. ~quiet /\ told = kept BY <2>1, <2>c, <1>a DEF ToldFits
    <3>2. /\ before # <<>> /\ Core(was) = Core(before[1])
          /\ Knows(before[1]) /\ told # "faint"
          /\ before[1].owed => before[1].phase = "inactive"
      BY <2>1, <2>e, <3>1 DEF PlanInv, DownFits
    <3>3. before[1] \in Snapshots /\ was \in Snapshots
      BY <1>t, <3>2, <2>4 DEF AtMostOne, Sound
    <3>4. Alike(was, before[1]) BY <3>2, <3>3, SameCore
    <3> QED
      BY <2>1, <2>5, <3>1, <3>2, <3>3, <3>4, <1>t DEF Alike, Knows, InPlan
  <2>d. ToldFits'
    <3>1. told = kept BY <2>1, <1>a DEF ToldFits
    <3> QED BY <2>1, <2>c, <3>1 DEF ToldFits
  <2> QED BY <2>7, <2>8, <2>9, <2>b, <2>d DEF PlanInv
<1>stutter. ASSUME UNCHANGED vars PROVE PlanInv'
  <2>1. TypeOK' /\ SnapshotsFit' /\ ApprovalFits' /\ ToldFits'
    BY <1>stutter DEF vars, PlanInv, TypeOK, SnapshotsFit, Sound, ApprovalFits,
       ToldFits, Knows
  <2>2. DiskFits' /\ DownFits'
    <3>1. UNCHANGED <<saver, files, told, quiet, st, turn>>
      BY <1>stutter DEF vars, files
    <3> DEFINE was == OnDisk
               met == before[1]
    <3>2. was' = was /\ met' = met BY <3>1 DEF OnDisk, files
    <3>3. /\ Core(st)' = Core(st)
          /\ \A a \in Threads : (Core(saver[a][1]))' = Core(saver[a][1])
      BY <3>1
    <3> HIDE DEF was, met
    <3>4. Core(was)' = Core(was) /\ Core(met)' = Core(met)
      BY <3>2
    <3>5. Knows(before[1])' <=> Knows(before[1]) BY <3>1 DEF Knows, files
    <3> QED
      BY <3>1, <3>3, <3>4, <3>5 DEF PlanInv, DiskFits, DownFits, files, was
  <2> QED BY <2>1, <2>2 DEF PlanInv
<1> QED
  <2> SUFFICES ASSUME Next PROVE PlanInv' BY <1>stutter
  <2>1. hosted' = hosted BY DEF Next
  <2>2. CASE StartTurn \/ Crash \/ Restart
    BY <2>1, <2>2, <1>StartTurn, <1>Crash, <1>Restart
  <2>3. CASE TurnStep
    BY <2>1, <2>3, <1>t, <1>Saved, <1>Parked, <1>AskEnds, <1>Exits, <1>Revises,
       <1>BeginTurn, <1>TurnOver, <1>EndTurn DEF TurnStep
  <2>4. CASE TurnTools
    BY <2>1, <2>4, <1>AskExit, <1>ExitUnasked, <1>EnterTool, <1>GoalTool,
       <1>Compacted DEF TurnTools
  <2>5. CASE HostStep
    BY <2>1, <2>5, <1>t, <1>Saved, <1>HostTurnsOn, <1>HostLooks, <1>HostTurnsOff,
       <1>HostExits, <1>HostEnters DEF HostStep
  <2> QED BY <2>2, <2>3, <2>4, <2>5 DEF Next

(* PlanMode keeps its invariant, with any number of turns, host operations *)
(* and crashes.                                                            *)
THEOREM PlanIsSound == Spec => []PlanInv
<1> QED BY PlanStarts, PlanStep, PTL DEF Spec

(* The model's idea of the mode follows the mode, and a restart loses      *)
(* neither the mode nor the question that is open in it.                   *)
THEOREM PlanSurvives == Spec => PlanIsKept
<1>1. PlanInv /\ [Next]_vars /\ PlanInv'
      => [/\ TypeOK' /\ ModelKnows' /\ RulesReturn
          /\ RestartKeepsPlan /\ ApprovalFirst]_vars
  <2> SUFFICES ASSUME PlanInv, Next, PlanInv'
               PROVE  /\ TypeOK' /\ ModelKnows' /\ RulesReturn
                      /\ RestartKeepsPlan /\ ApprovalFirst
    OBVIOUS
  <2>1. TypeOK' BY DEF PlanInv
  <2>2. ModelKnows' BY DEF PlanInv, ToldFits, ModelKnows, Knows, InPlan
  <2>3. ApprovalFirst BY DEF PlanInv, ApprovalFits, ApprovalFirst
  <2>4. RulesReturn
    <3> SUFFICES ASSUME turn = "begin", turn' = "run", st'.phase = "active", ~quiet
                 PROVE told' = "on"
      BY DEF RulesReturn
    <3>1. BeginTurn
      BY DEF Next, TurnStep, TurnTools, HostStep, StartTurn, Saved, Parked,
         AskEnds, Exits, Revises, TurnOver, EndTurn, AskExit, ExitUnasked,
         EnterTool, GoalTool, Compacted, HostTurnsOn, HostLooks, HostTurnsOff,
         HostExits, HostEnters, Crash, Restart
    <3>2. st' = Begun(st) /\ told' = Reminded(st) BY <3>1 DEF BeginTurn, Saves
    <3>3. Knows(st) /\ Sound(st) BY DEF PlanInv, ToldFits, SnapshotsFit
    <3> QED
      BY <3>2, <3>3 DEF Begun, Reminded, Knows, InPlan
  <2>5. RestartKeepsPlan
    <3> SUFFICES ASSUME Restart, NEW s \in ToSet(before)
                 PROVE /\ st'.phase = "active" <=> s.phase = "active"
                       /\ s.owed \/ s.phase = "exit_pending" => st'.owed
                       /\ s.phase \in {"active", "inactive"} => st'.awaiting = s.awaiting
      BY DEF RestartKeepsPlan
    <3>1. before \in AtMostOne /\ DownFits /\ turn = "down" /\ disk \in AtMostOne
      BY DEF PlanInv, TypeOK, Restart
    <3>2. before # <<>> /\ s = before[1] /\ s \in Snapshots
      BY <3>1 DEF ToSet, AtMostOne
    <3>3. Fresh \in Snapshots /\ FromSnapshot(Fresh) = Fresh BY <3>2, RestoredAlike
    <3>4. OnDisk \in Snapshots /\ st' = FromSnapshot(OnDisk)
      BY <3>1, <3>3 DEF OnDisk, Restart, AtMostOne
    <3>5. Alike(OnDisk, s) BY <3>1, <3>2, <3>4, SameCore DEF DownFits
    <3> DEFINE was == OnDisk
    <3>6. was \in Snapshots /\ st' = FromSnapshot(was) /\ Alike(was, s)
      BY <3>4, <3>5
    <3> HIDE DEF was
    <3> QED BY <3>2, <3>6, Restored DEF Alike, Snapshots
  <2> QED BY <2>1, <2>2, <2>3, <2>4, <2>5
<1> QED BY <1>1, PlanIsSound, PTL DEF Spec, PlanIsKept

-----------------------------------------------------------------------------
(* Requests that are abandoned (ModelRequests). *)

RequestTypes ==
    /\ nth \in [Callers -> Nat]
    /\ at \in [Callers -> {"out", "acquiring", "acquired", "waiting", "answered"}]
    /\ free \in Nat
    /\ owner \in [Ids -> {"none", "running", "answering", "ended"}]
    /\ abandoned \in SUBSET Ids
    /\ box \in [Ids -> Answers \cup {NoAnswer}]
    /\ cancelled \in SUBSET Callers
    /\ got \in [Callers -> Answers \cup {NoAnswer, "cancelled"}]

(* Requests are numbered upwards: the one a caller is in is among Ids, and *)
(* a later one has not begun.                                              *)
CallsAreNumbered ==
    /\ \A c \in Callers : InCall(c) => nth[c] \in 1 .. Requests
    /\ \A r \in Ids : r[2] > nth[r[1]] => owner[r] = "none"

(* Before its caller starts it there is no owner, and an answer is put by  *)
(* an owner whose operation has ended.                                     *)
OwnersAreStarted ==
    /\ \A c \in Callers : at[c] \in {"acquiring", "acquired"} => owner[Id(c)] = "none"
    /\ \A r \in Ids : box[r] # NoAnswer => owner[r] \in {"answering", "ended"}
    /\ \A c \in Callers : at[c] = "answered" => box[Id(c)] # NoAnswer

RequestInv ==
    RequestTypes /\ CallsAreNumbered /\ OwnersAreStarted
      /\ SlotsAreConserved /\ NoForgottenRequest

Holding == {c \in Callers : at[c] = "acquired"}

-----------------------------------------------------------------------------
(* The two sets whose sizes are counted are finite. *)
LEMMA HoldersAreFinite ==
    /\ IsFiniteSet(Holding) /\ Cardinality(Holding) \in Nat
    /\ IsFiniteSet(Live) /\ Cardinality(Live) \in Nat
<1>1. IsFiniteSet(Callers) /\ Requests \in Nat
  BY RequestAssumption
<1>2. IsFiniteSet(1 .. Requests)
  BY <1>1, FS_Interval
<1>3. IsFiniteSet(Ids)
  BY <1>1, <1>2, FS_Product DEF Ids
<1>4. IsFiniteSet(Holding)
  BY <1>1, FS_Subset DEF Holding
<1>5. IsFiniteSet(Live)
  BY <1>3, FS_Subset DEF Live
<1>6. QED
  BY <1>4, <1>5, FS_CardinalityType

(* In terms of the two sets the invariant is one equation, and what it     *)
(* says of the next state follows from how they change.                    *)
LEMMA SlotsAfter ==
    ASSUME free' \in Nat, SlotsAreConserved,
           free' + Cardinality(Holding') + Cardinality(Live')
             = free + Cardinality(Holding) + Cardinality(Live),
           Cardinality(Holding') \in Nat, Cardinality(Live') \in Nat
    PROVE  SlotsAreConserved'
<1>1. free' + Cardinality(Holding') + Cardinality(Live') = Slots
  BY HoldersAreFinite DEF SlotsAreConserved, Holding
<1>2. free' \in 0 .. Slots
  BY <1>1, RequestAssumption
<1>3. QED BY <1>1, <1>2 DEF SlotsAreConserved, Holding

(* A step that moves neither a slot nor a holder keeps the count. *)
LEMMA SlotsUnmoved ==
    ASSUME SlotsAreConserved, free' = free, Holding' = Holding, Live' = Live
    PROVE  SlotsAreConserved'
BY DEF SlotsAreConserved, Holding

-----------------------------------------------------------------------------
(* Initially nobody is in a call and every slot is free. *)
LEMMA RequestInvInit == RequestInit => RequestInv
<1> SUFFICES ASSUME RequestInit PROVE RequestInv
  OBVIOUS
<1> USE RequestAssumption DEF RequestInit
<1>1. RequestTypes
  BY DEF RequestTypes, NoAnswer, Answers
<1>2. CallsAreNumbered /\ OwnersAreStarted
  BY DEF CallsAreNumbered, OwnersAreStarted, InCall
<1>3. NoForgottenRequest
  BY DEF NoForgottenRequest
<1>4. Holding = {} /\ Live = {}
  BY DEF Holding, Live
<1>5. SlotsAreConserved
  BY <1>4, FS_EmptySet DEF SlotsAreConserved, Holding
<1>6. QED BY <1>1, <1>2, <1>3, <1>5 DEF RequestInv

(* A request's identity is one of Ids, and two callers' differ. *)
LEMMA OwnIdentity ==
    ASSUME RequestTypes, CallsAreNumbered, NEW c \in Callers
    PROVE  /\ InCall(c) => Id(c) \in Ids
           /\ Id(c)[1] = c /\ Id(c)[2] = nth[c]
           /\ \A d \in Callers : Id(d) = Id(c) => d = c
BY DEF CallsAreNumbered, Id, Ids

(* Every step of a caller, of an owner or of the turn keeps the invariant. *)
LEMMA RequestInvNext == RequestInv /\ [RequestNext]_requests => RequestInv'
<1> SUFFICES ASSUME RequestInv, [RequestNext]_requests PROVE RequestInv'
  OBVIOUS
<1> USE RequestAssumption DEF RequestInv
<1>0. /\ RequestTypes /\ CallsAreNumbered /\ OwnersAreStarted
      /\ SlotsAreConserved /\ NoForgottenRequest
  OBVIOUS
<1> DEFINE Calls == RequestTypes /\ CallsAreNumbered /\ OwnersAreStarted
<1>1. ASSUME NEW c \in Callers, Begin(c) PROVE RequestInv'
  <2>1. RequestTypes'
    BY <1>1 DEF Begin, RequestTypes
  <2>2. CallsAreNumbered'
    BY <1>1 DEF Begin, RequestTypes, CallsAreNumbered, InCall, Ids
  <2>3. OwnersAreStarted'
    BY <1>1 DEF Begin, RequestTypes, CallsAreNumbered, OwnersAreStarted, Id, Ids
  <2>4. SlotsAreConserved'
    BY <1>1, SlotsUnmoved DEF Begin, RequestTypes, Holding, Live
  <2>5. NoForgottenRequest'
    BY <1>1 DEF Begin, RequestTypes, NoForgottenRequest, Id, Ids
  <2>6. QED BY <2>1, <2>2, <2>3, <2>4, <2>5
<1>2. ASSUME NEW c \in Callers, Acquire(c) PROVE RequestInv'
  <2>1. RequestTypes'
    BY <1>2 DEF Acquire, RequestTypes
  <2>2. CallsAreNumbered' /\ OwnersAreStarted'
    BY <1>2 DEF Acquire, RequestTypes, CallsAreNumbered, OwnersAreStarted, InCall, Id
  <2>3. Holding' = Holding \cup {c} /\ c \notin Holding /\ Live' = Live
    BY <1>2 DEF Acquire, RequestTypes, Holding, Live
  <2>4. Cardinality(Holding') = Cardinality(Holding) + 1
    BY <2>3, HoldersAreFinite, FS_AddElement
  <2>5. SlotsAreConserved'
    <3>1. free' = free - 1 /\ free \in Nat /\ free' \in Nat
      BY <1>2 DEF Acquire, RequestTypes
    <3>2. Cardinality(Holding) \in Nat /\ Cardinality(Live) \in Nat
      BY HoldersAreFinite
    <3>3. QED BY <2>3, <2>4, <3>1, <3>2, SlotsAfter
  <2>6. NoForgottenRequest'
    BY <1>2 DEF Acquire, RequestTypes, NoForgottenRequest, Id, Ids
  <2>7. QED BY <2>1, <2>2, <2>5, <2>6
<1>3. ASSUME NEW c \in Callers, GiveUpAcquiring(c) PROVE RequestInv'
  <2>1. RequestTypes' /\ CallsAreNumbered' /\ OwnersAreStarted'
    BY <1>3 DEF GiveUpAcquiring, Leave, RequestTypes, CallsAreNumbered,
                OwnersAreStarted, InCall, Id
  <2>2. SlotsAreConserved'
    BY <1>3, SlotsUnmoved DEF GiveUpAcquiring, Leave, RequestTypes, Holding, Live
  <2>3. NoForgottenRequest'
    BY <1>3 DEF GiveUpAcquiring, Leave, RequestTypes, NoForgottenRequest, Id, Ids
  <2>4. QED BY <2>1, <2>2, <2>3
<1>4. ASSUME NEW c \in Callers, StartOwner(c) PROVE RequestInv'
  <2>1. Id(c) \in Ids /\ owner[Id(c)] = "none" /\ c \in Holding
    BY <1>4, OwnIdentity DEF StartOwner, OwnersAreStarted, InCall, Holding
  <2>2. Holding' = Holding \ {c}
    BY <1>4 DEF StartOwner, Leave, RequestTypes, Holding
  <2>3. Cardinality(Holding') = Cardinality(Holding) - 1
    BY <2>1, <2>2, HoldersAreFinite, FS_RemoveElement
  <2>4. Cardinality(Holding) \in Nat /\ Cardinality(Live) \in Nat
    BY HoldersAreFinite
  <2>5. Cardinality(Holding') \in Nat
    BY <2>2, HoldersAreFinite, FS_RemoveElement, FS_CardinalityType
  <2>6. CASE at' = [at EXCEPT ![c] = "waiting"] /\ free' = free /\ got' = got
               /\ owner' = [owner EXCEPT ![Id(c)] = "running"]
    <3>1. RequestTypes'
      BY <1>4, <2>1, <2>6 DEF StartOwner, RequestTypes
    <3>2. CallsAreNumbered'
      BY <1>4, <2>1, <2>6, OwnIdentity
      DEF StartOwner, RequestTypes, CallsAreNumbered, InCall
    <3>3. OwnersAreStarted'
      <4>1. \A d \in Callers : Id(d)' = Id(d)
        BY <1>4 DEF StartOwner, Id
      <4>2. box[Id(c)] = NoAnswer
        BY <2>1 DEF OwnersAreStarted
      <4>3. \A d \in Callers : at'[d] \in {"acquiring", "acquired"}
                                 => d # c /\ at[d] = at'[d] /\ Id(d) # Id(c)
        BY <2>6, OwnIdentity DEF RequestTypes
      <4>4. \A d \in Callers : at'[d] = "answered" => at[d] = "answered"
        BY <2>6 DEF RequestTypes
      <4>5. \A d \in Callers : at'[d] \in {"acquiring", "acquired"}
                                 => owner'[Id(d)] = "none"
        BY <2>6, <4>3, OwnIdentity DEF OwnersAreStarted, RequestTypes, InCall
      <4>6. QED
        BY <1>4, <2>6, <4>1, <4>2, <4>4, <4>5
        DEF StartOwner, OwnersAreStarted, RequestTypes
    <3>4. Live' = Live \cup {Id(c)} /\ Id(c) \notin Live
      BY <2>1, <2>6 DEF RequestTypes, Live
    <3>5. Cardinality(Live') = Cardinality(Live) + 1
      BY <3>4, HoldersAreFinite, FS_AddElement
    <3>6. SlotsAreConserved'
      <4>1. free' = free /\ free \in Nat
        BY <2>6 DEF RequestTypes
      <4>2. QED BY <2>3, <2>4, <2>5, <3>5, <4>1, SlotsAfter
    <3>7. NoForgottenRequest'
      BY <1>4, <2>1, <2>6, OwnIdentity
      DEF StartOwner, RequestTypes, NoForgottenRequest, Id, Ids
    <3>8. QED BY <3>1, <3>2, <3>3, <3>6, <3>7
  <2>7. CASE Leave(c, "error") /\ free' = free + 1 /\ owner' = owner
    <3>1. RequestTypes'
      BY <1>4, <2>7 DEF StartOwner, Leave, RequestTypes, Answers
    <3>2. CallsAreNumbered' /\ OwnersAreStarted'
      BY <1>4, <2>7 DEF StartOwner, Leave, RequestTypes, CallsAreNumbered,
                        OwnersAreStarted, InCall, Id
    <3>3. SlotsAreConserved'
      <4>1. free' = free + 1 /\ free \in Nat /\ Live' = Live
        BY <2>7 DEF RequestTypes, Live
      <4>2. QED BY <2>3, <2>4, <2>5, <4>1, SlotsAfter
    <3>4. NoForgottenRequest'
      BY <1>4, <2>7 DEF StartOwner, Leave, RequestTypes, NoForgottenRequest, Id, Ids
    <3>5. QED BY <3>1, <3>2, <3>3, <3>4
  <2>8. QED BY <1>4, <2>6, <2>7 DEF StartOwner
<1>5. ASSUME NEW c \in Callers, CancelledAcquired(c) PROVE RequestInv'
  <2>1. RequestTypes' /\ CallsAreNumbered' /\ OwnersAreStarted'
    BY <1>5 DEF CancelledAcquired, Leave, RequestTypes, CallsAreNumbered,
                OwnersAreStarted, InCall, Id
  <2>2. Holding' = Holding \ {c} /\ c \in Holding /\ Live' = Live
    BY <1>5 DEF CancelledAcquired, Leave, RequestTypes, Holding, Live
  <2>3. Cardinality(Holding') = Cardinality(Holding) - 1
    BY <2>2, HoldersAreFinite, FS_RemoveElement
  <2>4. SlotsAreConserved'
    <3>1. free' = free + 1 /\ free \in Nat
      BY <1>5 DEF CancelledAcquired, RequestTypes
    <3>2. Cardinality(Holding) \in Nat /\ Cardinality(Live) \in Nat
      BY HoldersAreFinite
    <3>3. Cardinality(Holding') \in Nat
      BY <2>2, HoldersAreFinite, FS_RemoveElement, FS_CardinalityType
    <3>4. QED BY <2>2, <2>3, <3>1, <3>2, <3>3, SlotsAfter
  <2>5. NoForgottenRequest'
    BY <1>5 DEF CancelledAcquired, Leave, RequestTypes, NoForgottenRequest, Id, Ids
  <2>6. QED BY <2>1, <2>4, <2>5
<1>6. ASSUME NEW c \in Callers, TakeAnswer(c) PROVE RequestInv'
  <2>1. RequestTypes' /\ CallsAreNumbered' /\ OwnersAreStarted'
    BY <1>6 DEF TakeAnswer, RequestTypes, CallsAreNumbered, OwnersAreStarted,
                InCall, Id
  <2>2. SlotsAreConserved'
    BY <1>6, SlotsUnmoved DEF TakeAnswer, RequestTypes, Holding, Live
  <2>3. NoForgottenRequest'
    BY <1>6, OwnIdentity
    DEF TakeAnswer, RequestTypes, OwnersAreStarted, NoForgottenRequest, Id, Ids
  <2>4. QED BY <2>1, <2>2, <2>3
<1>7. ASSUME NEW c \in Callers, Return(c) PROVE RequestInv'
  <2>1. Id(c) \in Ids /\ box[Id(c)] \in Answers
    BY <1>7, OwnIdentity DEF Return, OwnersAreStarted, RequestTypes, InCall
  <2>2. RequestTypes' /\ CallsAreNumbered' /\ OwnersAreStarted'
    BY <1>7, <2>1 DEF Return, Leave, RequestTypes, CallsAreNumbered,
                OwnersAreStarted, InCall, Id
  <2>3. SlotsAreConserved'
    BY <1>7, SlotsUnmoved DEF Return, Leave, RequestTypes, Holding, Live
  <2>4. NoForgottenRequest'
    BY <1>7 DEF Return, Leave, RequestTypes, NoForgottenRequest, Id, Ids
  <2>5. QED BY <2>2, <2>3, <2>4
<1>8. ASSUME NEW c \in Callers, Abandon(c) PROVE RequestInv'
  <2>1. Id(c) \in Ids
    BY <1>8, OwnIdentity DEF Abandon, InCall
  <2>2. RequestTypes' /\ CallsAreNumbered' /\ OwnersAreStarted'
    BY <1>8, <2>1 DEF Abandon, Leave, RequestTypes, CallsAreNumbered,
                OwnersAreStarted, InCall, Id
  <2>3. SlotsAreConserved'
    BY <1>8, SlotsUnmoved DEF Abandon, Leave, RequestTypes, Holding, Live
  <2>4. NoForgottenRequest'
    BY <1>8 DEF Abandon, Leave, RequestTypes, NoForgottenRequest, Id, Ids
  <2>5. QED BY <2>2, <2>3, <2>4
<1>9. ASSUME NEW r \in Ids, OperationEnds(r) PROVE RequestInv'
  <2>1. RequestTypes' /\ CallsAreNumbered' /\ OwnersAreStarted'
    <3>1. RequestTypes' /\ CallsAreNumbered'
      BY <1>9 DEF OperationEnds, RequestTypes, CallsAreNumbered, InCall
    <3>2. \A q \in Ids : q # r => owner'[q] = owner[q] /\ box'[q] = box[q]
      BY <1>9 DEF OperationEnds, RequestTypes
    <3>3. owner[r] = "running" /\ owner'[r] = "answering"
      BY <1>9 DEF OperationEnds, RequestTypes
    <3>4. \A q \in Ids : box[q] # NoAnswer => q # r
      BY <3>3 DEF OwnersAreStarted
    <3>5. \A q \in Ids : owner[q] = "none" => q # r
      BY <3>3
    <3>6. \A c \in Callers : /\ InCall(c) => Id(c) \in Ids
                             /\ at'[c] = at[c] /\ Id(c)' = Id(c)
      BY <1>9, OwnIdentity DEF OperationEnds, Id
    <3>7. \A c \in Callers :
             at'[c] \in {"acquiring", "acquired"} => owner'[Id(c)'] = "none"
      BY <3>2, <3>5, <3>6 DEF OwnersAreStarted, InCall
    <3>8. \A c \in Callers : at'[c] = "answered" => box'[Id(c)'] # NoAnswer
      BY <3>2, <3>4, <3>6 DEF OwnersAreStarted, InCall
    <3>9. \A q \in Ids : box'[q] # NoAnswer => owner'[q] \in {"answering", "ended"}
      BY <3>2, <3>3 DEF OwnersAreStarted
    <3>10. QED BY <3>1, <3>7, <3>8, <3>9 DEF OwnersAreStarted, Id
  <2>2. SlotsAreConserved'
    BY <1>9, SlotsUnmoved DEF OperationEnds, RequestTypes, Holding, Live
  <2>3. NoForgottenRequest'
    BY <1>9 DEF OperationEnds, RequestTypes, NoForgottenRequest, Id
  <2>4. QED BY <2>1, <2>2, <2>3
<1>10. ASSUME NEW r \in Ids, OwnerEnds(r) PROVE RequestInv'
  <2>1. RequestTypes' /\ CallsAreNumbered' /\ OwnersAreStarted'
    BY <1>10 DEF OwnerEnds, RequestTypes, CallsAreNumbered, OwnersAreStarted,
                 InCall, Id
  <2>2. Live' = Live \ {r} /\ r \in Live /\ Holding' = Holding
    BY <1>10 DEF OwnerEnds, RequestTypes, Holding, Live
  <2>3. Cardinality(Live') = Cardinality(Live) - 1
    BY <2>2, HoldersAreFinite, FS_RemoveElement
  <2>4. SlotsAreConserved'
    <3>1. free' = free + 1 /\ free \in Nat
      BY <1>10 DEF OwnerEnds, RequestTypes
    <3>2. Cardinality(Holding) \in Nat /\ Cardinality(Live) \in Nat
      BY HoldersAreFinite
    <3>3. Cardinality(Live') \in Nat
      BY <2>2, HoldersAreFinite, FS_RemoveElement, FS_CardinalityType
    <3>4. QED BY <2>2, <2>3, <3>1, <3>2, <3>3, SlotsAfter
  <2>5. NoForgottenRequest'
    BY <1>10 DEF OwnerEnds, RequestTypes, NoForgottenRequest, Id
  <2>6. QED BY <2>1, <2>4, <2>5
<1>11. ASSUME NEW c \in Callers, CancelTurn(c) \/ NextTurn(c) PROVE RequestInv'
  <2>1. UNCHANGED <<nth, at, free, owner, abandoned, box, got>>
        /\ cancelled' \in SUBSET Callers
    BY <1>11 DEF CancelTurn, NextTurn, RequestTypes
  <2>2. RequestTypes' /\ CallsAreNumbered' /\ OwnersAreStarted'
    BY <2>1 DEF RequestTypes, CallsAreNumbered, OwnersAreStarted, InCall, Id
  <2>3. SlotsAreConserved' /\ NoForgottenRequest'
    BY <2>1 DEF SlotsAreConserved, NoForgottenRequest, Live, Id
  <2>4. QED BY <2>2, <2>3
<1>12. CASE UNCHANGED requests
  BY <1>12 DEF requests, RequestTypes, CallsAreNumbered, OwnersAreStarted,
               InCall, Id, SlotsAreConserved, NoForgottenRequest, Live
<1>13. QED
  BY <1>1, <1>2, <1>3, <1>4, <1>5, <1>6, <1>7, <1>8, <1>9, <1>10, <1>11, <1>12
  DEF RequestNext, CallerStep

-----------------------------------------------------------------------------
(* A cancelled caller leaves with the cancellation: the two ways out with  *)
(* an answer or an error test the signal first.                            *)
LEMMA CancelledGetNothing == RequestInv /\ [RequestNext]_requests => NoAnswerAfterCancel
<1> SUFFICES ASSUME RequestTypes, [RequestNext]_requests,
                    NEW c \in cancelled, InCall(c), ~InCall(c)'
             PROVE  got'[c] = "cancelled"
  BY DEF RequestInv, NoAnswerAfterCancel
<1>1. c \in Callers
  BY DEF RequestTypes
<1>2. at[c] # "out" /\ at'[c] \notin {"acquiring", "acquired", "waiting", "answered"}
  BY DEF InCall
<1>3. ASSUME NEW d \in Callers, GiveUpAcquiring(d) \/ CancelledAcquired(d) \/ Abandon(d)
      PROVE  got'[c] = "cancelled"
  BY <1>1, <1>2, <1>3
  DEF GiveUpAcquiring, CancelledAcquired, Abandon, Leave, RequestTypes, InCall
<1>4. ASSUME NEW d \in Callers, StartOwner(d) \/ Return(d)
      PROVE  got'[c] = "cancelled"
  BY <1>1, <1>2, <1>4 DEF StartOwner, Return, Leave, RequestTypes, InCall
<1>5. ASSUME NEW d \in Callers, \/ Begin(d) \/ Acquire(d) \/ TakeAnswer(d)
                                \/ CancelTurn(d) \/ NextTurn(d)
      PROVE  FALSE
  BY <1>1, <1>2, <1>5
  DEF Begin, Acquire, TakeAnswer, CancelTurn, NextTurn, RequestTypes, InCall
<1>6. ASSUME NEW r \in Ids, OperationEnds(r) \/ OwnerEnds(r) PROVE FALSE
  BY <1>2, <1>6 DEF OperationEnds, OwnerEnds, InCall
<1>7. CASE UNCHANGED requests
  BY <1>2, <1>7 DEF requests, InCall
<1>8. QED BY <1>3, <1>4, <1>5, <1>6, <1>7 DEF RequestNext, CallerStep

(* The three rules about cancelled requests hold in every behaviour, for   *)
(* every number of callers and slots.                                      *)
THEOREM CancellationIsClean == RequestSpec => CancelIsClean
<1>1. RequestInv /\ [RequestNext]_requests
        => [SlotsAreConserved' /\ NoForgottenRequest' /\ NoAnswerAfterCancel]_requests
  BY RequestInvNext, CancelledGetNothing DEF RequestInv
<1>2. QED
  BY <1>1, RequestInvInit, RequestInvNext, PTL DEF RequestSpec, CancelIsClean

-----------------------------------------------------------------------------
(* A completion of the app server (CodexTurn). *)

(* A completion by itself, without fairness. *)
CodexSpec == CodexInit /\ [][CodexNext]_codex

(* What the server says of a turn: text, tools, a mark that it was         *)
(* aborted, its status.                                                    *)
Words == [kind : {"text", "tool", "aborted"}, n : Nat]
Ends == [kind : {"over"}, status : {"completed", "failed", "interrupted"}]
Note == Words \cup Ends
Statuses == {"completed", "failed", "interrupted"}
(* What the variables hold. *)
CodexTypes ==
    /\ process \in {"none", "up", "dead"} /\ reply \in {Silent, "ok", "error"}
    /\ served \in {"none", "running"} \cup Statuses
    /\ step \in {"off", "call", "waiting", "loop", "ended", "closing", "done"}
    /\ call \in ToSet(Startup) \cup {"turn/interrupt"}
    /\ said \in Nat /\ seen \in Nat /\ lastText \in Nat /\ asked \in Nat
    /\ notes \in Seq(Note) /\ asks \in Seq(Nat) /\ answered \in Seq(Nat)
    /\ over \in BOOLEAN /\ completed \in BOOLEAN /\ interrupted \in BOOLEAN
    /\ failed \in BOOLEAN /\ stopped \in BOOLEAN /\ late \in BOOLEAN
    /\ afterTool \in BOOLEAN
    /\ result \in {Silent, "answer", "cancelled", "error", "raised"}

(* Until the turn is asked for there is none. *)
TurnIsAskedFor ==
    /\ call # "turn/interrupt"
    /\ step = "waiting" => call # "turn/start" \/ reply = Silent
    /\ step \in {"off", "call", "waiting"}
    => served = "none"
Started == /\ (reply # Silent => step = "waiting")
           /\ (served = "none" => notes = <<>> /\ said = 0)

(* A status is the last thing a turn says. *)
StatusIsLast ==
    \A i \in DOMAIN notes : notes[i].kind = "over" =>
      i = Len(notes) /\ served = notes[i].status

(* What is not read yet ends in the server's last text. *)
IsText(m) == m.kind \in {"text", "aborted"}
TextIsWaiting ==
    /\ \A i \in DOMAIN notes :
         IsText(notes[i]) /\ (\A j \in DOMAIN notes : j > i => ~IsText(notes[j]))
          => notes[i].n = lastText
    /\ (\A i \in DOMAIN notes : ~IsText(notes[i])) => seen = lastText
CountsFit ==
    /\ seen <= said /\ lastText <= said
    /\ \A i \in DOMAIN notes : IsText(notes[i]) => notes[i].n <= said
    /\ Len(notes) <= said + (IF served \in Statuses THEN 1 ELSE 0)

CompletedIsEarned ==
    completed => /\ over /\ step \in {"loop", "ended", "closing", "done"}
                 /\ served = "completed" /\ notes = <<>>

(* Requests of the server are answered in the order it asked. *)
AsksAreAnswered == answered \o asks = [i \in 1 .. asked |-> i]
(* A completion has a result once it is over, and no process before it     *)
(* starts.                                                                 *)
ResultFits ==
    /\ result = Silent <=> step \notin {"closing", "done"}
    /\ result = "answer" => completed
    /\ step = "off" => process = "none"

(* The inductive invariant. *)
CodexInv ==
    /\ CodexTypes /\ TurnIsAskedFor /\ Started /\ StatusIsLast /\ TextIsWaiting
    /\ CountsFit
    /\ CompletedIsEarned /\ AsksAreAnswered /\ ResultFits /\ NoServerIsLeft

(* The parts about what was said, and the others. *)
Messages == StatusIsLast /\ TextIsWaiting /\ CountsFit
Duties == TurnIsAskedFor /\ Started /\ CompletedIsEarned /\ ResultFits /\ NoServerIsLeft

-----------------------------------------------------------------------------
(* What LastText finds is the text that no other one follows. *)
LEMMA LastTextIs ==
    ASSUME NEW q \in Seq(Note), seen \in Nat
    PROVE  \/ (\A i \in DOMAIN q : ~IsText(q[i])) /\ LastText(q) = seen
           \/ \E i \in DOMAIN q : /\ IsText(q[i]) /\ LastText(q) = q[i].n
                                  /\ \A j \in DOMAIN q : j > i => ~IsText(q[j])
<1> DEFINE T == TextsIn(q)
<1>1. T = {i \in DOMAIN q : IsText(q[i])} BY DEF TextsIn, IsText
<1>2. CASE T = {} BY <1>1, <1>2 DEF LastText
<1>3. CASE T # {}
  <2>1. DOMAIN q = 1 .. Len(q) /\ Len(q) \in Nat OBVIOUS
  <2> DEFINE U == {Len(q) - i : i \in T}
  <2>2. U \subseteq Nat /\ U # {} BY <1>1, <1>3, <2>1
  <2>3. PICK u \in U : \A v \in U : ~(<<v, u>> \in OpToRel(<, Nat))
    BY <2>2, NatLessThanWellFounded, WFMin
  <2>4. PICK m \in T : u = Len(q) - m OBVIOUS
  <2>5. \A j \in T : j <= m
    <3> SUFFICES ASSUME NEW j \in T PROVE j <= m OBVIOUS
    <3>1. Len(q) - j \in U /\ Len(q) - j \in Nat /\ u \in Nat BY <2>2
    <3>2. ~(Len(q) - j < u) BY <2>3, <3>1 DEF OpToRel
    <3>3. j \in Nat /\ m \in Nat BY <1>1, <2>1
    <3> QED BY <2>1, <2>4, <3>2, <3>3
  <2>6. Max(T) = m
    <3>1. Max(T) \in T /\ \A y \in T : Max(T) >= y BY <2>5 DEF Max
    <3>2. Max(T) <= m /\ m <= Max(T) BY <2>5, <3>1
    <3>3. Max(T) \in Nat /\ m \in Nat BY <1>1, <2>1, <3>1
    <3> QED BY <3>2, <3>3
  <2>7. LastText(q) = q[m].n BY <1>3, <2>6 DEF LastText
  <2>8. m \in DOMAIN q /\ IsText(q[m]) BY <1>1
  <2>9. \A j \in DOMAIN q : j > m => ~IsText(q[j])
    <3> SUFFICES ASSUME NEW j \in DOMAIN q, j > m, IsText(q[j]) PROVE FALSE OBVIOUS
    <3>1. j \in T BY <1>1
    <3> QED BY <2>1, <2>5, <2>8, <3>1
  <2> QED BY <2>7, <2>8, <2>9
<1> QED BY <1>2, <1>3

(* Reading the first notes, or none, leaves what is said of the others. *)
LEMMA ReadingOn ==
    ASSUME CodexTypes, Messages, NEW k \in 0 .. Len(notes), served' = served,
      said' = said,
           lastText' = lastText, seen' = LastText(SubSeq(notes, 1, k)),
           notes' = SubSeq(notes, k + 1, Len(notes))
    PROVE  Messages' /\ notes' \in Seq(Note) /\ seen' \in Nat
<1> DEFINE q == SubSeq(notes, 1, k)
           L == Len(notes)
<1>1. L \in Nat /\ k \in Nat /\ k <= L /\ notes \in Seq(Note) BY DEF CodexTypes
<1>2. q \in Seq(Note) /\ Len(q) = k /\ \A i \in 1 .. k : q[i] = notes[i]
  BY <1>1, SubSeqProperties
<1>3. /\ notes' \in Seq(Note) /\ Len(notes') = L - k
      /\ \A i \in 1 .. L - k : notes'[i] = notes[k + i]
  <2>1. k + 1 \in 1 .. L + 1 BY <1>1
  <2>2. CASE k = L
    <3>1. k + 1 > L BY <1>1, <2>2
    <3>2. notes' = << >> BY <1>1, <3>1, SubSeqEmpty
    <3> QED BY <1>1, <2>2, <3>2
  <2>3. CASE k < L
    <3>1. k + 1 \in 1 .. L /\ L \in 1 .. L BY <1>1, <2>3
    <3> QED BY <1>1, <3>1, SubSeqProperties
  <2> QED BY <1>1, <2>2, <2>3
<1>4. DOMAIN notes = 1 .. L /\ DOMAIN notes' = 1 .. L - k /\ DOMAIN q = 1 .. k
  BY <1>1, <1>2, <1>3
<1>5. \/ (\A i \in 1 .. k : ~IsText(q[i])) /\ seen' = seen
      \/ \E i \in 1 .. k : /\ IsText(q[i]) /\ seen' = q[i].n
                           /\ \A j \in 1 .. k : j > i => ~IsText(q[j])
  <2>1. seen \in Nat BY DEF CodexTypes
  <2> HIDE DEF q
  <2> QED BY <1>2, <1>4, <2>1, LastTextIs DEF q
<1> HIDE DEF q
<1>6. StatusIsLast'
  <2> SUFFICES ASSUME NEW i \in 1 .. L - k, notes'[i].kind = "over"
               PROVE  i = Len(notes') /\ served = notes'[i].status
    BY <1>4 DEF StatusIsLast
  <2>1. k + i \in 1 .. L BY <1>1
  <2>2. k + i = L /\ served = notes[k + i].status
    BY <1>3, <1>4, <2>1 DEF Messages, StatusIsLast
  <2> QED BY <1>1, <1>3, <2>2
<1>7. \A i \in 1 .. L : IsText(notes[i]) => notes[i].n <= said /\ notes[i].n \in Nat
  <2> SUFFICES ASSUME NEW i \in 1 .. L, IsText(notes[i])
               PROVE  notes[i].n <= said /\ notes[i].n \in Nat
    OBVIOUS
  <2>1. notes[i] \in Note BY <1>1
  <2>2. notes[i] \in Words BY <2>1 DEF Note, Ends, IsText
  <2> QED BY <1>4, <2>2 DEF Messages, CountsFit, Words
<1>8. seen' \in Nat /\ seen' <= said
  <2>1. seen \in Nat /\ seen <= said BY DEF CodexTypes, Messages, CountsFit
  <2>2. ASSUME NEW i \in 1 .. k, IsText(q[i]), seen' = q[i].n PROVE seen' \in Nat
          /\ seen' <= said
    <3>1. i \in 1 .. L /\ q[i] = notes[i] BY <1>1, <1>2
    <3> QED BY <1>7, <2>2, <3>1
  <2> QED BY <1>5, <2>1, <2>2
<1>9. CountsFit'
  <2>1. \A i \in 1 .. L - k : IsText(notes'[i]) => notes'[i].n <= said
    <3> SUFFICES ASSUME NEW i \in 1 .. L - k, IsText(notes'[i]) PROVE notes'[i].n <= said
      OBVIOUS
    <3>1. k + i \in 1 .. L BY <1>1
    <3> QED BY <1>3, <1>7, <3>1
  <2>2. Len(notes') <= said + (IF served \in Statuses THEN 1 ELSE 0)
    <3> HIDE DEF L
    <3>0. Len(notes) = L BY DEF L
    <3> QED BY <1>1, <1>3, <3>0 DEF Messages, CountsFit, CodexTypes
  <2>3. lastText <= said BY DEF Messages, CountsFit
  <2> QED BY <1>4, <1>8, <2>1, <2>2, <2>3 DEF CountsFit
<1>10. \A i \in 1 .. L - k :
         IsText(notes'[i]) /\ (\A j \in 1 .. L - k : j > i => ~IsText(notes'[j]))
           => notes'[i].n = lastText
  <2> SUFFICES ASSUME NEW i \in 1 .. L - k, IsText(notes'[i]),
                      \A j \in 1 .. L - k : j > i => ~IsText(notes'[j])
               PROVE  notes'[i].n = lastText
    OBVIOUS
  <2>1. k + i \in 1 .. L /\ notes'[i] = notes[k + i] BY <1>1, <1>3
  <2>2. \A j \in 1 .. L : j > k + i => ~IsText(notes[j])
    <3> SUFFICES ASSUME NEW j \in 1 .. L, j > k + i PROVE ~IsText(notes[j]) OBVIOUS
    <3>1. j - k \in 1 .. L - k /\ j - k > i /\ k + (j - k) = j BY <1>1
    <3> QED BY <1>3, <3>1
  <2> QED BY <1>4, <2>1, <2>2 DEF Messages, TextIsWaiting
<1>11. (\A i \in 1 .. L - k : ~IsText(notes'[i])) => seen' = lastText
  <2> SUFFICES ASSUME \A i \in 1 .. L - k : ~IsText(notes'[i]) PROVE seen' = lastText
    OBVIOUS
  <2>1. \A j \in 1 .. L : j > k => ~IsText(notes[j])
    <3> SUFFICES ASSUME NEW j \in 1 .. L, j > k PROVE ~IsText(notes[j]) OBVIOUS
    <3>1. j - k \in 1 .. L - k /\ k + (j - k) = j BY <1>1
    <3> QED BY <1>3, <3>1
  <2>2. CASE (\A i \in 1 .. k : ~IsText(q[i])) /\ seen' = seen
    <3>1. \A j \in 1 .. L : ~IsText(notes[j])
      <4> SUFFICES ASSUME NEW j \in 1 .. L PROVE ~IsText(notes[j]) OBVIOUS
      <4> QED BY <1>1, <1>2, <2>1, <2>2
    <3> QED BY <1>4, <2>2, <3>1 DEF Messages, TextIsWaiting
  <2>3. ASSUME NEW i \in 1 .. k, IsText(q[i]), seen' = q[i].n,
               \A j \in 1 .. k : j > i => ~IsText(q[j])
        PROVE  seen' = lastText
    <3>1. i \in 1 .. L /\ q[i] = notes[i] BY <1>1, <1>2
    <3>2. \A j \in 1 .. L : j > i => ~IsText(notes[j])
      <4> SUFFICES ASSUME NEW j \in 1 .. L, j > i PROVE ~IsText(notes[j]) OBVIOUS
      <4> QED BY <1>1, <1>2, <2>1, <2>3
    <3> QED BY <1>4, <2>3, <3>1, <3>2 DEF Messages, TextIsWaiting
  <2> QED BY <1>5, <2>2, <2>3
<1>12. TextIsWaiting' BY <1>4, <1>10, <1>11 DEF TextIsWaiting
<1> QED BY <1>3, <1>6, <1>8, <1>9, <1>12 DEF Messages

(* So does what the server adds. *)
LEMMA SayingMore ==
    ASSUME CodexTypes, Messages, served = "running", NEW m \in Note,
           notes' = Append(notes, m), seen' = seen,
           \/ m.kind = "over" /\ served' = m.status /\ said' = said
                /\ lastText' = lastText
           \/ m.kind # "over" /\ served' = served /\ said' = said + 1 /\ m.n = said'
              /\ lastText' = (IF m.kind = "tool" THEN lastText ELSE said')
    PROVE  Messages' /\ notes' \in Seq(Note)
<1> DEFINE L == Len(notes)
<1>1. /\ L \in Nat /\ notes \in Seq(Note) /\ DOMAIN notes = 1 .. L
      /\ notes' \in Seq(Note) /\ Len(notes') = L + 1 /\ DOMAIN notes' = 1 .. L + 1
      /\ notes'[L + 1] = m /\ \A i \in 1 .. L : notes'[i] = notes[i]
  BY AppendProperties DEF CodexTypes
<1>2. \A i \in 1 .. L + 1 : i \in 1 .. L \/ i = L + 1 BY <1>1
<1>3. \A i \in 1 .. L : notes[i].kind # "over"
  <2> SUFFICES ASSUME NEW i \in 1 .. L, notes[i].kind = "over" PROVE FALSE OBVIOUS
  <2>1. served = notes[i].status BY <1>1 DEF Messages, StatusIsLast
  <2>2. notes[i] \in Note BY <1>1
  <2>3. notes[i] \in Ends BY <2>2 DEF Note, Words
  <2> QED BY <2>1, <2>3 DEF Ends
<1>4. StatusIsLast'
  BY <1>1, <1>2, <1>3 DEF StatusIsLast
<1>5. TextIsWaiting'
  <2>1. CASE IsText(m)
    <3>1. lastText' = m.n BY <2>1 DEF IsText
    <3>2. \A i \in 1 .. L : L + 1 > i BY <1>1
    <3> QED BY <1>1, <1>2, <2>1, <3>1, <3>2 DEF TextIsWaiting
  <2>2. CASE ~IsText(m)
    <3>1. lastText' = lastText
      BY <2>2 DEF IsText, Note, Words, Ends
    <3> QED BY <1>1, <1>2, <2>2, <3>1 DEF TextIsWaiting, Messages
  <2> QED BY <2>1, <2>2
<1>6. CountsFit'
  <2>1. seen' <= said' /\ lastText' <= said' /\ said' \in Nat /\ said <= said'
    BY DEF CodexTypes, Messages, CountsFit
  <2>2. \A i \in 1 .. L + 1 : IsText(notes'[i]) => notes'[i].n <= said'
    <3> SUFFICES ASSUME NEW i \in 1 .. L + 1, IsText(notes'[i]) PROVE notes'[i].n <= said'
      OBVIOUS
    <3>1. CASE i \in 1 .. L
      <4>1. notes[i] \in Note /\ IsText(notes[i]) BY <1>1, <3>1
      <4>2. notes[i].n \in Nat BY <4>1 DEF Note, Words, Ends, IsText
      <4>3. notes[i].n <= said BY <1>1, <3>1, <4>1 DEF Messages, CountsFit
      <4> QED BY <1>1, <2>1, <3>1, <4>2, <4>3 DEF CodexTypes
    <3>2. CASE i = L + 1
      <4>1. IsText(m) BY <1>1, <3>2
      <4> QED BY <1>1, <2>1, <3>2, <4>1 DEF IsText, Words
    <3> QED BY <1>2, <3>1, <3>2
  <2>3. L <= said
    BY DEF Messages, CountsFit, CodexTypes, Statuses
  <2>4. Len(notes') <= said' + (IF served' \in Statuses THEN 1 ELSE 0)
    <3> HIDE DEF L
    <3>1. CASE m.kind = "over"
      <4>1. m \in Ends BY <3>1 DEF Note, Words
      <4>2. served' \in Statuses /\ said' = said BY <3>1, <4>1 DEF Ends, Statuses
      <4> QED BY <1>1, <2>3, <4>2 DEF CodexTypes
    <3>2. CASE m.kind # "over"
      <4>1. said' = said + 1 /\ served' = "running" BY <3>2
      <4> QED BY <1>1, <2>3, <4>1 DEF Statuses, CodexTypes
    <3> QED BY <3>1, <3>2
  <2> QED BY <1>1, <2>1, <2>2, <2>4 DEF CountsFit
<1> QED BY <1>1, <1>4, <1>5, <1>6 DEF Messages

(* A step that neither says nor reads anything keeps what is promised of   *)
(* messages.                                                               *)
LEMMA SameMessages ==
    ASSUME Messages, UNCHANGED <<notes, served, said, lastText, seen>> PROVE Messages'
BY DEF Messages, StatusIsLast, TextIsWaiting, CountsFit

(* The steps of the client, and of the process, that carry no              *)
(* notification.                                                           *)
LEMMA QuietSteps ==
    ASSUME CodexInv,
           \/ ServerDies \/ DeadlinePasses \/ CancelCompletion \/ Spawn \/ SpawnFails
           \/ Send \/ SendRaises \/ Received \/ CallFails \/ LeaveLate
           \/ LeaveCancelled \/ LeaveDead \/ LeaveQuiet \/ AnswerRaises \/ TurnIsOver
           \/ Judge \/ CloseProcess
    PROVE  CodexInv'
<1> USE DEF CodexInv
<1>1. CASE ServerDies
  <2>1. CodexTypes'
    BY <1>1 DEF ServerDies, CodexTypes, spoken, asking, flags, env, Startup
  <2>2. Duties'
    BY <1>1 DEF ServerDies, CodexTypes, Duties, TurnIsAskedFor, Started,
       CompletedIsEarned,
                             ResultFits, NoServerIsLeft, Statuses, spoken, asking,
                               flags, env, Startup
  <2>3. UNCHANGED <<notes, served, said, lastText, seen, asks, asked, answered>>
    BY <1>1 DEF ServerDies, spoken, asking, flags, env
  <2> QED
    BY <2>1, <2>2, <2>3, SameMessages DEF CodexInv, Duties, Messages, AsksAreAnswered
<1>2. CASE DeadlinePasses
  <2>1. CodexTypes'
    BY <1>2 DEF DeadlinePasses, CodexTypes, spoken, asking, flags, env, Startup
  <2>2. Duties'
    BY <1>2 DEF DeadlinePasses, CodexTypes, Duties, TurnIsAskedFor, Started,
       CompletedIsEarned,
                             ResultFits, NoServerIsLeft, Statuses, spoken, asking,
                               flags, env, Startup
  <2>3. UNCHANGED <<notes, served, said, lastText, seen, asks, asked, answered>>
    BY <1>2 DEF DeadlinePasses, spoken, asking, flags, env
  <2> QED
    BY <2>1, <2>2, <2>3, SameMessages DEF CodexInv, Duties, Messages, AsksAreAnswered
<1>3. CASE CancelCompletion
  <2>1. CodexTypes'
    BY <1>3 DEF CancelCompletion, CodexTypes, spoken, asking, flags, env, Startup
  <2>2. Duties'
    BY <1>3 DEF CancelCompletion, CodexTypes, Duties, TurnIsAskedFor, Started,
       CompletedIsEarned,
                             ResultFits, NoServerIsLeft, Statuses, spoken, asking,
                               flags, env, Startup
  <2>3. UNCHANGED <<notes, served, said, lastText, seen, asks, asked, answered>>
    BY <1>3 DEF CancelCompletion, spoken, asking, flags, env
  <2> QED
    BY <2>1, <2>2, <2>3, SameMessages DEF CodexInv, Duties, Messages, AsksAreAnswered
<1>4. CASE Spawn
  <2>1. CodexTypes' BY <1>4 DEF Spawn, CodexTypes, spoken, asking, flags, env, Startup
  <2>2. Duties'
    BY <1>4 DEF Spawn, CodexTypes, Duties, TurnIsAskedFor, Started, CompletedIsEarned,
                             ResultFits, NoServerIsLeft, Statuses, spoken, asking,
                               flags, env, Startup
  <2>3. UNCHANGED <<notes, served, said, lastText, seen, asks, asked, answered>>
    BY <1>4 DEF Spawn, spoken, asking, flags, env
  <2> QED
    BY <2>1, <2>2, <2>3, SameMessages DEF CodexInv, Duties, Messages, AsksAreAnswered
<1>5. CASE SpawnFails
  <2>1. CodexTypes'
    BY <1>5 DEF SpawnFails, CodexTypes, spoken, asking, flags, env, Startup
  <2>2. Duties'
    BY <1>5 DEF SpawnFails, CodexTypes, Duties, TurnIsAskedFor, Started,
       CompletedIsEarned,
                             ResultFits, NoServerIsLeft, Statuses, spoken, asking,
                               flags, env, Startup
  <2>3. UNCHANGED <<notes, served, said, lastText, seen, asks, asked, answered>>
    BY <1>5 DEF SpawnFails, spoken, asking, flags, env
  <2> QED
    BY <2>1, <2>2, <2>3, SameMessages DEF CodexInv, Duties, Messages, AsksAreAnswered
<1>6. CASE Send
  <2>1. CodexTypes' BY <1>6 DEF Send, CodexTypes, spoken, asking, flags, env, Startup
  <2>2. Duties'
    BY <1>6 DEF Send, CodexTypes, Duties, TurnIsAskedFor, Started, CompletedIsEarned,
                             ResultFits, NoServerIsLeft, Statuses, spoken, asking,
                               flags, env, Startup
  <2>3. UNCHANGED <<notes, served, said, lastText, seen, asks, asked, answered>>
    BY <1>6 DEF Send, spoken, asking, flags, env
  <2> QED
    BY <2>1, <2>2, <2>3, SameMessages DEF CodexInv, Duties, Messages, AsksAreAnswered
<1>7. CASE SendRaises
  <2>1. CodexTypes'
    BY <1>7 DEF SendRaises, CodexTypes, spoken, asking, flags, env, Startup
  <2>2. Duties'
    BY <1>7 DEF SendRaises, Silent, CodexTypes, Duties, TurnIsAskedFor, Started,
       CompletedIsEarned,
                             ResultFits, NoServerIsLeft, Statuses, spoken, asking,
                               flags, env, Startup
  <2>3. UNCHANGED <<notes, served, said, lastText, seen, asks, asked, answered>>
    BY <1>7 DEF SendRaises, spoken, asking, flags, env
  <2> QED
    BY <2>1, <2>2, <2>3, SameMessages DEF CodexInv, Duties, Messages, AsksAreAnswered
<1>8. CASE Received
  <2>0. /\ step' \in {"call", "loop", "ended"}
        /\ call' \in {"thread/start", "turn/start", "turn/interrupt"}
        /\ step' = "call" => call' # "turn/interrupt" /\ served = "none"
    <3>1. step = "waiting" /\ reply = "ok" /\ step' = Ahead[1] /\ call' = Ahead[2]
      BY <1>8 DEF Received
    <3>2. CASE call \in {"initialize", "thread/start"}
      BY <3>1, <3>2 DEF Ahead, TurnIsAskedFor
    <3>3. CASE call = "turn/start"
      BY <3>1, <3>3 DEF Ahead
    <3>4. CASE call = "turn/interrupt"
      BY <3>1, <3>4 DEF Ahead
    <3> QED BY <3>2, <3>3, <3>4 DEF CodexTypes, Startup, ToSet
  <2>1. CodexTypes'
    <3>1. call' \in ToSet(Startup) \cup {"turn/interrupt"}
      <4>1. /\ Startup[2] = "thread/start" /\ 2 \in DOMAIN Startup
            /\ Startup[3] = "turn/start" /\ 3 \in DOMAIN Startup
        BY DEF Startup
      <4> QED BY <2>0, <4>1 DEF ToSet
    <3> QED BY <1>8, <2>0, <3>1 DEF Received, CodexTypes, spoken, asking, flags, env
  <2>2. Duties'
    BY <1>8, <2>0 DEF Received, CodexTypes, Duties, TurnIsAskedFor, Started,
       CompletedIsEarned,
                             ResultFits, NoServerIsLeft, Silent, spoken, asking, flags,
                               env
  <2>3. UNCHANGED <<notes, served, said, lastText, seen, asks, asked, answered>>
    BY <1>8 DEF Received, spoken, asking, flags, env
  <2> QED
    BY <2>1, <2>2, <2>3, SameMessages DEF CodexInv, Duties, Messages, AsksAreAnswered
<1>9. CASE CallFails
  <2>1. CodexTypes'
    BY <1>9 DEF CallFails, CodexTypes, spoken, asking, flags, env, Startup, ToSet
  <2>2. Duties'
    BY <1>9 DEF CallFails, CodexTypes, Duties, TurnIsAskedFor, Started,
       CompletedIsEarned,
                             ResultFits, NoServerIsLeft, Statuses, spoken, asking,
                               flags, env, Startup, ToSet
  <2>3. UNCHANGED <<notes, served, said, lastText, seen, asks, asked, answered>>
    BY <1>9 DEF CallFails, spoken, asking, flags, env, ToSet
  <2> QED
    BY <2>1, <2>2, <2>3, SameMessages DEF CodexInv, Duties, Messages, AsksAreAnswered
<1>10. CASE LeaveLate
  <2>1. CodexTypes'
    BY <1>10 DEF LeaveLate, CodexTypes, spoken, asking, flags, env, Startup, InLoop,
       Interrupt
  <2>2. Duties'
    BY <1>10 DEF LeaveLate, CodexTypes, Duties, TurnIsAskedFor, Started,
       CompletedIsEarned,
                             ResultFits, NoServerIsLeft, Statuses, spoken, asking,
                               flags, env, Startup, InLoop, Interrupt
  <2>3. UNCHANGED <<notes, served, said, lastText, seen, asks, asked, answered>>
    BY <1>10 DEF LeaveLate, spoken, asking, flags, env, InLoop, Interrupt
  <2> QED
    BY <2>1, <2>2, <2>3, SameMessages DEF CodexInv, Duties, Messages, AsksAreAnswered
<1>11. CASE LeaveCancelled
  <2>1. CodexTypes'
    BY <1>11 DEF LeaveCancelled, CodexTypes, spoken, asking, flags, env, Startup, InLoop,
       Interrupt
  <2>2. Duties'
    BY <1>11 DEF LeaveCancelled, CodexTypes, Duties, TurnIsAskedFor, Started,
       CompletedIsEarned,
                             ResultFits, NoServerIsLeft, Statuses, spoken, asking,
                               flags, env, Startup, InLoop, Interrupt
  <2>3. UNCHANGED <<notes, served, said, lastText, seen, asks, asked, answered>>
    BY <1>11 DEF LeaveCancelled, spoken, asking, flags, env, InLoop, Interrupt
  <2> QED
    BY <2>1, <2>2, <2>3, SameMessages DEF CodexInv, Duties, Messages, AsksAreAnswered
<1>12. CASE LeaveDead
  <2>1. CodexTypes'
    BY <1>12 DEF LeaveDead, CodexTypes, spoken, asking, flags, env, Startup, InLoop,
       Interrupt
  <2>2. Duties'
    BY <1>12 DEF LeaveDead, CodexTypes, Duties, TurnIsAskedFor, Started,
       CompletedIsEarned,
                             ResultFits, NoServerIsLeft, Statuses, spoken, asking,
                               flags, env, Startup, InLoop, Interrupt
  <2>3. UNCHANGED <<notes, served, said, lastText, seen, asks, asked, answered>>
    BY <1>12 DEF LeaveDead, spoken, asking, flags, env, InLoop, Interrupt
  <2> QED
    BY <2>1, <2>2, <2>3, SameMessages DEF CodexInv, Duties, Messages, AsksAreAnswered
<1>13. CASE LeaveQuiet
  <2>1. CodexTypes'
    BY <1>13 DEF LeaveQuiet, CodexTypes, spoken, asking, flags, env, Startup, InLoop,
       Interrupt
  <2>2. Duties'
    BY <1>13 DEF LeaveQuiet, CodexTypes, Duties, TurnIsAskedFor, Started,
       CompletedIsEarned,
                             ResultFits, NoServerIsLeft, Statuses, spoken, asking,
                               flags, env, Startup, InLoop, Interrupt
  <2>3. UNCHANGED <<notes, served, said, lastText, seen, asks, asked, answered>>
    BY <1>13 DEF LeaveQuiet, spoken, asking, flags, env, InLoop, Interrupt
  <2> QED
    BY <2>1, <2>2, <2>3, SameMessages DEF CodexInv, Duties, Messages, AsksAreAnswered
<1>14. CASE AnswerRaises
  <2>1. CodexTypes'
    BY <1>14 DEF AnswerRaises, CodexTypes, spoken, asking, flags, env, Startup, Working,
       InLoop
  <2>2. Duties'
    BY <1>14 DEF AnswerRaises, Silent, CodexTypes, Duties, TurnIsAskedFor, Started,
       CompletedIsEarned,
                             ResultFits, NoServerIsLeft, Statuses, spoken, asking,
                               flags, env, Startup, Working, InLoop
  <2>3. UNCHANGED <<notes, served, said, lastText, seen, asks, asked, answered>>
    BY <1>14 DEF AnswerRaises, spoken, asking, flags, env, Working, InLoop
  <2> QED
    BY <2>1, <2>2, <2>3, SameMessages DEF CodexInv, Duties, Messages, AsksAreAnswered
<1>15. CASE TurnIsOver
  <2>1. CodexTypes'
    BY <1>15 DEF TurnIsOver, CodexTypes, spoken, asking, flags, env, Startup
  <2>2. Duties'
    BY <1>15 DEF TurnIsOver, CodexTypes, Duties, TurnIsAskedFor, Started,
       CompletedIsEarned,
                             ResultFits, NoServerIsLeft, Statuses, spoken, asking,
                               flags, env, Startup
  <2>3. UNCHANGED <<notes, served, said, lastText, seen, asks, asked, answered>>
    BY <1>15 DEF TurnIsOver, spoken, asking, flags, env
  <2> QED
    BY <2>1, <2>2, <2>3, SameMessages DEF CodexInv, Duties, Messages, AsksAreAnswered
<1>16. CASE Judge
  <2>1. CodexTypes'
    BY <1>16 DEF Judge, Silent, CodexTypes, spoken, asking, flags, env, Startup
  <2>2. Duties'
    BY <1>16 DEF Judge, Silent, CodexTypes, Duties, TurnIsAskedFor, Started,
       CompletedIsEarned,
                             ResultFits, NoServerIsLeft, Statuses, spoken, asking,
                               flags, env, Startup
  <2>3. UNCHANGED <<notes, served, said, lastText, seen, asks, asked, answered>>
    BY <1>16 DEF Judge, spoken, asking, flags, env
  <2> QED
    BY <2>1, <2>2, <2>3, SameMessages DEF CodexInv, Duties, Messages, AsksAreAnswered
<1>17. CASE CloseProcess
  <2>1. CodexTypes'
    BY <1>17 DEF CloseProcess, CodexTypes, spoken, asking, flags, env, Startup
  <2>2. Duties'
    BY <1>17 DEF CloseProcess, CodexTypes, Duties, TurnIsAskedFor, Started,
       CompletedIsEarned,
                             ResultFits, NoServerIsLeft, Statuses, spoken, asking,
                               flags, env, Startup
  <2>3. UNCHANGED <<notes, served, said, lastText, seen, asks, asked, answered>>
    BY <1>17 DEF CloseProcess, spoken, asking, flags, env
  <2> QED
    BY <2>1, <2>2, <2>3, SameMessages DEF CodexInv, Duties, Messages, AsksAreAnswered
<1> QED
  BY <1>1, <1>2, <1>3, <1>4, <1>5, <1>6, <1>7, <1>8, <1>9, <1>10, <1>11, <1>12, <1>13,
     <1>14, <1>15, <1>16, <1>17

(* The server replies, says something, asks, or finishes the turn. *)
LEMMA ServerSteps ==
    ASSUME CodexInv,
           \/ \E r \in {"ok", "error"} : ServerReplies(r)
           \/ \E kind \in {"text", "tool", "aborted"} : ServerSays(kind)
           \/ \E status \in Statuses : ServerFinishes(status)
           \/ ServerAsks
    PROVE  CodexInv'
<1> USE DEF CodexInv
<1>1. ASSUME NEW r \in {"ok", "error"}, ServerReplies(r) PROVE CodexInv'
  <2>1. CodexTypes' BY <1>1 DEF ServerReplies, CodexTypes, spoken, asking, flags, env
  <2>2. Duties' BY <1>1 DEF ServerReplies, CodexTypes, Duties, TurnIsAskedFor, Started,
                   CompletedIsEarned, ResultFits, NoServerIsLeft, Silent, spoken,
                     asking, flags, env
  <2>3. UNCHANGED <<notes, said, lastText, seen, asks, asked, answered>>
    BY <1>1 DEF ServerReplies, spoken, asking, flags, env
  <2>4. CASE served' = served
    BY <2>1, <2>2, <2>3, <2>4, SameMessages DEF Duties, Messages, AsksAreAnswered
  <2>5. CASE served' # served
    <3>1. served = "none" /\ notes = <<>> /\ served' = "running"
      BY <1>1, <2>5 DEF ServerReplies, TurnIsAskedFor, Started
    <3>2. Messages'
      BY <2>3, <3>1 DEF StatusIsLast, TextIsWaiting, CountsFit, Messages, Statuses
    <3> QED BY <2>1, <2>2, <2>3, <3>2 DEF Duties, Messages, AsksAreAnswered
  <2> QED BY <2>4, <2>5
<1>2. ASSUME NEW kind \in {"text", "tool", "aborted"}, ServerSays(kind) PROVE CodexInv'
  <2> DEFINE m == [kind |-> kind, n |-> said + 1]
  <2>1. m \in Note /\ m.kind = kind /\ m.n = said + 1 /\ kind # "over"
    BY DEF Note, Words, CodexTypes
  <2>2. /\ served = "running" /\ notes' = Append(notes, m) /\ said' = said + 1
        /\ served' = served
        /\ seen' = seen /\ lastText' = IF kind = "tool" THEN lastText ELSE said'
        /\ UNCHANGED <<asks, asked, answered>>
    BY <1>2 DEF ServerSays, asking
  <2> HIDE DEF m
  <2>3. Messages' /\ notes' \in Seq(Note) BY <2>1, <2>2, SayingMore DEF Messages
  <2>4. CodexTypes'
    BY <1>2, <2>2, <2>3 DEF ServerSays, CodexTypes, spoken, asking, flags, env
  <2>5. Duties' BY <1>2, <2>2 DEF ServerSays, CodexTypes, Duties, TurnIsAskedFor, Started,
                   CompletedIsEarned, ResultFits, NoServerIsLeft, spoken, asking, flags,
                     env
  <2> QED BY <2>2, <2>3, <2>4, <2>5 DEF Duties, Messages, AsksAreAnswered
<1>3. ASSUME NEW status \in Statuses, ServerFinishes(status) PROVE CodexInv'
  <2> DEFINE m == [kind |-> "over", status |-> status]
  <2>1. m \in Note /\ m.kind = "over" /\ m.status = status
    BY DEF Note, Ends, Statuses
  <2>2. /\ served = "running" /\ notes' = Append(notes, m) /\ served' = status
        /\ seen' = seen /\ UNCHANGED <<said, lastText, asks, asked, answered>>
    BY <1>3 DEF ServerFinishes, asking
  <2> HIDE DEF m
  <2>3. Messages' /\ notes' \in Seq(Note) BY <2>1, <2>2, SayingMore DEF Messages
  <2>4. CodexTypes'
    BY <1>3, <2>2, <2>3 DEF ServerFinishes, CodexTypes, spoken, asking, flags, env
  <2>5. Duties'
    BY <1>3, <2>2 DEF ServerFinishes, CodexTypes, Duties, TurnIsAskedFor, Started,
                   CompletedIsEarned, ResultFits, NoServerIsLeft, Statuses, spoken,
                     asking, flags, env
  <2> QED BY <2>2, <2>3, <2>4, <2>5 DEF Duties, Messages, AsksAreAnswered
<1>4. CASE ServerAsks
  <2>1. CodexTypes' /\ UNCHANGED <<notes, served, said, lastText, seen>>
    BY <1>4, AppendProperties DEF ServerAsks, CodexTypes, spoken, asking, flags, env
  <2>2. Duties' BY <1>4 DEF ServerAsks, CodexTypes, Duties, TurnIsAskedFor, Started,
                   CompletedIsEarned, ResultFits, NoServerIsLeft, spoken, asking, flags,
                     env
  <2>3. AsksAreAnswered'
    <3>1. /\ answered' = answered /\ asks' = Append(asks, asked + 1) /\ asked' = asked + 1
          /\ asked \in Nat /\ asks \in Seq(Nat) /\ answered \in Seq(Nat)
      BY <1>4 DEF ServerAsks, CodexTypes
    <3>2. answered \o Append(asks, asked + 1) = Append(answered \o asks, asked + 1)
      BY <3>1
    <3>3. Append([i \in 1 .. asked |-> i], asked + 1) = [i \in 1 .. asked + 1 |-> i]
      BY <3>1
    <3> QED BY <3>1, <3>2, <3>3 DEF AsksAreAnswered
  <2> QED BY <2>1, <2>2, <2>3, SameMessages DEF Duties, Messages
<1> QED BY <1>1, <1>2, <1>3, <1>4

(* A request is taken from the head of the line to the end of the answers. *)
LEMMA ReadingSteps ==
    ASSUME CodexInv, AnswerAsk \/ TakeNote
    PROVE  CodexInv'
<1> USE DEF CodexInv
<1> DEFINE L == Len(notes)
<1>0. L \in Nat /\ notes \in Seq(Note) BY DEF CodexTypes
<1>1. CASE AnswerAsk
  <2>1. PICK k \in 0 .. L : Some(Drain) = SubSeq(notes, 1, k) /\ Len(Some(Drain)) = k
    <3> DEFINE k == IF L < Drain THEN L ELSE Drain
    <3>1. k \in 0 .. L BY <1>0, CodexAssumption
    <3>2. Some(Drain) = SubSeq(notes, 1, k) BY DEF Some
    <3>3. Len(SubSeq(notes, 1, k)) = k
      <4> HIDE DEF k
      <4> QED BY <1>0, <3>1
    <3> QED BY <3>1, <3>2, <3>3
  <2>2. /\ notes' = SubSeq(notes, k + 1, L) /\ seen' = LastText(SubSeq(notes, 1, k))
        /\ UNCHANGED <<served, said, lastText>>
    BY <1>1, <2>1 DEF AnswerAsk
  <2>3. Messages' /\ notes' \in Seq(Note) /\ seen' \in Nat
    BY <2>2, ReadingOn DEF Messages
  <2>4. /\ asks \in Seq(Nat) /\ asks # <<>> /\ answered \in Seq(Nat)
        /\ asks' = Tail(asks) /\ answered' = Append(answered, Head(asks))
        /\ asked' = asked
    BY <1>1 DEF AnswerAsk, CodexTypes
  <2>5. answered' \o asks' = answered \o asks /\ asks' \in Seq(Nat)
          /\ answered' \in Seq(Nat)
    BY <2>4
  <2>6. CodexTypes'
    <3>1. over' \in BOOLEAN /\ interrupted' \in BOOLEAN /\ failed' \in BOOLEAN
      BY <1>1 DEF AnswerAsk, CodexTypes, Aborts
    <3> QED BY <1>1, <2>2, <2>3, <2>4, <2>5, <3>1 DEF AnswerAsk, CodexTypes, env
  <2>7. Duties'
    <3>1. notes = <<>> => notes' = <<>> BY <1>0, <2>2, <2>1
    <3>2. step = "loop" /\ ~over
            /\ UNCHANGED <<step, call, reply, served, said, completed, process, result>>
      BY <1>1 DEF AnswerAsk, Working, InLoop
    <3>3. ~completed BY <3>2 DEF CompletedIsEarned
    <3> QED
      BY <3>1, <3>2, <3>3 DEF Duties, TurnIsAskedFor, Started, CompletedIsEarned,
         ResultFits, NoServerIsLeft
  <2> QED BY <2>3, <2>4, <2>5, <2>6, <2>7 DEF Duties, Messages, AsksAreAnswered
<1>2. CASE TakeNote
  <2> DEFINE m == Head(notes)
  <2>1. L \in Nat \ {0} /\ m \in Note /\ m = notes[1] BY <1>0, <1>2 DEF TakeNote
  <2>2. <<m>> = SubSeq(notes, 1, 1) /\ Tail(notes) = SubSeq(notes, 1 + 1, L) BY <1>0, <2>1
  <2>3. /\ notes' = SubSeq(notes, 1 + 1, L) /\ seen' = LastText(SubSeq(notes, 1, 1))
        /\ UNCHANGED <<served, said, lastText>>
    BY <1>2, <2>2 DEF TakeNote
  <2>4. Messages' /\ notes' \in Seq(Note) /\ seen' \in Nat
    <3>1. 1 \in 0 .. Len(notes) BY <2>1
    <3> QED BY <2>3, <3>1, ReadingOn DEF Messages
  <2>5. CodexTypes'
    BY <1>2, <2>3, <2>4 DEF TakeNote, CodexTypes, asking, env, Status
  <2>6. /\ step = "loop"
        /\ UNCHANGED <<step, call, reply, process, result, asks, asked, answered>>
        /\ over' = (m.kind \in {"aborted", "over"})
        /\ completed' = (Status(m) = "completed")
        /\ ~completed
    BY <1>2 DEF TakeNote, Working, InLoop, asking, CompletedIsEarned
  <2>7. CompletedIsEarned'
    <3> SUFFICES ASSUME completed' PROVE over' /\ served' = "completed" /\ notes' = <<>>
      BY <2>6 DEF CompletedIsEarned
    <3>1. m.kind = "over" /\ m.status = "completed" BY <2>6 DEF Status, Silent
    <3>2. 1 \in DOMAIN notes BY <1>0, <2>1
    <3>3. 1 = L /\ served = "completed" BY <2>1, <3>1, <3>2 DEF StatusIsLast
    <3>4. SubSeq(notes, 2, 1) = <<>> BY <1>0, <3>3
    <3>5. notes' = SubSeq(notes, 1 + 1, L) /\ 1 + 1 = 2 BY <2>3
    <3>6. notes' = <<>> BY <3>3, <3>4, <3>5
    <3> QED BY <2>3, <2>6, <3>1, <3>3, <3>6
  <2>8. Duties'
    <3>1. notes # <<>> BY <1>2 DEF TakeNote
    <3> QED
      BY <2>3, <2>6, <2>7, <3>1 DEF Duties, TurnIsAskedFor, Started, ResultFits,
         NoServerIsLeft, CompletedIsEarned
  <2> QED BY <2>4, <2>5, <2>6, <2>8 DEF Duties, Messages, AsksAreAnswered
<1> QED BY <1>1, <1>2

(* The invariant holds at first: no process, no turn. *)
LEMMA CodexStarts == CodexInit => CodexInv
<1> SUFFICES ASSUME CodexInit PROVE CodexInv OBVIOUS
<1> USE DEF CodexInit
<1>1. "initialize" \in ToSet(Startup)
  <2>1. Startup[1] = "initialize" /\ 1 \in DOMAIN Startup BY DEF Startup
  <2> QED BY <2>1 DEF ToSet
<1>2. CodexTypes
  <2>1. <<>> \in Seq(Note) /\ <<>> \in Seq(Nat) OBVIOUS
  <2> QED BY <1>1, <2>1 DEF CodexTypes, Silent
<1>3. AsksAreAnswered
  <2>1. <<>> \o <<>> = [i \in 1 .. 0 |-> i] OBVIOUS
  <2> QED BY <2>1 DEF AsksAreAnswered
<1> QED
  BY <1>2, <1>3 DEF CodexInv, TurnIsAskedFor, Started, StatusIsLast, TextIsWaiting,
     CountsFit,
        CompletedIsEarned, ResultFits, NoServerIsLeft, Silent, Statuses

(* Every step of the client and of the server keeps the invariant. *)
LEMMA CodexStep == CodexInv /\ [CodexNext]_codex => CodexInv'
<1> SUFFICES ASSUME CodexInv, [CodexNext]_codex PROVE CodexInv' OBVIOUS
<1>1. CASE UNCHANGED codex
  <2>1. UNCHANGED <<process, served, said, notes, lastText, asks, asked, answered,
          reply, step, call, seen,
                    afterTool, over, completed, interrupted, failed, result, late,
                      stopped>>
    BY <1>1 DEF codex, spoken, asking, flags, env
  <2> QED
    BY <2>1, SameMessages DEF CodexInv, CodexTypes, Messages, TurnIsAskedFor, Started,
       CompletedIsEarned,
        AsksAreAnswered, ResultFits, NoServerIsLeft
<1>2. CASE CodexNext
  BY <1>2, QuietSteps, ServerSteps, ReadingSteps DEF CodexNext, Statuses
<1> QED BY <1>1, <1>2

(* The invariant gives what the run checks. *)
LEMMA CodexInvSaysIt == CodexInv => CodexIsFaithful
<1> SUFFICES ASSUME CodexInv PROVE CodexIsFaithful OBVIOUS
<1>1. CodexTypeOK
  <2>1. Len(notes) <= said + 1 BY DEF CodexInv, CodexTypes, CountsFit, Statuses
  <2> QED
    BY <2>1 DEF CodexInv, CodexTypes, CodexTypeOK, CountsFit, ResultFits, AsksAreAnswered
<1>2. AnswerIsEarned
  <2> SUFFICES ASSUME result = "answer" PROVE served = "completed" /\ seen = lastText
    BY DEF AnswerIsEarned
  <2>1. served = "completed" /\ notes = <<>>
    BY DEF CodexInv, ResultFits, CompletedIsEarned
  <2> QED BY <2>1 DEF CodexInv, TextIsWaiting
<1> QED BY <1>1, <1>2 DEF CodexIsFaithful, CodexInv

(* The invariant holds in every state of a completion. *)
THEOREM CodexIsSound == CodexSpec => []CodexInv
BY CodexStarts, CodexStep, PTL DEF CodexSpec
(* Whatever the server says and asks, in whatever order its messages are   *)
(* read: an answer is given only for a turn the server completed and is    *)
(* the last text it said, every question it asked and the client read is   *)
(* answered in its order, and no server process is left when the           *)
(* completion is over (CodexAppServerSession.run_turn, _complete_owned).   *)
THEOREM CodexHolds == CodexSpec => []CodexIsFaithful
BY CodexIsSound, CodexInvSaysIt, PTL
=============================================================================
