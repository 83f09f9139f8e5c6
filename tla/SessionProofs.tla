---------------------------- MODULE SessionProofs ----------------------------
(***************************************************************************)
(* Proofs about Session, for every set of threads and prompts, every bound *)
(* on rotations and either setting of CODEDOGGY_DRAIN_AFTER_CANCEL.        *)
(*                                                                         *)
(* TypeCorrect comes first; the safety theorems use it and one inductive   *)
(* invariant each: SlotInv for the turn slot and the teardown, DrainInv    *)
(* for the drainer, PromptInv for the prompts and the tokens;              *)
(* SessionIsSerial is the refinement of SerialSession.  The terminal comes *)
(* last, for every set of providers and children and every bound: BoardInv *)
(* for its list of tasks, LoginInv for its connection wizard, and          *)
(* TerminalIsSound for the two.                                            *)
(***************************************************************************)
EXTENDS MCTerminal, SequenceTheorems, TLAPS

USE DEF slot, token, lifecycle, mail, ledger, locals, Labels, Phases,
        RunnerOutcomes, Goto, Forget, Open, InTurn, InCall

-----------------------------------------------------------------------------
(* Types *)

(* Every variable keeps its type, and a thread in a turn or past an unlocked *)
(* check holds a prompt (what it pushes, runs or reports is a prompt).       *)
THEOREM TypeCorrect == Spec => [](TypeOK /\ HasPrompt)
<1> DEFINE Typed == TypeOK /\ HasPrompt
<1> USE SessionAssumption DEF TypeOK
<1>1. Init => Typed
  <2> SUFFICES ASSUME Init PROVE Typed
    OBVIOUS
  <2>1. FlagTypes /\ LocalTypes
    BY DEF Init, FlagTypes, LocalTypes
  <2>2. CounterTypes /\ SlotTypes
    BY DEF Init, CounterTypes, SlotTypes
  <2>3. LedgerTypes /\ HasPrompt
    BY DEF Init, LedgerTypes, HasPrompt
  <2>4. QED BY <2>1, <2>2, <2>3
<1>2. Typed /\ [Next]_vars => Typed'
  <2> SUFFICES ASSUME TypeOK, HasPrompt, [Next]_vars PROVE Typed'
    OBVIOUS
  <2>1. ASSUME NEW t \in Threads, NEW p \in Prompts, HandlePrompt(t, p)
        PROVE  Typed'
    <3>1. FlagTypes'
      BY <2>1 DEF HandlePrompt, SlotFree, BeginTurn, NewToken, FlagTypes
    <3>2. CounterTypes'
      BY <2>1 DEF HandlePrompt, SlotFree, BeginTurn, NewToken, CounterTypes
    <3>3. SlotTypes'
      BY <2>1 DEF HandlePrompt, SlotFree, BeginTurn, NewToken, SlotTypes
    <3>4. LocalTypes'
      BY <2>1 DEF HandlePrompt, SlotFree, BeginTurn, NewToken, LocalTypes
    <3>5. LedgerTypes'
      BY <2>1 DEF HandlePrompt, SlotFree, BeginTurn, NewToken, LedgerTypes
    <3>6. HasPrompt'
      BY <2>1
      DEF HandlePrompt, SlotFree, BeginTurn, NewToken, HasPrompt,
          LocalTypes, LedgerTypes
    <3>7. QED BY <3>1, <3>2, <3>3, <3>4, <3>5, <3>6
  <2>2. ASSUME NEW t \in Threads, NEW p \in Prompts, HandlePromptBusy(t, p)
        PROVE  Typed'
    BY <2>2
    DEF HandlePromptBusy, SlotFree, Interject, FlagTypes, CounterTypes,
        SlotTypes, LocalTypes, LedgerTypes, HasPrompt
  <2>3. ASSUME NEW t \in Threads, NEW p \in Prompts, SubmitPrompt(t, p)
        PROVE  Typed'
    BY <2>3
    DEF SubmitPrompt, Push, FlagTypes, CounterTypes, SlotTypes,
        LocalTypes, LedgerTypes, HasPrompt
  <2>4. ASSUME NEW t \in Threads, NEW p \in Prompts, EnqueueCheck(t, p)
        PROVE  Typed'
    BY <2>4
    DEF EnqueueCheck, FlagTypes, CounterTypes, SlotTypes, LocalTypes,
        LedgerTypes, HasPrompt
  <2>5. ASSUME NEW t \in Threads, NEW p \in Prompts, InterjectCheck(t, p)
        PROVE  Typed'
    BY <2>5
    DEF InterjectCheck, FlagTypes, CounterTypes, SlotTypes, LocalTypes,
        LedgerTypes, HasPrompt
  <2>6. ASSUME NEW t \in Threads, NewSession(t)
        PROVE  Typed'
    BY <2>6
    DEF NewSession, SlotFree, FlagTypes, CounterTypes, SlotTypes,
        LocalTypes, LedgerTypes, HasPrompt
  <2>7. ASSUME NEW t \in Threads, Close(t)
        PROVE  Typed'
    BY <2>7
    DEF Close, MarkClosing, FireToken, MustWait, FlagTypes,
        CounterTypes, SlotTypes, LocalTypes, LedgerTypes, HasPrompt
  <2>8. ASSUME NEW t \in Threads, CloseInTurn(t)
        PROVE  Typed'
    BY <2>8
    DEF CloseInTurn, MarkClosing, FireToken, FlagTypes, CounterTypes,
        SlotTypes, LocalTypes, LedgerTypes, HasPrompt
  <2>9. ASSUME NEW t \in Threads, StartTurn(t)
        PROVE  Typed'
    BY SMTT(30), <2>9
    DEF StartTurn, SkipRunner, FlagTypes, CounterTypes, SlotTypes,
        LocalTypes, LedgerTypes, HasPrompt
  <2>10. ASSUME NEW t \in Threads, ReleaseTurn(t)
         PROVE  Typed'
    BY <2>10
    DEF ReleaseTurn, AfterRelease, FlagTypes, CounterTypes, SlotTypes,
        LocalTypes, LedgerTypes, HasPrompt
  <2>11. ASSUME NEW t \in Threads, EnqueuePush(t)
         PROVE  Typed'
    <3>1. cur[t] \in Prompts
      BY <2>11 DEF EnqueuePush, HasPrompt
    <3>2. /\ queue' \in Seq(Prompts) /\ accepted' \in Seq(Prompts)
          /\ fresh' \subseteq Prompts
      <4>1. /\ Append(queue, cur[t]) \in Seq(Prompts)
            /\ Append(accepted, cur[t]) \in Seq(Prompts)
        BY <3>1 DEF LedgerTypes
      <4>2. \/ /\ queue' = Append(queue, cur[t])
               /\ accepted' = Append(accepted, cur[t])
               /\ fresh' = fresh
            \/ /\ queue' = queue
               /\ accepted' = accepted
               /\ fresh' = fresh \cup {cur[t]}
        BY <2>11 DEF EnqueuePush, Push
      <4>3. QED BY <3>1, <4>1, <4>2 DEF LedgerTypes
    <3>3. FlagTypes'
      BY <2>11, <3>2 DEF EnqueuePush, Push, FlagTypes
    <3>4. CounterTypes'
      BY <2>11, <3>2 DEF EnqueuePush, Push, CounterTypes
    <3>5. SlotTypes'
      BY <2>11, <3>2 DEF EnqueuePush, Push, SlotTypes
    <3>6. LocalTypes'
      BY <2>11, <3>2 DEF EnqueuePush, Push, LocalTypes
    <3>7. LedgerTypes'
      BY <2>11, <3>2 DEF EnqueuePush, Push, LedgerTypes
    <3>8. HasPrompt'
      BY <2>11, <3>2 DEF EnqueuePush, Push, HasPrompt, LocalTypes, LedgerTypes
    <3>9. QED BY <3>3, <3>4, <3>5, <3>6, <3>7, <3>8
  <2>12. ASSUME NEW t \in Threads, InterjectPush(t)
         PROVE  Typed'
    BY <2>12
    DEF InterjectPush, Interject, FlagTypes, CounterTypes, SlotTypes,
        LocalTypes, LedgerTypes, HasPrompt
  <2>13. ASSUME NEW t \in Threads, ReadDrainActive(t)
         PROVE  Typed'
    BY <2>13
    DEF ReadDrainActive, AfterTurn, FlagTypes, CounterTypes, SlotTypes,
        LocalTypes, LedgerTypes, HasPrompt
  <2>14. ASSUME NEW t \in Threads, PermitDrain(t)
         PROVE  Typed'
    BY <2>14
    DEF PermitDrain, AfterTurn, FlagTypes, CounterTypes, SlotTypes,
        LocalTypes, LedgerTypes, HasPrompt
  <2>15. ASSUME NEW t \in Threads, EnterDrain(t)
         PROVE  Typed'
    <3>1. FlagTypes'
      BY <2>15 DEF EnterDrain, MayEnterDrain, MayDrain, AfterTurn, FlagTypes
    <3>2. CounterTypes'
      BY <2>15
      DEF EnterDrain, MayEnterDrain, MayDrain, AfterTurn, CounterTypes
    <3>3. SlotTypes'
      BY <2>15 DEF EnterDrain, MayEnterDrain, MayDrain, AfterTurn, SlotTypes
    <3>4. LocalTypes'
      BY <2>15 DEF EnterDrain, MayEnterDrain, MayDrain, AfterTurn, LocalTypes
    <3>5. LedgerTypes'
      BY <2>15 DEF EnterDrain, MayEnterDrain, MayDrain, AfterTurn, LedgerTypes
    <3>6. HasPrompt'
      BY <2>15
      DEF EnterDrain, MayEnterDrain, MayDrain, AfterTurn, HasPrompt,
          LocalTypes, LedgerTypes
    <3>7. QED BY <3>1, <3>2, <3>3, <3>4, <3>5, <3>6
  <2>16. ASSUME NEW t \in Threads, DrainNext(t)
         PROVE  Typed'
    <3>1. Head(queue) \in Prompts /\ Tail(queue) \in Seq(Prompts)
      BY <2>16 DEF DrainNext, LedgerTypes
    <3>2. FlagTypes'
      BY <2>16, <3>1 DEF DrainNext, MayDrain, BeginTurn, NewToken, FlagTypes
    <3>3. CounterTypes'
      BY <2>16, <3>1
      DEF DrainNext, MayDrain, BeginTurn, NewToken, CounterTypes
    <3>4. SlotTypes'
      BY <2>16, <3>1 DEF DrainNext, MayDrain, BeginTurn, NewToken, SlotTypes
    <3>5. LocalTypes'
      BY <2>16, <3>1 DEF DrainNext, MayDrain, BeginTurn, NewToken, LocalTypes
    <3>6. LedgerTypes'
      BY <2>16, <3>1 DEF DrainNext, MayDrain, BeginTurn, NewToken, LedgerTypes
    <3>7. HasPrompt'
      BY <2>16, <3>1
      DEF DrainNext, MayDrain, BeginTurn, NewToken, HasPrompt,
          LocalTypes, LedgerTypes
    <3>8. QED BY <3>2, <3>3, <3>4, <3>5, <3>6, <3>7
  <2>17. ASSUME NEW t \in Threads, DrainStops(t)
         PROVE  Typed'
    BY <2>17
    DEF DrainStops, MayDrain, FlagTypes, CounterTypes, SlotTypes,
        LocalTypes, LedgerTypes, HasPrompt
  <2>18. ASSUME NEW t \in Threads, LeaveDrain(t)
         PROVE  Typed'
    BY ZenonT(60), <2>18
    DEF LeaveDrain, FlagTypes, CounterTypes, SlotTypes, LocalTypes,
        LedgerTypes, HasPrompt
  <2>19. ASSUME NEW t \in Threads, TurnAwaited(t)
         PROVE  Typed'
    BY <2>19
    DEF TurnAwaited, FlagTypes, CounterTypes, SlotTypes, LocalTypes,
        LedgerTypes, HasPrompt
  <2>20. ASSUME NEW t \in Threads, ElectFromClose(t)
         PROVE  Typed'
    <3>1. FlagTypes'
      BY <2>20 DEF ElectFromClose, StartCloseFinalizer, HasOwner, FlagTypes
    <3>2. CounterTypes'
      BY <2>20 DEF ElectFromClose, StartCloseFinalizer, HasOwner, CounterTypes
    <3>3. SlotTypes'
      BY <2>20 DEF ElectFromClose, StartCloseFinalizer, HasOwner, SlotTypes
    <3>4. LocalTypes'
      BY <2>20 DEF ElectFromClose, StartCloseFinalizer, HasOwner, LocalTypes
    <3>5. LedgerTypes'
      BY <2>20 DEF ElectFromClose, StartCloseFinalizer, HasOwner, LedgerTypes
    <3>6. HasPrompt'
      BY <2>20
      DEF ElectFromClose, StartCloseFinalizer, HasOwner, HasPrompt,
          LocalTypes, LedgerTypes
    <3>7. QED BY <3>1, <3>2, <3>3, <3>4, <3>5, <3>6
  <2>21. ASSUME NEW t \in Threads, ElectFromTurn(t)
         PROVE  Typed'
    <3>1. FlagTypes'
      BY <2>21
      DEF ElectFromTurn, StartCloseFinalizer, HasOwner, AfterTurn,
          FlagTypes
    <3>2. CounterTypes'
      BY <2>21
      DEF ElectFromTurn, StartCloseFinalizer, HasOwner, AfterTurn,
          CounterTypes
    <3>3. SlotTypes'
      BY <2>21
      DEF ElectFromTurn, StartCloseFinalizer, HasOwner, AfterTurn,
          SlotTypes
    <3>4. LocalTypes'
      BY <2>21
      DEF ElectFromTurn, StartCloseFinalizer, HasOwner, AfterTurn,
          LocalTypes
    <3>5. LedgerTypes'
      BY <2>21
      DEF ElectFromTurn, StartCloseFinalizer, HasOwner, AfterTurn,
          LedgerTypes
    <3>6. HasPrompt'
      BY <2>21
      DEF ElectFromTurn, StartCloseFinalizer, HasOwner, AfterTurn,
          HasPrompt, LocalTypes, LedgerTypes
    <3>7. QED BY <3>1, <3>2, <3>3, <3>4, <3>5, <3>6
  <2>22. ASSUME NEW t \in Threads, CloseAwaited(t)
         PROVE  Typed'
    BY <2>22
    DEF CloseAwaited, FlagTypes, CounterTypes, SlotTypes, LocalTypes,
        LedgerTypes, HasPrompt
  <2>23. ASSUME NEW t \in Threads, DrainInterjections(t)
         PROVE  Typed'
    BY <2>23
    DEF DrainInterjections, ToSet, FlagTypes, CounterTypes, SlotTypes,
        LocalTypes, LedgerTypes, HasPrompt
  <2>24. ASSUME NEW t \in Threads, RunnerReturns(t)
         PROVE  Typed'
    BY <2>24
    DEF RunnerReturns, FlagTypes, CounterTypes, SlotTypes, LocalTypes,
        LedgerTypes, HasPrompt
  <2>25. ASSUME NEW t \in Threads, CloseTimesOut(t)
         PROVE  Typed'
    BY <2>25
    DEF CloseTimesOut, FlagTypes, CounterTypes, SlotTypes, LocalTypes,
        LedgerTypes, HasPrompt
  <2>26. CASE Cancel
    BY <2>26
    DEF Cancel, FireToken, FlagTypes, CounterTypes, SlotTypes,
        LocalTypes, LedgerTypes, HasPrompt
  <2>27. CASE StopPromptIngress
    BY <2>27
    DEF StopPromptIngress, ToSet, FlagTypes, CounterTypes, SlotTypes,
        LocalTypes, LedgerTypes, HasPrompt
  <2>28. CASE FinalizerBegins
    BY <2>28
    DEF FinalizerBegins, FlagTypes, CounterTypes, SlotTypes, LocalTypes,
        LedgerTypes, HasPrompt
  <2>29. CASE FinalizerEnds
    <3>1. FlagTypes'
      BY <2>29 DEF FinalizerEnds, SignalClosed, FlagTypes
    <3>2. CounterTypes'
      BY <2>29 DEF FinalizerEnds, SignalClosed, CounterTypes
    <3>3. SlotTypes'
      BY <2>29 DEF FinalizerEnds, SignalClosed, SlotTypes
    <3>4. LocalTypes'
      BY <2>29 DEF FinalizerEnds, SignalClosed, LocalTypes
    <3>5. LedgerTypes'
      BY <2>29 DEF FinalizerEnds, SignalClosed, LedgerTypes
    <3>6. HasPrompt'
      BY <2>29
      DEF FinalizerEnds, SignalClosed, HasPrompt, LocalTypes,
          LedgerTypes
    <3>7. QED BY <3>1, <3>2, <3>3, <3>4, <3>5, <3>6
  <2>30. CASE UNCHANGED vars
    BY <2>30
    DEF vars, FlagTypes, CounterTypes, SlotTypes, LocalTypes,
        LedgerTypes, HasPrompt
  <2>31. QED
    BY <2>1, <2>2, <2>3, <2>4, <2>5, <2>6, <2>7, <2>8, <2>9, <2>10, <2>11,
       <2>12, <2>13, <2>14, <2>15, <2>16, <2>17, <2>18, <2>19, <2>20, <2>21,
       <2>22, <2>23, <2>24, <2>25, <2>26, <2>27, <2>28, <2>29, <2>30
    DEF Next, HostCall, ThreadStep
<1>3. QED
  BY <1>1, <1>2, PTL DEF Spec

-----------------------------------------------------------------------------
(* The turn slot and the teardown *)

(* A lowered _turn_done goes with a taken slot. *)
BarrierDownInTurn == ~turnDone => phase = "turn_running"

(* Whoever elects the owner of the teardown, or waits for it, saw the close  *)
(* and found no turn; a close in progress keeps it that way.                 *)
ElectorsSawClose ==
    \A t \in Threads : pc[t] \in {"finalize", "elect", "await_close"} =>
                         closing /\ turnDone
AwaitersSawClose ==
    \A t \in Threads : pc[t] = "await_turn" => closing

(* The owner of the teardown: nobody yet, elected, at work, finished.        *)
NoOwner ==
    /\ elected = 0 /\ tearing = 0 /\ torn = 0
    /\ ~closeFinalizing /\ ~closed
Elected ==
    /\ elected = 1 /\ tearing = 0 /\ torn = 0
    /\ closeFinalizing /\ ~closed
AtWork ==
    /\ elected = 0 /\ tearing = 1 /\ torn = 0
    /\ closeFinalizing /\ ~closed
Finished ==
    /\ elected = 0 /\ tearing = 0 /\ torn = 1
    /\ ~closeFinalizing /\ closed

(* An owner, once there is one, is the only one and no turn runs or starts.  *)
OwnerStages ==
    \/ NoOwner
    \/ (Elected \/ AtWork \/ Finished) /\ closing /\ turnDone

(* A close in progress has cancelled the latest turn. *)
CloseCancels == closing => cancelRequested

SlotInv ==
    /\ SingleTurn
    /\ BarrierDownInTurn
    /\ ElectorsSawClose /\ AwaitersSawClose
    /\ OwnerStages
    /\ CloseCancels

(* SlotInv is an invariant: the slot is reserved only when it is free, an    *)
(* owner is elected only when no turn runs, and no turn starts in a close.   *)
LEMMA SlotInvariant == Spec => []SlotInv
<1> USE SessionAssumption
<1>1. Init => SlotInv
  BY DEF Init, SlotInv, SingleTurn, BarrierDownInTurn, ElectorsSawClose,
     AwaitersSawClose, OwnerStages, NoOwner, CloseCancels
<1>2. TypeOK /\ SlotInv /\ [Next]_vars => SlotInv'
  <2> SUFFICES ASSUME TypeOK, SlotInv, [Next]_vars PROVE SlotInv'
    OBVIOUS
  <2> USE DEF TypeOK, FlagTypes, CounterTypes, SlotTypes, LocalTypes, SlotInv
  <2>1. ASSUME NEW t \in Threads, NEW p \in Prompts, HandlePrompt(t, p)
        PROVE  SlotInv'
    BY <2>1
    DEF HandlePrompt, SlotFree, BeginTurn, NewToken, SingleTurn,
        BarrierDownInTurn, ElectorsSawClose, AwaitersSawClose,
        OwnerStages, NoOwner, Elected, AtWork, Finished, CloseCancels
  <2>2. ASSUME NEW t \in Threads, NEW p \in Prompts, HandlePromptBusy(t, p)
        PROVE  SlotInv'
    BY <2>2
    DEF HandlePromptBusy, SlotFree, Interject, SingleTurn,
        BarrierDownInTurn, ElectorsSawClose, AwaitersSawClose,
        OwnerStages, NoOwner, Elected, AtWork, Finished, CloseCancels
  <2>3. ASSUME NEW t \in Threads, NEW p \in Prompts, SubmitPrompt(t, p)
        PROVE  SlotInv'
    BY <2>3
    DEF SubmitPrompt, Push, SingleTurn, BarrierDownInTurn,
        ElectorsSawClose, AwaitersSawClose, OwnerStages, NoOwner,
        Elected, AtWork, Finished, CloseCancels
  <2>4. ASSUME NEW t \in Threads, NEW p \in Prompts, EnqueueCheck(t, p)
        PROVE  SlotInv'
    BY <2>4
    DEF EnqueueCheck, SingleTurn, BarrierDownInTurn, ElectorsSawClose,
        AwaitersSawClose, OwnerStages, NoOwner, Elected, AtWork,
        Finished, CloseCancels
  <2>5. ASSUME NEW t \in Threads, NEW p \in Prompts, InterjectCheck(t, p)
        PROVE  SlotInv'
    BY <2>5
    DEF InterjectCheck, SingleTurn, BarrierDownInTurn, ElectorsSawClose,
        AwaitersSawClose, OwnerStages, NoOwner, Elected, AtWork,
        Finished, CloseCancels
  <2>6. ASSUME NEW t \in Threads, NewSession(t)
        PROVE  SlotInv'
    BY <2>6
    DEF NewSession, SlotFree, SingleTurn, BarrierDownInTurn,
        ElectorsSawClose, AwaitersSawClose, OwnerStages, NoOwner,
        Elected, AtWork, Finished, CloseCancels
  <2>7. ASSUME NEW t \in Threads, Close(t)
        PROVE  SlotInv'
    BY <2>7
    DEF Close, MarkClosing, FireToken, MustWait, SingleTurn,
        BarrierDownInTurn, ElectorsSawClose, AwaitersSawClose,
        OwnerStages, NoOwner, Elected, AtWork, Finished, CloseCancels
  <2>8. ASSUME NEW t \in Threads, CloseInTurn(t)
        PROVE  SlotInv'
    BY <2>8
    DEF CloseInTurn, MarkClosing, FireToken, SingleTurn,
        BarrierDownInTurn, ElectorsSawClose, AwaitersSawClose,
        OwnerStages, NoOwner, Elected, AtWork, Finished, CloseCancels
  <2>9. ASSUME NEW t \in Threads, StartTurn(t)
        PROVE  SlotInv'
    BY <2>9
    DEF StartTurn, SkipRunner, SingleTurn, BarrierDownInTurn,
        ElectorsSawClose, AwaitersSawClose, OwnerStages, NoOwner,
        Elected, AtWork, Finished, CloseCancels
  <2>10. ASSUME NEW t \in Threads, ReleaseTurn(t)
         PROVE  SlotInv'
    BY <2>10
    DEF ReleaseTurn, AfterRelease, SingleTurn, BarrierDownInTurn,
        ElectorsSawClose, AwaitersSawClose, OwnerStages, NoOwner,
        Elected, AtWork, Finished, CloseCancels
  <2>11. ASSUME NEW t \in Threads, EnqueuePush(t)
         PROVE  SlotInv'
    BY <2>11
    DEF EnqueuePush, Push, SingleTurn, BarrierDownInTurn,
        ElectorsSawClose, AwaitersSawClose, OwnerStages, NoOwner,
        Elected, AtWork, Finished, CloseCancels
  <2>12. ASSUME NEW t \in Threads, InterjectPush(t)
         PROVE  SlotInv'
    BY <2>12
    DEF InterjectPush, Interject, SingleTurn, BarrierDownInTurn,
        ElectorsSawClose, AwaitersSawClose, OwnerStages, NoOwner,
        Elected, AtWork, Finished, CloseCancels
  <2>13. ASSUME NEW t \in Threads, ReadDrainActive(t)
         PROVE  SlotInv'
    BY <2>13
    DEF ReadDrainActive, AfterTurn, SingleTurn, BarrierDownInTurn,
        ElectorsSawClose, AwaitersSawClose, OwnerStages, NoOwner,
        Elected, AtWork, Finished, CloseCancels
  <2>14. ASSUME NEW t \in Threads, PermitDrain(t)
         PROVE  SlotInv'
    BY <2>14
    DEF PermitDrain, AfterTurn, SingleTurn, BarrierDownInTurn,
        ElectorsSawClose, AwaitersSawClose, OwnerStages, NoOwner,
        Elected, AtWork, Finished, CloseCancels
  <2>15. ASSUME NEW t \in Threads, EnterDrain(t)
         PROVE  SlotInv'
    BY <2>15
    DEF EnterDrain, MayEnterDrain, MayDrain, AfterTurn, SingleTurn,
        BarrierDownInTurn, ElectorsSawClose, AwaitersSawClose,
        OwnerStages, NoOwner, Elected, AtWork, Finished, CloseCancels
  <2>16. ASSUME NEW t \in Threads, DrainNext(t)
         PROVE  SlotInv'
    BY <2>16
    DEF DrainNext, MayDrain, BeginTurn, NewToken, SingleTurn,
        BarrierDownInTurn, ElectorsSawClose, AwaitersSawClose,
        OwnerStages, NoOwner, Elected, AtWork, Finished, CloseCancels
  <2>17. ASSUME NEW t \in Threads, DrainStops(t)
         PROVE  SlotInv'
    BY <2>17
    DEF DrainStops, MayDrain, SingleTurn, BarrierDownInTurn,
        ElectorsSawClose, AwaitersSawClose, OwnerStages, NoOwner,
        Elected, AtWork, Finished, CloseCancels
  <2>18. ASSUME NEW t \in Threads, LeaveDrain(t)
         PROVE  SlotInv'
    BY <2>18
    DEF LeaveDrain, SingleTurn, BarrierDownInTurn, ElectorsSawClose,
        AwaitersSawClose, OwnerStages, NoOwner, Elected, AtWork,
        Finished, CloseCancels
  <2>19. ASSUME NEW t \in Threads, TurnAwaited(t)
         PROVE  SlotInv'
    BY <2>19
    DEF TurnAwaited, SingleTurn, BarrierDownInTurn, ElectorsSawClose,
        AwaitersSawClose, OwnerStages, NoOwner, Elected, AtWork,
        Finished, CloseCancels
  <2>20. ASSUME NEW t \in Threads, ElectFromClose(t)
         PROVE  SlotInv'
    BY <2>20
    DEF ElectFromClose, StartCloseFinalizer, HasOwner, SingleTurn,
        BarrierDownInTurn, ElectorsSawClose, AwaitersSawClose,
        OwnerStages, NoOwner, Elected, AtWork, Finished, CloseCancels
  <2>21. ASSUME NEW t \in Threads, ElectFromTurn(t)
         PROVE  SlotInv'
    BY <2>21
    DEF ElectFromTurn, StartCloseFinalizer, HasOwner, AfterTurn,
        SingleTurn, BarrierDownInTurn, ElectorsSawClose,
        AwaitersSawClose, OwnerStages, NoOwner, Elected, AtWork,
        Finished, CloseCancels
  <2>22. ASSUME NEW t \in Threads, CloseAwaited(t)
         PROVE  SlotInv'
    BY <2>22
    DEF CloseAwaited, SingleTurn, BarrierDownInTurn, ElectorsSawClose,
        AwaitersSawClose, OwnerStages, NoOwner, Elected, AtWork,
        Finished, CloseCancels
  <2>23. ASSUME NEW t \in Threads, DrainInterjections(t)
         PROVE  SlotInv'
    BY <2>23
    DEF DrainInterjections, ToSet, SingleTurn, BarrierDownInTurn,
        ElectorsSawClose, AwaitersSawClose, OwnerStages, NoOwner,
        Elected, AtWork, Finished, CloseCancels
  <2>24. ASSUME NEW t \in Threads, RunnerReturns(t)
         PROVE  SlotInv'
    BY <2>24
    DEF RunnerReturns, SingleTurn, BarrierDownInTurn, ElectorsSawClose,
        AwaitersSawClose, OwnerStages, NoOwner, Elected, AtWork,
        Finished, CloseCancels
  <2>25. ASSUME NEW t \in Threads, CloseTimesOut(t)
         PROVE  SlotInv'
    BY <2>25
    DEF CloseTimesOut, SingleTurn, BarrierDownInTurn, ElectorsSawClose,
        AwaitersSawClose, OwnerStages, NoOwner, Elected, AtWork,
        Finished, CloseCancels
  <2>26. CASE Cancel
    BY <2>26
    DEF Cancel, FireToken, SingleTurn, BarrierDownInTurn,
        ElectorsSawClose, AwaitersSawClose, OwnerStages, NoOwner,
        Elected, AtWork, Finished, CloseCancels
  <2>27. CASE StopPromptIngress
    BY <2>27
    DEF StopPromptIngress, ToSet, SingleTurn, BarrierDownInTurn,
        ElectorsSawClose, AwaitersSawClose, OwnerStages, NoOwner,
        Elected, AtWork, Finished, CloseCancels
  <2>28. CASE FinalizerBegins
    BY <2>28
    DEF FinalizerBegins, SingleTurn, BarrierDownInTurn,
        ElectorsSawClose, AwaitersSawClose, OwnerStages, NoOwner,
        Elected, AtWork, Finished, CloseCancels
  <2>29. CASE FinalizerEnds
    BY <2>29
    DEF FinalizerEnds, SignalClosed, SingleTurn, BarrierDownInTurn,
        ElectorsSawClose, AwaitersSawClose, OwnerStages, NoOwner,
        Elected, AtWork, Finished, CloseCancels
  <2>30. CASE UNCHANGED vars
    BY <2>30
    DEF vars, SingleTurn, BarrierDownInTurn, ElectorsSawClose,
        AwaitersSawClose, OwnerStages, NoOwner, Elected, AtWork,
        Finished, CloseCancels
  <2>31. QED
    BY <2>1, <2>2, <2>3, <2>4, <2>5, <2>6, <2>7, <2>8, <2>9, <2>10, <2>11,
       <2>12, <2>13, <2>14, <2>15, <2>16, <2>17, <2>18, <2>19, <2>20, <2>21,
       <2>22, <2>23, <2>24, <2>25, <2>26, <2>27, <2>28, <2>29, <2>30
    DEF Next, HostCall, ThreadStep
<1>3. QED
  BY <1>1, <1>2, TypeCorrect, PTL DEF Spec

(* At most one thread is in a turn, the session names it, and the barrier    *)
(* that close and wait_for_turn wait on is down.                             *)
THEOREM TurnsAreSingle == Spec => []SingleTurn
<1>1. SlotInv => SingleTurn
  BY DEF SlotInv
<1>2. QED
  BY <1>1, SlotInvariant, PTL

(* kernel.close() runs, and its effects are seen, only while no thread is in *)
(* a turn.                                                                   *)
THEOREM TeardownWaitsForTurn == Spec => []TeardownBarrier
<1>1. TypeOK /\ SlotInv => TeardownBarrier
  BY
  DEF TypeOK, CounterTypes, SlotInv, SingleTurn, OwnerStages, NoOwner,
      TeardownBarrier
<1>2. QED
  BY <1>1, TypeCorrect, SlotInvariant, PTL

(* kernel.close() has at most one owner, however many threads close.         *)
THEOREM TeardownIsSingle == Spec => []OneTeardown
<1>1. TypeOK /\ SlotInv => OneTeardown
  BY
  DEF TypeOK, CounterTypes, SlotInv, OwnerStages, NoOwner, Elected,
      AtWork, Finished, OneTeardown
<1>2. QED
  BY <1>1, TypeCorrect, SlotInvariant, PTL

(* Which actions reserve the slot, start a runner or rotate the session id.  *)
LEMMA OnlyReservationsStart ==
    ASSUME [Next]_vars, started' # started
    PROVE  \E t \in Threads : \/ DrainNext(t)
                             \/ \E p \in Prompts : HandlePrompt(t, p)
  BY
  DEF Next, HostCall, ThreadStep, vars, NewSession, StartTurn,
      HandlePromptBusy, SubmitPrompt, EnqueueCheck, InterjectCheck,
      Close, CloseInTurn, ReleaseTurn, EnqueuePush, InterjectPush,
      ReadDrainActive, PermitDrain, EnterDrain, DrainStops, LeaveDrain,
      TurnAwaited, ElectFromClose, ElectFromTurn, CloseAwaited,
      DrainInterjections, RunnerReturns, CloseTimesOut, Cancel,
      StopPromptIngress, FinalizerBegins, FinalizerEnds

(* Only StartTurn brings a thread into the runner.                         *)
LEMMA OnlyStartTurnRuns ==
    ASSUME [Next]_vars, TypeOK,
           NEW u \in Threads, pc[u] # "run", pc'[u] = "run"
    PROVE  \E t \in Threads : StartTurn(t)
  BY
  DEF Next, HostCall, ThreadStep, vars, TypeOK, LocalTypes, AfterTurn,
      AfterRelease, HandlePrompt, DrainNext, BeginTurn, NewSession,
      HandlePromptBusy, SubmitPrompt, EnqueueCheck, InterjectCheck,
      Close, CloseInTurn, ReleaseTurn, EnqueuePush, InterjectPush,
      ReadDrainActive, PermitDrain, EnterDrain, DrainStops, LeaveDrain,
      TurnAwaited, ElectFromClose, ElectFromTurn, CloseAwaited,
      DrainInterjections, RunnerReturns, CloseTimesOut, Cancel,
      StopPromptIngress, FinalizerBegins, FinalizerEnds

(* Only NewSession counts a rotation.                                      *)
LEMMA OnlyNewSessionRotates ==
    ASSUME [Next]_vars, rotations' # rotations
    PROVE  \E t \in Threads : NewSession(t)
  BY
  DEF Next, HostCall, ThreadStep, vars, HandlePrompt, DrainNext,
      StartTurn, HandlePromptBusy, SubmitPrompt, EnqueueCheck,
      InterjectCheck, Close, CloseInTurn, ReleaseTurn, EnqueuePush,
      InterjectPush, ReadDrainActive, PermitDrain, EnterDrain,
      DrainStops, LeaveDrain, TurnAwaited, ElectFromClose,
      ElectFromTurn, CloseAwaited, DrainInterjections, RunnerReturns,
      CloseTimesOut, Cancel, StopPromptIngress, FinalizerBegins,
      FinalizerEnds

(* Once a close began no runner starts: a turn that had only reserved the    *)
(* slot finds its cancellation and ends (CloseCancels).                      *)
THEOREM CloseStartsNoRunner == Spec => [][NoRunnerAfterClose]_vars
<1> DEFINE Keeps ==
      closing => \A t \in Threads : pc'[t] = "run" => pc[t] = "run"
<1>1. TypeOK /\ SlotInv /\ [Next]_vars => [Keeps]_vars
  <2> SUFFICES ASSUME TypeOK, SlotInv, [Next]_vars, closing,
                      NEW u \in Threads, pc[u] # "run", pc'[u] = "run"
               PROVE  FALSE
    OBVIOUS
  <2>1. PICK t \in Threads : StartTurn(t)
    BY OnlyStartTurnRuns
  <2>2. pc'[t] = "exit" /\ \A v \in Threads \ {t} : pc'[v] = pc[v]
    BY <2>1
    DEF StartTurn, SkipRunner, SlotInv, CloseCancels, TypeOK, LocalTypes
  <2>3. QED
    BY <2>2
<1>2. QED
  BY <1>1, TypeCorrect, SlotInvariant, PTL DEF Spec, NoRunnerAfterClose

(* Once the ingress stopped or a close began, no prompt takes the turn slot. *)
THEOREM BarrierStopsTurns == Spec => [][NoTurnAfterBarrier]_vars
<1> DEFINE Keeps == ingressStopped \/ closing => started' = started
<1>1. [Next]_vars => [Keeps]_vars
  <2> SUFFICES ASSUME [Next]_vars, started' # started
               PROVE  ~ingressStopped /\ ~closing
    OBVIOUS
  <2>1. PICK t \in Threads : \/ DrainNext(t)
                            \/ \E p \in Prompts : HandlePrompt(t, p)
    BY OnlyReservationsStart
  <2>2. QED
    BY <2>1 DEF DrainNext, MayDrain, HandlePrompt
<1>2. QED
  BY <1>1, PTL DEF Spec, NoTurnAfterBarrier

(* The session id rotates only between turns and before any teardown.        *)
THEOREM RotationsAreBetweenTurns == Spec => [][RotationBetweenTurns]_vars
<1> DEFINE Keeps == rotations' # rotations =>
                      /\ elected + tearing + torn = 0
                      /\ \A t \in Threads : ~InTurn(t)
<1>1. TypeOK /\ SlotInv /\ [Next]_vars => [Keeps]_vars
  <2> SUFFICES ASSUME TypeOK, SlotInv, [Next]_vars, rotations' # rotations
               PROVE  /\ elected + tearing + torn = 0
                      /\ \A t \in Threads : ~InTurn(t)
    OBVIOUS
  <2>1. PICK t \in Threads : NewSession(t)
    BY OnlyNewSessionRotates
  <2>2. phase # "turn_running" /\ ~closing
    BY <2>1 DEF NewSession, SlotFree
  <2>3. \A u \in Threads : ~InTurn(u)
    BY <2>2 DEF SlotInv, SingleTurn
  <2>4. elected + tearing + torn = 0
    BY <2>2 DEF SlotInv, OwnerStages, NoOwner
  <2>5. QED
    BY <2>3, <2>4
<1>2. QED
  BY <1>1, TypeCorrect, SlotInvariant, PTL DEF Spec, RotationBetweenTurns

-----------------------------------------------------------------------------
(* The drainer *)

(* A thread at the head or in the finally of the drain loop is the drainer.  *)
LoopIsDrainer == \A t \in Threads : pc[t] \in {"loop", "leave"} => inDrain[t]

DrainInv == DrainOwnership /\ LoopIsDrainer

(* DrainInv is an invariant: a drainer enters only when the flag is down,    *)
(* and only the drainer lowers it.                                           *)
LEMMA DrainInvariant == Spec => []DrainInv
<1>1. Init => DrainInv
  BY DEF Init, DrainInv, DrainOwnership, LoopIsDrainer
<1>2. TypeOK /\ DrainInv /\ [Next]_vars => DrainInv'
  <2> SUFFICES ASSUME TypeOK, DrainInv, [Next]_vars PROVE DrainInv'
    OBVIOUS
  <2> USE DEF TypeOK, FlagTypes, LocalTypes, DrainInv
  <2>1. ASSUME NEW t \in Threads, NEW p \in Prompts, HandlePrompt(t, p)
        PROVE  DrainInv'
    BY <2>1
    DEF HandlePrompt, SlotFree, BeginTurn, NewToken, DrainOwnership,
        LoopIsDrainer
  <2>2. ASSUME NEW t \in Threads, NEW p \in Prompts, HandlePromptBusy(t, p)
        PROVE  DrainInv'
    BY <2>2
    DEF HandlePromptBusy, SlotFree, Interject, DrainOwnership,
        LoopIsDrainer
  <2>3. ASSUME NEW t \in Threads, NEW p \in Prompts, SubmitPrompt(t, p)
        PROVE  DrainInv'
    BY <2>3 DEF SubmitPrompt, Push, DrainOwnership, LoopIsDrainer
  <2>4. ASSUME NEW t \in Threads, NEW p \in Prompts, EnqueueCheck(t, p)
        PROVE  DrainInv'
    BY <2>4 DEF EnqueueCheck, DrainOwnership, LoopIsDrainer
  <2>5. ASSUME NEW t \in Threads, NEW p \in Prompts, InterjectCheck(t, p)
        PROVE  DrainInv'
    BY <2>5 DEF InterjectCheck, DrainOwnership, LoopIsDrainer
  <2>6. ASSUME NEW t \in Threads, NewSession(t)
        PROVE  DrainInv'
    BY <2>6 DEF NewSession, SlotFree, DrainOwnership, LoopIsDrainer
  <2>7. ASSUME NEW t \in Threads, Close(t)
        PROVE  DrainInv'
    BY <2>7
    DEF Close, MarkClosing, FireToken, MustWait, DrainOwnership,
        LoopIsDrainer
  <2>8. ASSUME NEW t \in Threads, CloseInTurn(t)
        PROVE  DrainInv'
    BY <2>8
    DEF CloseInTurn, MarkClosing, FireToken, DrainOwnership,
        LoopIsDrainer
  <2>9. ASSUME NEW t \in Threads, StartTurn(t)
        PROVE  DrainInv'
    BY <2>9 DEF StartTurn, SkipRunner, DrainOwnership, LoopIsDrainer
  <2>10. ASSUME NEW t \in Threads, ReleaseTurn(t)
         PROVE  DrainInv'
    BY <2>10 DEF ReleaseTurn, AfterRelease, DrainOwnership, LoopIsDrainer
  <2>11. ASSUME NEW t \in Threads, EnqueuePush(t)
         PROVE  DrainInv'
    BY <2>11 DEF EnqueuePush, Push, DrainOwnership, LoopIsDrainer
  <2>12. ASSUME NEW t \in Threads, InterjectPush(t)
         PROVE  DrainInv'
    BY <2>12 DEF InterjectPush, Interject, DrainOwnership, LoopIsDrainer
  <2>13. ASSUME NEW t \in Threads, ReadDrainActive(t)
         PROVE  DrainInv'
    BY <2>13 DEF ReadDrainActive, AfterTurn, DrainOwnership, LoopIsDrainer
  <2>14. ASSUME NEW t \in Threads, PermitDrain(t)
         PROVE  DrainInv'
    BY <2>14 DEF PermitDrain, AfterTurn, DrainOwnership, LoopIsDrainer
  <2>15. ASSUME NEW t \in Threads, EnterDrain(t)
         PROVE  DrainInv'
    BY <2>15
    DEF EnterDrain, MayEnterDrain, MayDrain, AfterTurn, DrainOwnership,
        LoopIsDrainer
  <2>16. ASSUME NEW t \in Threads, DrainNext(t)
         PROVE  DrainInv'
    BY <2>16
    DEF DrainNext, MayDrain, BeginTurn, NewToken, DrainOwnership,
        LoopIsDrainer
  <2>17. ASSUME NEW t \in Threads, DrainStops(t)
         PROVE  DrainInv'
    BY <2>17 DEF DrainStops, MayDrain, DrainOwnership, LoopIsDrainer
  <2>18. ASSUME NEW t \in Threads, LeaveDrain(t)
         PROVE  DrainInv'
    BY <2>18 DEF LeaveDrain, DrainOwnership, LoopIsDrainer
  <2>19. ASSUME NEW t \in Threads, TurnAwaited(t)
         PROVE  DrainInv'
    BY <2>19 DEF TurnAwaited, DrainOwnership, LoopIsDrainer
  <2>20. ASSUME NEW t \in Threads, ElectFromClose(t)
         PROVE  DrainInv'
    BY <2>20
    DEF ElectFromClose, StartCloseFinalizer, HasOwner, DrainOwnership,
        LoopIsDrainer
  <2>21. ASSUME NEW t \in Threads, ElectFromTurn(t)
         PROVE  DrainInv'
    BY <2>21
    DEF ElectFromTurn, StartCloseFinalizer, HasOwner, AfterTurn,
        DrainOwnership, LoopIsDrainer
  <2>22. ASSUME NEW t \in Threads, CloseAwaited(t)
         PROVE  DrainInv'
    BY <2>22 DEF CloseAwaited, DrainOwnership, LoopIsDrainer
  <2>23. ASSUME NEW t \in Threads, DrainInterjections(t)
         PROVE  DrainInv'
    BY <2>23 DEF DrainInterjections, ToSet, DrainOwnership, LoopIsDrainer
  <2>24. ASSUME NEW t \in Threads, RunnerReturns(t)
         PROVE  DrainInv'
    BY <2>24 DEF RunnerReturns, DrainOwnership, LoopIsDrainer
  <2>25. ASSUME NEW t \in Threads, CloseTimesOut(t)
         PROVE  DrainInv'
    BY <2>25 DEF CloseTimesOut, DrainOwnership, LoopIsDrainer
  <2>26. CASE Cancel
    BY <2>26 DEF Cancel, FireToken, DrainOwnership, LoopIsDrainer
  <2>27. CASE StopPromptIngress
    BY <2>27 DEF StopPromptIngress, ToSet, DrainOwnership, LoopIsDrainer
  <2>28. CASE FinalizerBegins
    BY <2>28 DEF FinalizerBegins, DrainOwnership, LoopIsDrainer
  <2>29. CASE FinalizerEnds
    BY <2>29 DEF FinalizerEnds, SignalClosed, DrainOwnership, LoopIsDrainer
  <2>30. CASE UNCHANGED vars
    BY <2>30 DEF vars, DrainOwnership, LoopIsDrainer
  <2>31. QED
    BY <2>1, <2>2, <2>3, <2>4, <2>5, <2>6, <2>7, <2>8, <2>9, <2>10, <2>11,
       <2>12, <2>13, <2>14, <2>15, <2>16, <2>17, <2>18, <2>19, <2>20, <2>21,
       <2>22, <2>23, <2>24, <2>25, <2>26, <2>27, <2>28, <2>29, <2>30
    DEF Next, HostCall, ThreadStep
<1>3. QED
  BY <1>1, <1>2, TypeCorrect, PTL DEF Spec

(* The drain flag is up exactly while one thread is in its drain loop.       *)
THEOREM OneDrainer == Spec => []DrainOwnership
<1>1. DrainInv => DrainOwnership
  BY DEF DrainInv
<1>2. QED
  BY <1>1, DrainInvariant, PTL

(* The turn slot and the drain of the queue each have one owner, whatever    *)
(* the threads of the host do.                                               *)
THEOREM TurnsExclude == Spec => []TurnsAreExclusive
BY TurnsAreSingle, OneDrainer, PTL DEF TurnsAreExclusive

(* Teardown is begun once, and under no turn.                                *)
THEOREM TeardownExcludes == Spec => []TeardownIsSafe
BY TeardownWaitsForTurn, TeardownIsSingle, PTL DEF TeardownIsSafe

(* What a stop of the ingress or a close forbids never happens after it.     *)
THEOREM BarriersHold == Spec => BarrierHolds
BY BarrierStopsTurns, CloseStartsNoRunner, RotationsAreBetweenTurns, PTL
DEF BarrierHolds

-----------------------------------------------------------------------------
(* Prompts, tokens and the abstract session *)
(* The prompts that a thread holds past an unlocked check; the ones that     *)
(* went to a turn or the queue; the ones that became interjections.          *)
Holds(t, p) == InCall(t) /\ cur[t] = p
Turned(p) == p \in ToSet(started) \/ p \in ToSet(accepted)
Talked(p) == p \in toldQueued \/ p \in ToSet(interjections) \/ p \in delivered

(* A prompt is in one place: unseen, held by one thread, on its way to a     *)
(* turn of its own, or said to a running turn; and it is accepted once.      *)
OnePlace ==
    /\ \A p \in fresh : ~Turned(p) /\ ~Talked(p) /\ \A t \in Threads : ~Holds(t, p)
    /\ \A t \in Threads : InCall(t) =>
          /\ ~Turned(cur[t]) /\ ~Talked(cur[t])
          /\ \A u \in Threads \ {t} : ~Holds(u, cur[t])
    /\ \A p \in Prompts : Turned(p) => ~Talked(p)
    /\ \A a, b \in DOMAIN accepted : accepted[a] = accepted[b] => a = b

(* Nothing that waits was discarded. *)
ClearedIsTaken == \A p \in cleared : \E a \in 1 .. Taken : accepted[a] = p

(* Only tokens of turns that began are fired, and the flag tells of the      *)
(* latest turn's.                                                            *)
TokenFits ==
    /\ CancelFlagMatchesToken
    /\ \A p \in firedTokens \cup {cancelEvent} : p = NoPrompt \/ p \in ToSet(started)

PromptInv == OnePlace /\ QueueLedger /\ ClearedIsTaken /\ TokenFits

(* The elements of a sequence that grew, or lost its head.                   *)
LEMMA Grown ==
    ASSUME NEW s \in Seq(Prompts), NEW p \in Prompts
    PROVE  \A x : x \in ToSet(Append(s, p)) <=> x \in ToSet(s) \/ x = p
<1> DEFINE longer == Append(s, p)
<1>1. /\ longer \in Seq(Prompts) /\ DOMAIN longer = 1 .. Len(s) + 1
      /\ DOMAIN s = 1 .. Len(s) /\ Len(s) \in Nat
      /\ longer[Len(s) + 1] = p /\ \A i \in 1 .. Len(s) : longer[i] = s[i]
  OBVIOUS
<1> HIDE DEF longer
<1>2. ASSUME NEW x, x \in ToSet(longer) PROVE x \in ToSet(s) \/ x = p
  BY <1>1, <1>2 DEF ToSet
<1>3. ASSUME NEW x \in ToSet(s) PROVE x \in ToSet(longer)
  BY <1>1 DEF ToSet
<1>4. p \in ToSet(longer)
  BY <1>1 DEF ToSet
<1> QED BY <1>2, <1>3, <1>4 DEF longer

(* What no prompt's place depends on is unchanged. *)
Quiet ==
    /\ UNCHANGED <<queue, interjections, fresh, accepted, cleared, started, toldQueued,
                   delivered>>
    /\ \A t \in Threads : /\ InCall(t)' <=> InCall(t)
                          /\ InCall(t) => cur'[t] = cur[t]

(* Every other step is one of these. *)
Moves ==
    \/ \E t \in Threads :
          \/ EnqueuePush(t) \/ InterjectPush(t) \/ DrainNext(t) \/ DrainInterjections(t)
          \/ \E p \in Prompts :
                \/ HandlePrompt(t, p) \/ HandlePromptBusy(t, p)
                \/ SubmitPrompt(t, p) \/ EnqueueCheck(t, p) \/ InterjectCheck(t, p)
    \/ StopPromptIngress

(* Every step is one of the steps that move a prompt, or leaves the        *)
(* prompts where they are.                                                 *)
LEMMA QuietOrMoves ==
    ASSUME TypeOK, [Next]_vars
    PROVE  Quiet \/ Moves
<1>1. ASSUME NEW t \in Threads,
             \/ NewSession(t) \/ StartTurn(t) \/ ReadDrainActive(t) \/ PermitDrain(t)
             \/ EnterDrain(t) \/ DrainStops(t) \/ LeaveDrain(t) \/ TurnAwaited(t)
             \/ ElectFromClose(t) \/ ElectFromTurn(t) \/ CloseAwaited(t)
             \/ Close(t) \/ CloseInTurn(t) \/ ReleaseTurn(t) \/ RunnerReturns(t)
             \/ CloseTimesOut(t)
      PROVE  Quiet
  <2> USE DEF TypeOK, LocalTypes, Quiet
  <2>1. CASE NewSession(t) BY <2>1 DEF NewSession
  <2>2. CASE StartTurn(t) BY <2>2 DEF StartTurn, SkipRunner
  <2>3. CASE ReadDrainActive(t) BY <2>3 DEF ReadDrainActive, AfterTurn
  <2>4. CASE PermitDrain(t) BY <2>4 DEF PermitDrain, AfterTurn
  <2>5. CASE EnterDrain(t) BY <2>5 DEF EnterDrain, AfterTurn
  <2>6. CASE DrainStops(t) BY <2>6 DEF DrainStops
  <2>7. CASE LeaveDrain(t) BY <2>7 DEF LeaveDrain
  <2>8. CASE TurnAwaited(t) BY <2>8 DEF TurnAwaited
  <2>9. CASE ElectFromClose(t) BY <2>9 DEF ElectFromClose
  <2>10. CASE ElectFromTurn(t) BY <2>10 DEF ElectFromTurn, AfterTurn
  <2>11. CASE CloseAwaited(t) BY <2>11 DEF CloseAwaited
  <2>12. CASE Close(t) BY <2>12 DEF Close
  <2>13. CASE CloseInTurn(t) BY <2>13 DEF CloseInTurn
  <2>14. CASE ReleaseTurn(t) BY <2>14 DEF ReleaseTurn, AfterRelease
  <2>15. CASE RunnerReturns(t) BY <2>15 DEF RunnerReturns
  <2>16. CASE CloseTimesOut(t) BY <2>16 DEF CloseTimesOut
  <2> QED
    BY <1>1, <2>1, <2>2, <2>3, <2>4, <2>5, <2>6, <2>7, <2>8, <2>9, <2>10, <2>11,
             <2>12, <2>13, <2>14, <2>15, <2>16
<1>2. ASSUME Cancel \/ FinalizerBegins \/ FinalizerEnds \/ UNCHANGED vars
      PROVE  Quiet
  BY <1>2 DEF Cancel, FinalizerBegins, FinalizerEnds, vars, Quiet
<1> QED BY <1>1, <1>2 DEF Next, HostCall, ThreadStep, Moves

(* Every prompt stays in one place. *)
LEMMA OnePlaceStays ==
    ASSUME TypeOK, HasPrompt, OnePlace, QueueLedger, [Next]_vars
    PROVE  OnePlace'
<1>t. /\ accepted \in Seq(Prompts) /\ started \in Seq(Prompts) /\ queue \in Seq(Prompts)
      /\ interjections \in Seq(Prompts) /\ fresh \subseteq Prompts
      /\ pc \in [Threads -> Labels] /\ cur \in [Threads -> Prompts \cup {NoPrompt}]
  BY DEF TypeOK, LedgerTypes, LocalTypes
<1>0. CASE Quiet
  <2>1. \A p : (Turned(p)' <=> Turned(p)) /\ (Talked(p)' <=> Talked(p))
    BY <1>0 DEF Quiet, Turned, Talked
  <2>2. fresh' = fresh /\ accepted' = accepted BY <1>0 DEF Quiet
  <2>3. \A t \in Threads : InCall(t)' => InCall(t) /\ cur'[t] = cur[t]
    BY <1>0 DEF Quiet
  <2> QED BY <2>1, <2>2, <2>3 DEF OnePlace, Holds
<1> DEFINE Frame == \A t \in Threads : InCall(t)' => InCall(t) /\ cur'[t] = cur[t]
<1>1. ASSUME NEW t \in Threads, NEW p \in Prompts, HandlePrompt(t, p) PROVE OnePlace'
  <2>1. started' = Append(started, p) /\ p \in fresh /\ fresh' = fresh \ {p}
        /\ UNCHANGED <<accepted, toldQueued, delivered, interjections>>
    BY <1>1 DEF HandlePrompt, BeginTurn
  <2>2. \A x : Turned(x)' <=> Turned(x) \/ x = p BY <2>1, <1>t, Grown DEF Turned
  <2>3. \A x : Talked(x)' <=> Talked(x) BY <2>1 DEF Talked
  <2>4. Frame BY <1>1, <1>t DEF HandlePrompt, BeginTurn
  <2> QED BY <2>1, <2>2, <2>3, <2>4 DEF OnePlace, Holds
<1>2. ASSUME NEW t \in Threads, NEW p \in Prompts, HandlePromptBusy(t, p) PROVE OnePlace'
  <2>1. /\ interjections' = Append(interjections, p) /\ toldQueued' = toldQueued \cup {p}
        /\ p \in fresh /\ fresh' = fresh \ {p} /\ UNCHANGED <<accepted, started, delivered>>
    BY <1>2 DEF HandlePromptBusy, Interject
  <2>2. \A x : Talked(x)' <=> Talked(x) \/ x = p BY <2>1, <1>t, Grown DEF Talked
  <2>3. \A x : Turned(x)' <=> Turned(x) BY <2>1 DEF Turned
  <2>4. Frame BY <1>2, <1>t DEF HandlePromptBusy
  <2> QED BY <2>1, <2>2, <2>3, <2>4 DEF OnePlace, Holds
<1>3. ASSUME NEW t \in Threads, NEW p \in Prompts, SubmitPrompt(t, p) PROVE OnePlace'
  <2>1. /\ accepted' = Append(accepted, p)
        /\ p \in fresh /\ fresh' = fresh \ {p}
        /\ UNCHANGED <<started, delivered, interjections, toldQueued>>
    BY <1>3 DEF SubmitPrompt, Push
  <2>2. \A x : Turned(x)' <=> Turned(x) \/ x = p BY <2>1, <1>t, Grown DEF Turned
  <2>3. \A x : Talked(x)' <=> Talked(x) BY <2>1 DEF Talked
  <2>4. Frame BY <1>3, <1>t DEF SubmitPrompt
  <2>5. \A a, b \in DOMAIN accepted' : accepted'[a] = accepted'[b] => a = b
    <3>1. \A a \in DOMAIN accepted : accepted[a] # p
      BY <2>1 DEF OnePlace, Turned, ToSet
    <3> QED BY <1>t, <2>1, <3>1 DEF OnePlace
  <2> QED BY <2>1, <2>2, <2>3, <2>4, <2>5 DEF OnePlace, Holds
<1>4. ASSUME NEW t \in Threads, NEW p \in Prompts, EnqueueCheck(t, p) \/ InterjectCheck(t, p)
      PROVE OnePlace'
  <2>1. /\ p \in fresh /\ fresh' = fresh \ {p} /\ InCall(t)' /\ cur'[t] = p
        /\ UNCHANGED <<accepted, started, delivered, interjections, toldQueued>>
    BY <1>4, <1>t DEF EnqueueCheck, InterjectCheck
  <2>2. \A x : Turned(x)' <=> Turned(x) BY <2>1 DEF Turned
  <2>3. \A x : Talked(x)' <=> Talked(x) BY <2>1 DEF Talked
  <2>4. \A u \in Threads \ {t} : (InCall(u)' <=> InCall(u)) /\ cur'[u] = cur[u]
    BY <1>4, <1>t DEF EnqueueCheck, InterjectCheck
  <2> QED BY <2>1, <2>2, <2>3, <2>4 DEF OnePlace, Holds
<1>5. ASSUME NEW t \in Threads, EnqueuePush(t) PROVE OnePlace'
  <2> DEFINE p == cur[t]
  <2>1. /\ InCall(t) /\ p \in Prompts /\ ~InCall(t)'
        /\ UNCHANGED <<started, delivered, interjections, toldQueued>>
        /\ \A u \in Threads \ {t} : (InCall(u)' <=> InCall(u)) /\ cur'[u] = cur[u]
    BY <1>5, <1>t DEF EnqueuePush, HasPrompt
  <2>2. ~Turned(p) /\ ~Talked(p) /\ p \notin fresh /\ \A u \in Threads \ {t} : ~Holds(u, p)
    BY <2>1 DEF OnePlace, Holds
  <2>3. \A x : Talked(x)' <=> Talked(x) BY <2>1 DEF Talked
  <2>4. CASE accepted' = Append(accepted, p) /\ fresh' = fresh
    <3> HIDE DEF p
    <3>1. \A x : Turned(x)' <=> Turned(x) \/ x = p
      BY <2>1, <2>4, <1>t, Grown DEF Turned
    <3>2. \A a, b \in DOMAIN accepted' : accepted'[a] = accepted'[b] => a = b
      <4>1. \A a \in DOMAIN accepted : accepted[a] # p BY <2>2 DEF Turned, ToSet
      <4> QED BY <1>t, <2>1, <2>4, <4>1 DEF OnePlace
    <3> QED BY <2>1, <2>2, <2>3, <2>4, <3>1, <3>2 DEF OnePlace, Holds
  <2>5. CASE accepted' = accepted /\ fresh' = fresh \cup {p}
    <3>1. \A x : Turned(x)' <=> Turned(x) BY <2>1, <2>5 DEF Turned
    <3> HIDE DEF p
    <3> QED BY <2>1, <2>2, <2>3, <2>5, <3>1 DEF OnePlace, Holds
  <2> QED BY <1>5, <2>4, <2>5 DEF EnqueuePush, Push
<1>6. ASSUME NEW t \in Threads, InterjectPush(t) PROVE OnePlace'
  <2> DEFINE p == cur[t]
  <2>1. /\ InCall(t) /\ p \in Prompts /\ ~InCall(t)'
        /\ UNCHANGED <<started, delivered, accepted, toldQueued, fresh>>
        /\ interjections' = Append(interjections, p)
        /\ \A u \in Threads \ {t} : (InCall(u)' <=> InCall(u)) /\ cur'[u] = cur[u]
    BY <1>6, <1>t DEF InterjectPush, Interject, HasPrompt
  <2>2. ~Turned(p) /\ p \notin fresh /\ \A u \in Threads \ {t} : ~Holds(u, p)
    BY <2>1 DEF OnePlace, Holds
  <2> HIDE DEF p
  <2>3. \A x : Talked(x)' <=> Talked(x) \/ x = p BY <2>1, <1>t, Grown DEF Talked
  <2>4. \A x : Turned(x)' <=> Turned(x) BY <2>1 DEF Turned
  <2> QED BY <2>1, <2>2, <2>3, <2>4 DEF OnePlace, Holds
<1>7. ASSUME NEW t \in Threads, DrainNext(t) PROVE OnePlace'
  <2> DEFINE p == Head(queue)
  <2>1. /\ queue # <<>> /\ started' = Append(started, p)
        /\ UNCHANGED <<accepted, toldQueued, delivered, interjections, fresh>>
    BY <1>7 DEF DrainNext, BeginTurn
  <2>2. p \in Prompts /\ p \in ToSet(accepted)
    <3>1. 1 \in DOMAIN queue /\ p = queue[1] /\ p \in Prompts BY <2>1, <1>t
    <3>2. p = accepted[Taken + 1] /\ Taken + 1 \in DOMAIN accepted
      BY <3>1, <1>t DEF QueueLedger, Taken
    <3> QED BY <3>1, <3>2 DEF ToSet
  <2>3. Frame BY <1>7, <1>t DEF DrainNext, BeginTurn
  <2> HIDE DEF p
  <2>4. \A x : Turned(x)' <=> Turned(x) BY <2>1, <2>2, <1>t, Grown DEF Turned
  <2>5. \A x : Talked(x)' <=> Talked(x) BY <2>1 DEF Talked
  <2> QED BY <2>1, <2>3, <2>4, <2>5 DEF OnePlace, Holds
<1>8. ASSUME NEW t \in Threads, DrainInterjections(t) PROVE OnePlace'
  <2>1. /\ delivered' = delivered \cup ToSet(interjections) /\ interjections' = <<>>
        /\ UNCHANGED <<accepted, started, toldQueued, fresh, pc, cur>>
    BY <1>8 DEF DrainInterjections
  <2>2. ToSet(<<>>) = {} BY DEF ToSet
  <2>3. \A x : Talked(x)' <=> Talked(x) BY <2>1, <2>2 DEF Talked
  <2>4. \A x : Turned(x)' <=> Turned(x) BY <2>1 DEF Turned
  <2> QED BY <2>1, <2>3, <2>4 DEF OnePlace, Holds
<1>9. CASE StopPromptIngress
  <2>1. UNCHANGED <<accepted, started, toldQueued, fresh, pc, cur, delivered, interjections>>
    BY <1>9 DEF StopPromptIngress
  <2>2. \A x : (Talked(x)' <=> Talked(x)) /\ (Turned(x)' <=> Turned(x))
    BY <2>1 DEF Talked, Turned
  <2> QED BY <2>1, <2>2 DEF OnePlace, Holds
<1> QED BY <1>0, <1>1, <1>2, <1>3, <1>4, <1>5, <1>6, <1>7, <1>8, <1>9, QuietOrMoves
        DEF Moves

(* What was accepted keeps its order on its way. *)
LEMMA LedgerStays ==
    ASSUME TypeOK, HasPrompt, OnePlace, QueueLedger, ClearedIsTaken, [Next]_vars
    PROVE  QueueLedger' /\ ClearedIsTaken'
<1>t. /\ accepted \in Seq(Prompts) /\ started \in Seq(Prompts) /\ queue \in Seq(Prompts)
      /\ fresh \subseteq Prompts
      /\ Len(accepted) \in Nat /\ DOMAIN accepted = 1 .. Len(accepted)
      /\ Len(started) \in Nat /\ DOMAIN started = 1 .. Len(started)
      /\ Len(queue) \in Nat /\ DOMAIN queue = 1 .. Len(queue)
      /\ Taken = Len(accepted) - Len(queue) /\ Taken \in Nat /\ Taken <= Len(accepted)
  <2>1. /\ accepted \in Seq(Prompts) /\ started \in Seq(Prompts) /\ queue \in Seq(Prompts)
        /\ fresh \subseteq Prompts
    BY DEF TypeOK, LedgerTypes
  <2> QED BY <2>1 DEF QueueLedger, Taken
<1>q. \A a \in DOMAIN accepted : a > Taken => a - Taken \in DOMAIN queue
                                              /\ accepted[a] = queue[a - Taken]
  BY SMTT(30), <1>t DEF QueueLedger
<1>0. CASE UNCHANGED <<queue, accepted, cleared, started>>
  BY <1>0 DEF QueueLedger, ClearedIsTaken, Taken
<1>1. ASSUME NEW p \in Prompts, started' = Append(started, p), p \notin ToSet(accepted),
             UNCHANGED <<queue, accepted, cleared>>
      PROVE  QueueLedger' /\ ClearedIsTaken'
  <2>1. Taken' = Taken BY <1>1 DEF Taken
  <2>2. \A x : x \in ToSet(started)' <=> x \in ToSet(started) \/ x = p
    BY <1>1, <1>t, Grown
  <2>3. \A a \in DOMAIN accepted : accepted[a] # p BY <1>1 DEF ToSet
  <2>4. /\ DOMAIN started' = 1 .. Len(started) + 1 /\ started'[Len(started) + 1] = p
        /\ \A i \in 1 .. Len(started) : started'[i] = started[i]
    BY <1>1, <1>t
  <2>5. \A a \in 1 .. Taken : accepted[a] \in cleared <=> accepted[a] \notin ToSet(started)'
    BY SMTT(30), <1>t, <2>2, <2>3 DEF QueueLedger
  <2>6. \A i \in DOMAIN started', a \in DOMAIN accepted : started'[i] = accepted[a] =>
          i \in DOMAIN started /\ started[i] = accepted[a]
    BY <1>t, <2>3, <2>4
  <2>7. \A i \in DOMAIN started', a \in DOMAIN accepted : started'[i] = accepted[a] =>
          /\ a <= Taken
          /\ \A j \in 1 .. i - 1, b \in DOMAIN accepted : started'[j] = accepted[b] => b < a
    <3> SUFFICES ASSUME NEW i \in DOMAIN started', NEW a \in DOMAIN accepted,
                        started'[i] = accepted[a]
                 PROVE  /\ a <= Taken
                        /\ \A j \in 1 .. i - 1, b \in DOMAIN accepted :
                              started'[j] = accepted[b] => b < a
      OBVIOUS
    <3>1. i \in DOMAIN started /\ started[i] = accepted[a] BY <2>6
    <3>2. \A j \in 1 .. i - 1 : started'[j] = started[j] BY <1>t, <2>4, <3>1
    <3> QED BY <3>1, <3>2 DEF QueueLedger
  <2> QED BY <1>1, <2>1, <2>5, <2>7 DEF QueueLedger, ClearedIsTaken
<1>2. ASSUME NEW p \in Prompts, accepted' = Append(accepted, p), queue' = Append(queue, p),
             p \notin ToSet(started), UNCHANGED <<started, cleared>>
      PROVE  QueueLedger' /\ ClearedIsTaken'
  <2>1. /\ DOMAIN accepted' = 1 .. Len(accepted) + 1 /\ accepted'[Len(accepted) + 1] = p
        /\ \A i \in 1 .. Len(accepted) : accepted'[i] = accepted[i]
        /\ DOMAIN queue' = 1 .. Len(queue) + 1 /\ queue'[Len(queue) + 1] = p
        /\ \A i \in 1 .. Len(queue) : queue'[i] = queue[i]
        /\ Len(accepted') = Len(accepted) + 1 /\ Len(queue') = Len(queue) + 1
    BY <1>2, <1>t
  <2>2. Taken' = Taken BY <1>t, <2>1 DEF Taken
  <2>3. \A i \in DOMAIN started : started[i] # p BY <1>2 DEF ToSet
  <2>4. \A i \in DOMAIN queue' : queue'[i] = accepted'[Taken + i]
    <3>1. \A i \in 1 .. Len(queue) : queue[i] = accepted[Taken + i]
      BY <1>t DEF QueueLedger
    <3>4. \A i \in 1 .. Len(queue) : Taken + i \in 1 .. Len(accepted) BY <1>t
    <3>2. Taken + (Len(queue) + 1) = Len(accepted) + 1 BY <1>t
    <3>3. \A i \in 1 .. Len(queue) + 1 : i \in 1 .. Len(queue) \/ i = Len(queue) + 1
      BY <1>t
    <3> QED BY <2>1, <3>1, <3>2, <3>3, <3>4
  <2>5. ClearedIsTaken' BY <1>2, <1>t, <2>1, <2>2 DEF ClearedIsTaken
  <2>6. \A a \in 1 .. Taken : accepted'[a] \in cleared <=> accepted'[a] \notin ToSet(started)
    BY <1>t, <2>1 DEF QueueLedger
  <2>7. \A i \in DOMAIN started, a \in DOMAIN accepted' : started[i] = accepted'[a] =>
          /\ a <= Taken
          /\ \A j \in 1 .. i - 1, b \in DOMAIN accepted' : started[j] = accepted'[b] => b < a
    <3> SUFFICES ASSUME NEW i \in DOMAIN started, NEW a \in DOMAIN accepted',
                        started[i] = accepted'[a]
                 PROVE  /\ a <= Taken
                        /\ \A j \in 1 .. i - 1, b \in DOMAIN accepted' :
                              started[j] = accepted'[b] => b < a
      OBVIOUS
    <3>1. a \in DOMAIN accepted /\ started[i] = accepted[a] BY <1>t, <2>1, <2>3
    <3>2. \A j \in 1 .. i - 1 : j \in DOMAIN started BY <1>t
    <3>3. \A j \in 1 .. i - 1, b \in DOMAIN accepted' : started[j] = accepted'[b] =>
            b \in DOMAIN accepted /\ started[j] = accepted[b]
      BY SMTT(30), <1>t, <2>1, <2>3, <3>2
    <3> QED BY <3>1, <3>3 DEF QueueLedger
  <2> QED BY SMTT(30), <1>2, <1>t, <2>2, <2>4, <2>5, <2>6, <2>7 DEF QueueLedger
<1>3. ASSUME queue # <<>>, queue' = Tail(queue), started' = Append(started, Head(queue)),
             UNCHANGED <<accepted, cleared>>
      PROVE  QueueLedger' /\ ClearedIsTaken'
  <2> DEFINE p == Head(queue)
  <2>1. /\ p \in Prompts /\ p = queue[1] /\ 1 \in DOMAIN queue
        /\ queue' \in Seq(Prompts) /\ Len(queue') = Len(queue) - 1
        /\ \A i \in DOMAIN queue' : i + 1 \in DOMAIN queue /\ queue'[i] = queue[i + 1]
    BY <1>3, <1>t
  <2>2. Taken' = Taken + 1 /\ Taken + 1 \in DOMAIN accepted /\ p = accepted[Taken + 1]
    <3>1. Taken' = Taken + 1 /\ Taken + 1 \in DOMAIN accepted
      BY <1>3, <1>t, <2>1 DEF Taken
    <3>2. queue[1] = accepted[Taken + 1] BY <2>1 DEF QueueLedger
    <3> QED BY <2>1, <3>1, <3>2
  <2> HIDE DEF p
  <2>3. \A x : x \in ToSet(started)' <=> x \in ToSet(started) \/ x = p
    BY <1>3, <1>t, <2>1, Grown DEF p
  <2>4. /\ DOMAIN started' = 1 .. Len(started) + 1 /\ started'[Len(started) + 1] = p
        /\ \A i \in 1 .. Len(started) : started'[i] = started[i]
    BY <1>3, <1>t DEF p
  <2>5. \A a \in DOMAIN accepted : accepted[a] = p => a = Taken + 1
    BY <2>2, <1>t DEF OnePlace
  <2>6. \A i \in DOMAIN queue' : queue'[i] = accepted'[Taken' + i]
    <3> SUFFICES ASSUME NEW i \in DOMAIN queue' PROVE queue'[i] = accepted[Taken' + i]
      BY <1>3
    <3>1. i + 1 \in DOMAIN queue /\ queue'[i] = queue[i + 1] BY <2>1
    <3>2. i \in Nat BY <2>1
    <3>3. queue[i + 1] = accepted[Taken + (i + 1)] BY <3>1 DEF QueueLedger
    <3>4. Taken + (i + 1) = Taken' + i BY <1>t, <2>2, <3>2
    <3> QED BY <3>1, <3>3, <3>4
  <2>7. ClearedIsTaken'
    <3>1. 1 .. Taken \subseteq 1 .. Taken' BY <1>t, <2>2
    <3> QED BY <1>3, <3>1 DEF ClearedIsTaken
  <2>8. \A a \in 1 .. Taken' : accepted[a] \in cleared <=> accepted[a] \notin ToSet(started)'
    <3>1. p \notin cleared BY <2>5, <1>t DEF ClearedIsTaken
    <3> QED BY <1>t, <2>2, <2>3, <2>5, <3>1 DEF QueueLedger
  <2>9. \A i \in DOMAIN started', a \in DOMAIN accepted : started'[i] = accepted[a] =>
          /\ a <= Taken'
          /\ \A j \in 1 .. i - 1, b \in DOMAIN accepted : started'[j] = accepted[b] => b < a
    <3> SUFFICES ASSUME NEW i \in DOMAIN started', NEW a \in DOMAIN accepted,
                        started'[i] = accepted[a]
                 PROVE  /\ a <= Taken'
                        /\ \A j \in 1 .. i - 1, b \in DOMAIN accepted :
                              started'[j] = accepted[b] => b < a
      OBVIOUS
    <3>1. \A j \in 1 .. i - 1 : j \in DOMAIN started /\ started'[j] = started[j]
      BY <1>t, <2>4
    <3>2. CASE i = Len(started) + 1
      <4>1. a = Taken + 1 BY <2>4, <2>5, <3>2
      <4>2. \A j \in DOMAIN started, b \in DOMAIN accepted :
              started[j] = accepted[b] => b <= Taken
        BY DEF QueueLedger
      <4>3. a <= Taken' BY <1>t, <2>2, <4>1
      <4>4. \A b \in DOMAIN accepted : b <= Taken => b < a BY <1>t, <4>1
      <4> QED BY <3>1, <4>2, <4>3, <4>4
    <3>3. CASE i \in DOMAIN started
      <4>1. started[i] = accepted[a] BY <1>t, <2>4, <3>3
      <4>2. a <= Taken
            /\ \A j \in 1 .. i - 1, b \in DOMAIN accepted : started[j] = accepted[b] => b < a
        BY <3>3, <4>1 DEF QueueLedger
      <4>3. a <= Taken' BY <1>t, <2>2, <4>2
      <4> QED BY <3>1, <4>2, <4>3
    <3> QED BY <1>t, <2>4, <3>2, <3>3
  <2> QED BY <1>3, <1>t, <2>2, <2>6, <2>7, <2>8, <2>9 DEF QueueLedger
<1>4. ASSUME queue' = <<>>, cleared' = cleared \cup ToSet(queue),
             UNCHANGED <<accepted, started>>
      PROVE  QueueLedger' /\ ClearedIsTaken'
  <2>1. Taken' = Len(accepted) /\ DOMAIN queue' = {} BY <1>4, <1>t DEF Taken
  <2>2. \A a \in DOMAIN accepted : accepted[a] \in ToSet(queue) <=> a > Taken
    <3>1. ASSUME NEW a \in DOMAIN accepted, a > Taken PROVE accepted[a] \in ToSet(queue)
      BY <1>q, <3>1 DEF ToSet
    <3>2. ASSUME NEW a \in DOMAIN accepted, accepted[a] \in ToSet(queue) PROVE a > Taken
      <4>1. PICK i \in DOMAIN queue : queue[i] = accepted[a] BY <3>2 DEF ToSet
      <4>2. accepted[Taken + i] = accepted[a] /\ Taken + i \in DOMAIN accepted
        BY <4>1, <1>t DEF QueueLedger
      <4> QED BY <4>1, <4>2, <1>t DEF OnePlace
    <3> QED BY <3>1, <3>2
  <2>3. \A a \in DOMAIN accepted : accepted[a] \in cleared => a <= Taken
    <3> SUFFICES ASSUME NEW a \in DOMAIN accepted, accepted[a] \in cleared PROVE a <= Taken
      OBVIOUS
    <3>1. PICK b \in 1 .. Taken : accepted[b] = accepted[a] BY DEF ClearedIsTaken
    <3> QED BY SMTT(30), <1>t, <3>1 DEF OnePlace
  <2>4. \A a \in DOMAIN accepted : accepted[a] \in ToSet(started) => a <= Taken
    BY DEF QueueLedger, ToSet
  <2>5. \A a \in 1 .. Len(accepted) :
          accepted[a] \in cleared' <=> accepted[a] \notin ToSet(started)
    BY SMTT(30), <1>4, <1>t, <2>2, <2>3, <2>4 DEF QueueLedger
  <2>6. ClearedIsTaken'
    <3>1. ASSUME NEW x \in ToSet(queue) PROVE \E a \in 1 .. Len(accepted) : accepted[a] = x
      <4>1. PICK i \in DOMAIN queue : queue[i] = x BY <3>1 DEF ToSet
      <4> QED BY <4>1, <1>t DEF QueueLedger
    <3> QED BY <1>4, <1>t, <2>1, <3>1 DEF ClearedIsTaken
  <2>7. DOMAIN accepted' = 1 .. Taken' /\ started' = started /\ accepted' = accepted
    BY <1>4, <1>t, <2>1
  <2>8. \A i \in DOMAIN started, a \in DOMAIN accepted : started[i] = accepted[a] =>
          \A j \in 1 .. i - 1, b \in DOMAIN accepted : started[j] = accepted[b] => b < a
    BY DEF QueueLedger
  <2> QED BY <1>t, <2>1, <2>5, <2>6, <2>7, <2>8 DEF QueueLedger
<1>5. ASSUME Moves PROVE QueueLedger' /\ ClearedIsTaken'
  <2>1. ASSUME NEW t \in Threads, NEW p \in Prompts, HandlePrompt(t, p)
        PROVE  QueueLedger' /\ ClearedIsTaken'
    <3>1. p \notin ToSet(accepted) BY <2>1 DEF HandlePrompt, OnePlace, Turned
    <3> QED BY <1>1, <2>1, <3>1 DEF HandlePrompt, BeginTurn
  <2>2. ASSUME NEW t \in Threads, NEW p \in Prompts, SubmitPrompt(t, p)
        PROVE  QueueLedger' /\ ClearedIsTaken'
    <3>1. p \notin ToSet(started) BY <2>2 DEF SubmitPrompt, OnePlace, Turned
    <3> QED BY <1>2, <2>2, <3>1 DEF SubmitPrompt, Push
  <2>3. ASSUME NEW t \in Threads, EnqueuePush(t) PROVE QueueLedger' /\ ClearedIsTaken'
    <3>1. cur[t] \in Prompts /\ cur[t] \notin ToSet(started)
      BY <2>3 DEF EnqueuePush, HasPrompt, OnePlace, Turned
    <3> QED BY <1>0, <1>2, <2>3, <3>1 DEF EnqueuePush, Push
  <2>4. ASSUME NEW t \in Threads, DrainNext(t) PROVE QueueLedger' /\ ClearedIsTaken'
    BY <1>3, <2>4 DEF DrainNext, BeginTurn
  <2>5. CASE StopPromptIngress BY <1>0, <1>4, <2>5 DEF StopPromptIngress
  <2>6. ASSUME NEW t \in Threads,
               \/ InterjectPush(t) \/ DrainInterjections(t)
               \/ \E p \in Prompts : \/ HandlePromptBusy(t, p) \/ EnqueueCheck(t, p)
                                     \/ InterjectCheck(t, p)
        PROVE  QueueLedger' /\ ClearedIsTaken'
    BY <1>0, <2>6 DEF InterjectPush, Interject, DrainInterjections,
       HandlePromptBusy,
                      EnqueueCheck, InterjectCheck
  <2> QED BY <1>5, <2>1, <2>2, <2>3, <2>4, <2>5, <2>6 DEF Moves
<1> QED BY <1>0, <1>5, QuietOrMoves DEF Quiet

(* A turn's token is nobody's before, and only the latest turn's is fired.   *)
LEMMA TokenStays ==
    ASSUME TypeOK, OnePlace, QueueLedger, TokenFits, [Next]_vars
    PROVE  TokenFits' /\ TokensArePermanent
<1>t. started \in Seq(Prompts) /\ queue \in Seq(Prompts) /\ accepted \in Seq(Prompts)
  BY DEF TypeOK, LedgerTypes
<1>1. ASSUME NEW p \in Prompts, p \notin ToSet(started), NewToken(p),
             started' = Append(started, p)
      PROVE  TokenFits' /\ TokensArePermanent
  <2>1. p \notin firedTokens BY <1>1, SessionAssumption DEF TokenFits
  <2>2. \A x : x \in ToSet(started)' <=> x \in ToSet(started) \/ x = p
    BY <1>1, <1>t, Grown
  <2> QED BY <1>1, <2>1, <2>2
          DEF NewToken, TokenFits, CancelFlagMatchesToken, TokensArePermanent
<1>2. ASSUME FireToken, started' = started
      PROVE  TokenFits' /\ TokensArePermanent
  BY <1>2 DEF FireToken, TokenFits, CancelFlagMatchesToken, TokensArePermanent
<1>3. ASSUME UNCHANGED token, started' = started
      PROVE  TokenFits' /\ TokensArePermanent
  BY <1>3 DEF TokenFits, CancelFlagMatchesToken, TokensArePermanent
<1>4. ASSUME NEW t \in Threads, NEW p \in Prompts, HandlePrompt(t, p)
      PROVE  TokenFits' /\ TokensArePermanent
  <2>1. p \notin ToSet(started) BY <1>4 DEF HandlePrompt, OnePlace, Turned
  <2> QED BY <1>1, <1>4, <2>1 DEF HandlePrompt, BeginTurn
<1>5. ASSUME NEW t \in Threads, DrainNext(t)
      PROVE  TokenFits' /\ TokensArePermanent
  <2> DEFINE p == Head(queue)
  <2>1. NewToken(p) /\ started' = Append(started, p) /\ queue # <<>>
    BY <1>5 DEF DrainNext, BeginTurn
  <2>2. p \in Prompts /\ p = queue[1] /\ 1 \in DOMAIN queue BY <1>t, <2>1
  <2> HIDE DEF p
  <2>3. /\ p = accepted[Taken + 1] /\ Len(accepted) \in Nat /\ Len(queue) \in Nat
        /\ 1 <= Len(queue) /\ Taken = Len(accepted) - Len(queue)
        /\ DOMAIN accepted = 1 .. Len(accepted) /\ Taken >= 0
    BY <1>t, <2>2 DEF QueueLedger, Taken
  <2>4. Taken + 1 \in DOMAIN accepted /\ ~(Taken + 1 <= Taken) BY <2>3
  <2>5. p \notin ToSet(started) BY <2>3, <2>4 DEF QueueLedger, ToSet
  <2> QED BY <1>1, <2>1, <2>2, <2>5
<1>6. ASSUME ~(\E t \in Threads : DrainNext(t) \/ \E p \in Prompts : HandlePrompt(t, p))
      PROVE  started' = started
  BY <1>6, OnlyReservationsStart
<1>7. ASSUME ~(\E t \in Threads : DrainNext(t) \/ \E p \in Prompts : HandlePrompt(t, p))
      PROVE  UNCHANGED token \/ FireToken
  BY <1>7
  DEF Next, HostCall, ThreadStep, vars, NewSession, StartTurn,
      HandlePromptBusy, SubmitPrompt, EnqueueCheck, InterjectCheck,
      Close, CloseInTurn, MarkClosing, ReleaseTurn, EnqueuePush, InterjectPush,
      ReadDrainActive, PermitDrain, EnterDrain, DrainStops, LeaveDrain,
      TurnAwaited, ElectFromClose, ElectFromTurn, CloseAwaited,
      DrainInterjections, RunnerReturns, CloseTimesOut, Cancel,
      StopPromptIngress, FinalizerBegins, FinalizerEnds
<1> QED BY <1>2, <1>3, <1>4, <1>5, <1>6, <1>7

(* PromptInv is an invariant. *)
LEMMA PromptInvariant == Spec => []PromptInv
<1>1. Init => PromptInv
  <2> SUFFICES ASSUME Init PROVE PromptInv OBVIOUS
  <2>1. ToSet(<<>>) = {} BY DEF ToSet
  <2>2. OnePlace BY <2>1 DEF Init, OnePlace, Turned, Talked, Holds
  <2>3. QueueLedger /\ ClearedIsTaken
    BY DEF Init, QueueLedger, ClearedIsTaken, Taken
  <2>4. TokenFits BY DEF Init, TokenFits, CancelFlagMatchesToken
  <2> QED BY <2>2, <2>3, <2>4 DEF PromptInv
<1>2. TypeOK /\ HasPrompt /\ PromptInv /\ [Next]_vars => PromptInv'
  BY OnePlaceStays, LedgerStays, TokenStays DEF PromptInv
<1> QED BY <1>1, <1>2, TypeCorrect, PTL DEF Spec

(* Of an accepted prompt there is one place, and of the queue one order.     *)
THEOREM PromptsAreKept == Spec => []PromptsGoOneWay
<1>1. TypeOK /\ PromptInv => PromptsGoOneWay
  <2> SUFFICES ASSUME TypeOK, PromptInv PROVE PromptsGoOneWay OBVIOUS
  <2>t. /\ accepted \in Seq(Prompts) /\ started \in Seq(Prompts) /\ queue \in Seq(Prompts)
        /\ interjections \in Seq(Prompts)
        /\ toldQueued \subseteq Prompts /\ delivered \subseteq Prompts
    BY DEF TypeOK, LedgerTypes
  <2>1. QueueLedger /\ OnePlace BY DEF PromptInv
  <2>2. \A p \in ToSet(queue) : p \in ToSet(accepted)
    <3> SUFFICES ASSUME NEW i \in DOMAIN queue PROVE queue[i] \in ToSet(accepted)
      BY DEF ToSet
    <3>1. /\ Len(accepted) \in Nat /\ Len(queue) \in Nat /\ i \in 1 .. Len(queue)
          /\ Taken = Len(accepted) - Len(queue) /\ DOMAIN accepted = 1 .. Len(accepted)
          /\ Taken >= 0 /\ queue[i] = accepted[Taken + i]
      BY <2>t, <2>1 DEF QueueLedger, Taken
    <3>2. Taken + i \in DOMAIN accepted BY <3>1
    <3> QED BY <3>1, <3>2 DEF ToSet
  <2>3. \A p \in ToSet(started) \cup ToSet(queue) : p \in Prompts /\ Turned(p)
    <3>1. \A p \in ToSet(started) : p \in Prompts BY <2>t DEF ToSet
    <3>2. \A p \in ToSet(queue) : p \in Prompts BY <2>t DEF ToSet
    <3> QED BY <2>2, <3>1, <3>2 DEF Turned
  <2>4. NoDoubleRun BY <2>1, <2>3 DEF NoDoubleRun, OnePlace, Talked
  <2> QED BY <2>1, <2>4 DEF PromptsGoOneWay
<1> QED BY <1>1, TypeCorrect, PromptInvariant, PTL

(* The flag and the token of a turn never disagree, and what is fired stays  *)
(* fired.                                                                    *)
THEOREM CancelsAreSeen == Spec => CancelIsSeen
<1>1. TypeOK /\ PromptInv /\ [Next]_vars
      => [CancelFlagMatchesToken' /\ TokensArePermanent]_vars
  BY TokenStays DEF PromptInv, TokenFits
<1> QED BY <1>1, TypeCorrect, PromptInvariant, PTL DEF Spec, CancelIsSeen

-----------------------------------------------------------------------------
(* The session implements SerialSession *)

(* Where no thread takes or leaves a turn, the same prompt runs. *)
LEMMA SameRuns ==
    ASSUME \A u \in Threads : /\ InTurn(u)' <=> InTurn(u)
                              /\ InTurn(u) => cur'[u] = cur[u]
    PROVE  Running' = Running
BY DEF Running

(* Where no thread begins or ends a call, the same prompts are held. *)
LEMMA SameHeld ==
    ASSUME fresh' = fresh,
           \A u \in Threads : /\ InCall(u)' <=> InCall(u)
                              /\ InCall(u) => cur'[u] = cur[u]
    PROVE  Unseen' = Unseen
BY DEF Unseen

(* A turn that reserves a free slot is the one that runs. *)
LEMMA Reserved ==
    ASSUME TypeOK, SlotInv, NEW t \in Threads, NEW p \in Prompts, BeginTurn(t, p),
           SlotFree, ~InTurn(t)
    PROVE  Running = {} /\ Running' = {p}
<1>1. /\ pc \in [Threads -> Labels] /\ cur \in [Threads -> Prompts \cup {NoPrompt}]
      /\ \A u \in Threads : ~InTurn(u)
  BY DEF TypeOK, LocalTypes, SlotInv, SingleTurn, SlotFree
<1>2. /\ InTurn(t)' /\ cur'[t] = p
      /\ \A u \in Threads \ {t} : ~InTurn(u)'
  BY <1>1 DEF BeginTurn
<1> QED BY <1>1, <1>2 DEF Running

(* Every step of the session is a step of SerialSession, or none. *)
LEMMA SerialStep ==
    ASSUME TypeOK, HasPrompt, SlotInv, OnePlace, [Next]_vars
    PROVE  [Serial!Next]_(Serial!vars)
<1>t. /\ pc \in [Threads -> Labels] /\ cur \in [Threads -> Prompts \cup {NoPrompt}]
      /\ queue \in Seq(Prompts) /\ interjections \in Seq(Prompts) /\ fresh \subseteq Prompts
      /\ elected \in Nat /\ tearing \in Nat /\ torn \in Nat /\ closing \in BOOLEAN
  BY DEF TypeOK, LocalTypes, LedgerTypes, CounterTypes, FlagTypes
<1>l. /\ closing => Life # "open"
      /\ ~closing => Life = "open"
      /\ elected > 0 => Life = "closing" /\ Running = {}
      /\ tearing > 0 => Life = "torn"
  BY <1>t DEF SlotInv, OwnerStages, NoOwner, Elected, AtWork, Finished, SingleTurn,
     Life,
              Running
<1>s. ASSUME UNCHANGED <<Unseen, queue, Running, ended, interjections, delivered, Life>>
      PROVE  UNCHANGED Serial!vars
  BY <1>s DEF Serial!vars
<1>1. ASSUME NEW t \in Threads, NEW p \in Prompts, HandlePrompt(t, p) PROVE Serial!RunNow(p)
  <2>1. /\ BeginTurn(t, p) /\ SlotFree /\ ~InTurn(t) /\ p \in fresh /\ ~closing
        /\ fresh' = fresh \ {p}
        /\ UNCHANGED <<queue, ended, interjections, delivered, lifecycle>>
    BY <1>1 DEF HandlePrompt
  <2>2. Running = {} /\ Running' = {p} BY <2>1, Reserved
  <2>3. \A u \in Threads : /\ InCall(u)' <=> InCall(u)
                           /\ InCall(u) => cur'[u] = cur[u] /\ cur[u] # p
    BY <1>1, <1>t DEF HandlePrompt, BeginTurn, OnePlace, Holds
  <2>4. p \in Unseen /\ Unseen' = Unseen \ {p} BY <2>1, <2>3 DEF Unseen
  <2>5. Life = "open" /\ Life' = Life BY <2>1, <1>l DEF Life
  <2> QED BY <2>1, <2>2, <2>4, <2>5 DEF Serial!RunNow
<1>2. ASSUME NEW t \in Threads, NEW p \in Prompts, HandlePromptBusy(t, p) PROVE Serial!Note(p)
  <2>1. /\ p \in fresh /\ fresh' = fresh \ {p} /\ interjections' = Append(interjections, p)
        /\ UNCHANGED <<queue, ended, delivered, lifecycle, pc, cur>>
    BY <1>2 DEF HandlePromptBusy, Interject
  <2>2. \A u \in Threads : InCall(u) => cur[u] # p BY <2>1 DEF OnePlace, Holds
  <2>3. p \in Unseen /\ Unseen' = Unseen \ {p} BY <2>1, <2>2 DEF Unseen
  <2>4. ToSet(interjections)' = ToSet(interjections) \cup {p} BY <2>1, <1>t, Grown
  <2>5. Running' = Running /\ Life' = Life BY <2>1 DEF Running, Life
  <2> QED BY <2>1, <2>3, <2>4, <2>5 DEF Serial!Note
<1>3. ASSUME NEW t \in Threads, NEW p \in Prompts, SubmitPrompt(t, p) PROVE Serial!Join(p)
  <2>1. /\ p \in fresh /\ fresh' = fresh \ {p} /\ queue' = Append(queue, p)
        /\ UNCHANGED <<interjections, ended, delivered, lifecycle, cur>>
    BY <1>3 DEF SubmitPrompt, Push
  <2>2. \A u \in Threads : /\ InCall(u)' <=> InCall(u)
                           /\ InTurn(u)' <=> InTurn(u)
                           /\ InCall(u) => cur[u] # p
    BY <1>3, <1>t DEF SubmitPrompt, OnePlace, Holds
  <2>3. p \in Unseen /\ Unseen' = Unseen \ {p} BY <2>1, <2>2 DEF Unseen
  <2>4. Running' = Running /\ Life' = Life BY <2>1, <2>2, SameRuns DEF Life
  <2> QED BY <2>1, <2>3, <2>4 DEF Serial!Join
<1>4. ASSUME NEW t \in Threads, NEW p \in Prompts, EnqueueCheck(t, p) \/ InterjectCheck(t, p)
      PROVE  UNCHANGED Serial!vars
  <2>1. /\ p \in fresh /\ fresh' = fresh \ {p} /\ ~InCall(t) /\ InCall(t)' /\ cur'[t] = p
        /\ UNCHANGED <<queue, interjections, ended, delivered, lifecycle>>
    BY <1>4, <1>t DEF EnqueueCheck, InterjectCheck
  <2>2. /\ \A u \in Threads \ {t} : (InCall(u)' <=> InCall(u)) /\ cur'[u] = cur[u]
        /\ \A u \in Threads : (InTurn(u)' <=> InTurn(u)) /\ (InTurn(u) => cur'[u] = cur[u])
    BY <1>4, <1>t DEF EnqueueCheck, InterjectCheck
  <2>3. Unseen' = Unseen BY <2>1, <2>2 DEF Unseen
  <2>4. Running' = Running /\ Life' = Life BY <2>1, <2>2, SameRuns DEF Life
  <2> QED BY <2>1, <2>3, <2>4, <1>s
<1>5. ASSUME NEW t \in Threads, EnqueuePush(t)
      PROVE  Serial!Join(cur[t]) \/ UNCHANGED Serial!vars
  <2> DEFINE p == cur[t]
  <2>1. /\ InCall(t) /\ ~InCall(t)' /\ p = cur[t]
        /\ UNCHANGED <<interjections, ended, delivered, lifecycle>>
        /\ \A u \in Threads \ {t} : (InCall(u)' <=> InCall(u)) /\ cur'[u] = cur[u]
        /\ \A u \in Threads : (InTurn(u)' <=> InTurn(u)) /\ (InTurn(u) => cur'[u] = cur[u])
    BY <1>5, <1>t DEF EnqueuePush
  <2>2. p \notin fresh /\ \A u \in Threads \ {t} : InCall(u) => cur[u] # p
    BY <2>1 DEF OnePlace, Holds
  <2>3. \/ queue' = Append(queue, p) /\ fresh' = fresh
        \/ queue' = queue /\ fresh' = fresh \cup {p}
    BY <1>5 DEF EnqueuePush, Push
  <2> HIDE DEF p
  <2>4. Running' = Running /\ Life' = Life BY <2>1, SameRuns DEF Life
  <2>5. CASE queue' = Append(queue, p) /\ fresh' = fresh
    <3>1. p \in Unseen /\ Unseen' = Unseen \ {p} BY <2>1, <2>2, <2>5 DEF Unseen
    <3> QED BY <2>1, <2>4, <2>5, <3>1 DEF Serial!Join
  <2>6. CASE queue' = queue /\ fresh' = fresh \cup {p}
    <3>1. Unseen' = Unseen BY <2>1, <2>2, <2>6 DEF Unseen
    <3> QED BY <2>1, <2>4, <2>6, <3>1, <1>s
  <2> QED BY <2>3, <2>5, <2>6
<1>6. ASSUME NEW t \in Threads, InterjectPush(t) PROVE Serial!Note(cur[t])
  <2> DEFINE p == cur[t]
  <2>1. /\ InCall(t) /\ ~InCall(t)' /\ p = cur[t] /\ p \in Prompts
        /\ interjections' = Append(interjections, p)
        /\ UNCHANGED <<queue, fresh, ended, delivered, lifecycle>>
        /\ \A u \in Threads \ {t} : (InCall(u)' <=> InCall(u)) /\ cur'[u] = cur[u]
        /\ \A u \in Threads : (InTurn(u)' <=> InTurn(u)) /\ (InTurn(u) => cur'[u] = cur[u])
    BY <1>6, <1>t DEF InterjectPush, Interject, HasPrompt
  <2>2. p \notin fresh /\ \A u \in Threads \ {t} : InCall(u) => cur[u] # p
    BY <2>1 DEF OnePlace, Holds
  <2> HIDE DEF p
  <2>3. p \in Unseen /\ Unseen' = Unseen \ {p} BY <2>1, <2>2 DEF Unseen
  <2>4. ToSet(interjections)' = ToSet(interjections) \cup {p} BY <2>1, <1>t, Grown
  <2>5. Running' = Running /\ Life' = Life BY <2>1, SameRuns DEF Life
  <2> QED BY <2>1, <2>3, <2>4, <2>5 DEF Serial!Note
<1>7. ASSUME NEW t \in Threads, DrainNext(t) PROVE Serial!RunNext
  <2> DEFINE p == Head(queue)
  <2>1. /\ BeginTurn(t, p) /\ SlotFree /\ ~InTurn(t) /\ ~closing /\ queue # <<>>
        /\ queue' = Tail(queue) /\ p = Head(queue) /\ p \in Prompts
        /\ UNCHANGED <<fresh, ended, interjections, delivered, lifecycle>>
    BY <1>7, <1>t DEF DrainNext, MayDrain, SlotFree
  <2>2. \A u \in Threads : (InCall(u)' <=> InCall(u)) /\ (InCall(u) => cur'[u] = cur[u])
    BY <1>7, <1>t DEF DrainNext, BeginTurn
  <2> HIDE DEF p
  <2>3. Running = {} /\ Running' = {p} BY <2>1, Reserved
  <2>4. Unseen' = Unseen BY <2>1, <2>2, SameHeld
  <2>5. Life = "open" /\ Life' = Life BY <2>1, <1>l DEF Life
  <2> QED BY <2>1, <2>3, <2>4, <2>5 DEF Serial!RunNext
<1>8. ASSUME NEW t \in Threads, DrainInterjections(t) PROVE Serial!Hear
  <2>1. /\ delivered' = delivered \cup ToSet(interjections) /\ interjections' = <<>>
        /\ InTurn(t) /\ UNCHANGED <<pc, cur, fresh, queue, ended, lifecycle>>
    BY <1>8 DEF DrainInterjections
  <2>2. ToSet(interjections)' = {} BY <2>1 DEF ToSet
  <2>3. cur[t] \in Running BY <2>1 DEF Running
  <2>4. Running' = Running /\ Unseen' = Unseen /\ Life' = Life
    BY <2>1 DEF Running, Unseen, Life
  <2> QED BY <2>1, <2>2, <2>3, <2>4 DEF Serial!Hear
<1>9. CASE StopPromptIngress
  <2>1. /\ queue' = queue \/ queue' = <<>>
        /\ UNCHANGED <<pc, cur, fresh, interjections, delivered, ended, lifecycle>>
    BY <1>9 DEF StopPromptIngress
  <2>2. Running' = Running /\ Unseen' = Unseen /\ Life' = Life
    BY <2>1 DEF Running, Unseen, Life
  <2>3. CASE queue' = <<>> BY <2>1, <2>2, <2>3 DEF Serial!Discard, Serial!Next
  <2>4. CASE queue' = queue BY <2>1, <2>2, <2>4, <1>s
  <2> QED BY <2>1, <2>3, <2>4
<1>10. ASSUME NEW t \in Threads, ReleaseTurn(t) PROVE Serial!Finish
  <2>1. /\ InTurn(t) /\ ~InTurn(t)' /\ ended' = ended \cup {cur[t]}
        /\ UNCHANGED <<fresh, queue, interjections, delivered, lifecycle>>
        /\ \A u \in Threads : (InCall(u)' <=> InCall(u)) /\ (InCall(u) => cur'[u] = cur[u])
        /\ \A u \in Threads \ {t} : (InTurn(u)' <=> InTurn(u))
    BY <1>10, <1>t DEF ReleaseTurn, AfterRelease
  <2>2. \A u \in Threads \ {t} : ~InTurn(u) BY <2>1 DEF SlotInv, SingleTurn
  <2>3. Running = {cur[t]} /\ Running' = {} BY <2>1, <2>2 DEF Running
  <2>4. Unseen' = Unseen BY <2>1, SameHeld
  <2>5. Life' = Life BY <2>1 DEF Life
  <2> QED BY <2>1, <2>3, <2>4, <2>5 DEF Serial!Finish
<1>11. ASSUME NEW t \in Threads, Close(t) \/ CloseInTurn(t)
       PROVE  Serial!BeginClose \/ UNCHANGED Serial!vars
  <2>1. /\ UNCHANGED <<fresh, queue, interjections, delivered, ended, cur, tearing, torn>>
        /\ closing' /\ (closing \/ ~closing)
    BY <1>11, <1>t DEF Close, CloseInTurn, MarkClosing
  <2>2. \A u \in Threads : (InCall(u)' <=> InCall(u)) /\ (InTurn(u)' <=> InTurn(u))
    BY <1>11, <1>t DEF Close, CloseInTurn
  <2>3. Running' = Running /\ Unseen' = Unseen BY <2>1, <2>2, SameRuns, SameHeld
  <2>4. CASE closing
    <3>1. Life' = Life BY <2>1, <2>4 DEF Life
    <3> QED BY <2>1, <2>3, <3>1, <1>s
  <2>5. CASE ~closing
    <3>1. Life = "open" BY <2>5, <1>l
    <3>2. Life' = "closing" BY <2>1, <3>1 DEF Life
    <3> QED BY <2>1, <2>3, <3>1, <3>2 DEF Serial!BeginClose
  <2> QED BY <2>4, <2>5
<1>12. CASE FinalizerBegins
  <2>1. /\ elected > 0 /\ tearing' = tearing + 1
        /\ UNCHANGED <<fresh, queue, interjections, delivered, ended, cur, pc, torn, closing>>
    BY <1>12 DEF FinalizerBegins
  <2>2. Running' = Running /\ Unseen' = Unseen BY <2>1 DEF Running, Unseen
  <2>3. Life' = "torn" BY <2>1, <1>t DEF Life
  <2> QED BY <2>1, <2>2, <2>3, <1>l DEF Serial!TearDown, Serial!Next
<1>13. CASE FinalizerEnds
  <2>1. /\ tearing > 0 /\ tearing' = tearing - 1 /\ torn' = torn + 1
        /\ UNCHANGED <<fresh, queue, interjections, delivered, ended, cur, pc>>
    BY <1>13 DEF FinalizerEnds
  <2>2. Running' = Running /\ Unseen' = Unseen BY <2>1 DEF Running, Unseen
  <2>3. Life' = "torn" /\ Life = "torn" BY <2>1, <1>t, <1>l DEF Life
  <2> QED BY <2>1, <2>2, <2>3, <1>s
<1>14. ASSUME NEW t \in Threads,
              \/ NewSession(t) \/ StartTurn(t) \/ ReadDrainActive(t) \/ PermitDrain(t)
              \/ EnterDrain(t) \/ DrainStops(t) \/ LeaveDrain(t) \/ TurnAwaited(t)
              \/ ElectFromClose(t) \/ ElectFromTurn(t) \/ CloseAwaited(t)
              \/ RunnerReturns(t) \/ CloseTimesOut(t)
       PROVE  UNCHANGED Serial!vars
  <2>1. /\ UNCHANGED <<fresh, queue, interjections, delivered, ended, cur, tearing, torn,
                       closing>>
        /\ \A u \in Threads : (InCall(u)' <=> InCall(u)) /\ (InTurn(u)' <=> InTurn(u))
    <3>1. CASE NewSession(t) BY <3>1 DEF NewSession
    <3>2. CASE StartTurn(t) BY <1>t, <3>2 DEF StartTurn, SkipRunner
    <3>3. CASE ReadDrainActive(t) BY <1>t, <3>3 DEF ReadDrainActive, AfterTurn
    <3>4. CASE PermitDrain(t) BY <1>t, <3>4 DEF PermitDrain, AfterTurn
    <3>5. CASE EnterDrain(t) BY <1>t, <3>5 DEF EnterDrain, AfterTurn
    <3>6. CASE DrainStops(t) BY <1>t, <3>6 DEF DrainStops
    <3>7. CASE LeaveDrain(t) BY <1>t, <3>7 DEF LeaveDrain
    <3>8. CASE TurnAwaited(t) BY <1>t, <3>8 DEF TurnAwaited
    <3>9. CASE ElectFromClose(t) BY <1>t, <3>9 DEF ElectFromClose
    <3>10. CASE ElectFromTurn(t) BY <1>t, <3>10 DEF ElectFromTurn, AfterTurn
    <3>11. CASE CloseAwaited(t) BY <1>t, <3>11 DEF CloseAwaited
    <3>12. CASE RunnerReturns(t) BY <1>t, <3>12 DEF RunnerReturns
    <3>13. CASE CloseTimesOut(t) BY <1>t, <3>13 DEF CloseTimesOut
    <3> QED
      BY <1>14, <3>1, <3>2, <3>3, <3>4, <3>5, <3>6, <3>7, <3>8, <3>9, <3>10, <3>11,
               <3>12, <3>13
  <2>2. Running' = Running /\ Unseen' = Unseen /\ Life' = Life
    BY <2>1, SameRuns, SameHeld DEF Life
  <2> QED BY <2>1, <2>2, <1>s
<1>15. CASE Cancel \/ UNCHANGED vars
  <2>1. UNCHANGED <<fresh, queue, interjections, delivered, ended, cur, pc, tearing,
                    torn, closing>>
    BY <1>15 DEF Cancel, vars
  <2>2. Running' = Running /\ Unseen' = Unseen /\ Life' = Life
    BY <2>1 DEF Running, Unseen, Life
  <2> QED BY <2>1, <2>2, <1>s
<1>16. ASSUME NEW t \in Threads, EnqueuePush(t) \/ InterjectPush(t) PROVE cur[t] \in Prompts
  BY <1>16 DEF EnqueuePush, InterjectPush, HasPrompt
<1> QED
  BY <1>1, <1>2, <1>3, <1>4, <1>5, <1>6, <1>7, <1>8, <1>9, <1>10, <1>11, <1>12,
     <1>13,
     <1>14, <1>15, <1>16
  DEF Next, HostCall, ThreadStep, Serial!Next

(* Every interleaving of the session's critical sections and unlocked reads  *)
(* looks to the host like the one-prompt-at-a-time session.                  *)
THEOREM SessionIsSerial == Spec => ImplementsSerialSession
<1>1. Init => Serial!Init
  <2> SUFFICES ASSUME Init PROVE Serial!Init OBVIOUS
  <2>1. Unseen = Prompts /\ Running = {} /\ Life = "open"
    BY DEF Init, Unseen, Running, Life
  <2>2. ToSet(interjections) = {} BY DEF Init, ToSet
  <2> QED BY <2>1, <2>2 DEF Init, Serial!Init
<1>2. TypeOK /\ HasPrompt /\ SlotInv /\ PromptInv /\ [Next]_vars
      => [Serial!Next]_(Serial!vars)
  BY SerialStep DEF PromptInv
<1> QED
  BY <1>1, <1>2, TypeCorrect, SlotInvariant, PromptInvariant, PTL
  DEF Spec, Serial!Spec, ImplementsSerialSession


-----------------------------------------------------------------------------
(* The terminal: from here on no definition of the session's is expanded.  *)
HIDE DEF slot, token, lifecycle, mail, ledger, locals, Labels, Phases,
         RunnerOutcomes, Goto, Forget, Open, InTurn, InCall

(* The list of tasks (TaskBoard) *)

(* What the variables hold.                                                *)
Ended == Fenced \cup {"max_turns"}
Statuses == {"absent"} \cup Live \cup Ended \cup KidOutcomes
Stages == {"none", "waits", "runs", "ended", "told", "counted", "dying", "over", "heard", "leaving"}
Calls == [what : {"start", "finish"}, of : BoardTasks, status : {""}]
    \cup [what : {"end"}, of : BoardTasks, status : 0 .. MaxTasks]
    \cup [what : {"child"}, of : Kids, status : {"running"} \cup KidOutcomes]
BoardTypes ==
    /\ shown \in [BoardTasks -> {"none", "running"} \cup Ended]
    /\ column \in [BoardTasks -> {"none", "open", "done", "failed", "cancelled"}]
    /\ agents \in [BoardTasks -> [BoardAgents -> Statuses]]
    /\ active \in 0 .. MaxTasks /\ stage \in [BoardTasks -> Stages]
    /\ ending \in [BoardTasks -> {"none"} \cup Ended]
    /\ seen \in [BoardTasks -> {"none", "open", "failed"}]
    /\ view \in [BoardTasks -> 0 .. NoView] /\ real \in [Kids -> {"none", "running"} \cup KidOutcomes]
    /\ of \in [Kids -> 0 .. MaxTasks] /\ baseline \in [BoardTasks -> SUBSET Kids]
    /\ inbox \in Seq(Calls) /\ ui \in {"idle", "cancel", "reload"}
    /\ cancelling \in 0 .. MaxTasks /\ reload \in {"none", "waits"} /\ lost \subseteq BoardTasks

(* A task that is not created is nowhere.                                  *)
TasksStand ==
    \A t \in BoardTasks :
        IF Created(t) THEN stage[t] # "none" /\ agents[t]["main"] \in Live \cup Ended
        ELSE stage[t] = "none" /\ ending[t] = "none" /\ \A a \in BoardAgents : agents[t][a] = "absent"
PointersStand ==
    /\ active # 0 => Created(active)
    /\ \A t \in BoardTasks : view[t] \notin {0, NoView} => Created(view[t])
CallsStand ==
    \A i \in DOMAIN inbox :
        /\ inbox[i].what = "start" => Created(inbox[i].of)
        /\ inbox[i].what = "end" /\ inbox[i].status # 0 => Created(inbox[i].status)
        /\ inbox[i].what = "child" => real[inbox[i].of] # "none"
TasksBegin == TasksStand /\ PointersStand /\ CallsStand

(* A child has a row in the list of its task only.                         *)
HasRow(t) == \E c \in Kids : agents[t][c] # "absent"
KidRows ==
    /\ \A t \in BoardTasks, c \in Kids : agents[t][c] # "absent" => of[c] = t
    /\ \A c \in Kids : of[c] # 0 => real[c] # "none" /\ Created(of[c])
    /\ \A t \in BoardTasks : seen[t] = "open" => HasRow(t)

(* How far a task's turn is, against what the list says of it.             *)
TurnFits(t) ==
    /\ stage[t] \in {"ended", "told", "counted"} => ending[t] # "none"
    /\ stage[t] \in {"waits", "runs", "heard"} => ending[t] = "none"
    /\ t \notin lost /\ agents[t]["main"] \in Live
       => stage[t] \in {"waits", "runs", "ended", "heard"}
    /\ /\ t \notin lost /\ ending[t] = "cancelled"
       /\ stage[t] \in {"told", "counted", "dying", "over", "leaving"}
       => agents[t]["main"] \in Fenced
    /\ t \notin lost /\ shown[t] = "running" /\ stage[t] \in {"dying", "over", "leaving"}
       => column[t] = "open" /\ HasRow(t)
TurnsFit == \A t \in BoardTasks : TurnFits(t)

(* The inductive invariant of the list of tasks.                           *)
BoardInv == BoardTypes /\ TasksBegin /\ KidRows /\ TurnsFit /\ ReloadIsQuiet

(* The list begins empty.                                                  *)
LEMMA BoardBegins == BoardInit => BoardInv
<1> SUFFICES ASSUME BoardInit PROVE BoardInv
  OBVIOUS
<1>1. BoardTypes
  <2>1. inbox \in Seq(Calls)
    BY DEF BoardInit
  <2>2. QED
    BY <2>1, BoardAssumption DEF BoardInit, BoardTypes, Stages, NoView, BoardTasks, Live,
       Ended, Fenced, Statuses
<1>2. TasksBegin
  BY BoardAssumption DEF BoardInit, TasksBegin, TasksStand, PointersStand, CallsStand,
     Created, NoView, BoardTasks
<1>3. KidRows /\ TurnsFit /\ ReloadIsQuiet
  BY BoardAssumption DEF BoardInit, KidRows, HasRow, TurnsFit, TurnFits, ReloadIsQuiet,
     BoardAgents, Live
<1>4. QED BY <1>1, <1>2, <1>3 DEF BoardInv

(* When no turn runs, no child runs and no call waits, the list shows      *)
(* nothing that runs, and no connection still waits for a turn to end.     *)
LEMMA BoardIsQuiet == BoardInv => BoardSettles
<1> SUFFICES ASSUME BoardInv, AllQuiet
            PROVE  /\ \A t \in BoardTasks \ lost : Created(t) => TaskSettled(t)
                   /\ reload = "waits" => active \in lost
  BY DEF BoardSettles
<1> USE DEF BoardInv
<1>1. \A c \in Kids : real[c] \notin Live
  BY DEF AllQuiet
<1>2. ASSUME NEW t \in BoardTasks, NEW c \in Kids
      PROVE  agents[t][c] \notin Live /\ WithKids(Board, of).agents[t][c] = agents[t][c]
  <2>1. Synced(WithKids(Board, of)).agents = agents
    BY DEF AllQuiet, Board
  <2>2. WithKids(Board, of).agents = agents
    BY <2>1 DEF Synced
  <2>3. agents[t][c] = IF c \in Known /\ of[c] = t
                       THEN ApplyAgentStatus(Board, t, c, real[c]).agents[t][c] ELSE agents[t][c]
    BY <2>2 DEF WithKids, Board, BoardAgents
  <2>4. CASE c \in Known /\ of[c] = t
    <3>1. ApplyAgentStatus(Board, t, c, real[c]).agents = [agents EXCEPT ![t][c] = real[c]]
      BY <1>1 DEF ApplyAgentStatus, UpdateAgent, Board
    <3>2. agents[t][c] = real[c]
      BY <3>1, <2>3, <2>4 DEF BoardTypes, BoardAgents
    <3>3. QED BY <3>2, <1>1, <2>2
  <2>5. CASE ~(c \in Known /\ of[c] = t)
    <3>1. agents[t][c] = "absent"
      BY <2>5 DEF KidRows, Known, BoardTasks
    <3>2. QED BY <3>1, <2>2 DEF Live
  <2>6. QED BY <2>4, <2>5
<1>3. ASSUME NEW t \in BoardTasks \ lost, Created(t)
      PROVE  TaskSettled(t)
  <2>1. stage[t] = "over"
    BY <1>3 DEF AllQuiet, WorkerAlive, TurnRunning, BoardTypes, Stages, TasksBegin,
       TasksStand
  <2>2. agents[t]["main"] \notin Live
    BY <2>1, <1>3 DEF TurnsFit, TurnFits, HasRow
  <2>3. \A a \in BoardAgents : agents[t][a] \notin Live
    BY <2>2, <1>2 DEF BoardAgents
  <2>4. ASSUME shown[t] = "running" PROVE FALSE
    <3> DEFINE b == WithKids(Board, of)
    <3>1. /\ b.shown = shown /\ b.column = column
          /\ b.agents = agents
      <4>1. Synced(b).agents = agents
        BY DEF AllQuiet, Board
      <4>2. QED BY <4>1 DEF Synced, WithKids, Board
    <3>2. column[t] = "open" /\ \E c \in Kids : agents[t][c] # "absent"
      BY <2>1, <2>4 DEF TurnsFit, TurnFits, HasRow
    <3>3. AllOver(b, t)
      <4> HIDE DEF b
      <4> QED BY <3>1, <3>2, <2>3, <2>4 DEF AllOver, KidsIn, BoardAgents
    <3>4. Synced(b).shown[t] = shown[t]
      <4>1. Synced(b) = Board
        BY DEF AllQuiet
      <4>2. QED BY <4>1 DEF Board
    <3> HIDE DEF b
    <3>5. Synced(b).shown[t] = SyncTask(b, t).shown[t]
      BY DEF Synced
    <3>6. SyncTask(b, t).shown[t] \in {"failed", "completed"}
      <4>1. PICK s \in {"failed", "completed"} : SyncTask(b, t) = FinishTask(b, t, s)
        BY <3>1, <3>2, <3>3 DEF SyncTask
      <4>2. b.shown \in [BoardTasks -> {"none", "running"} \cup Ended]
        BY <3>1 DEF BoardTypes
      <4>3. b = WithKids(Board, of)
        BY DEF b
      <4>4. FinishTask(b, t, s).shown = [b.shown EXCEPT ![t] = s]
        BY <4>3 DEF FinishTask, WithKids, Board
      <4>5. QED BY <4>1, <4>2, <4>4
    <3>7. QED BY <3>4, <3>5, <3>6, <2>4
  <2>5. QED BY <2>3, <2>4 DEF TaskSettled
<1>4. ASSUME reload = "waits" PROVE active \in lost
  <2>1. RunningWith(agents)
    BY <1>4 DEF AllQuiet, MayReload
  <2>2. active # 0 /\ \E a \in BoardAgents : agents[active][a] \in Live
    BY <2>1, <1>1 DEF RunningWith, AllQuiet
  <2>3. Created(active) /\ active \in BoardTasks
    BY <2>2, BoardAssumption DEF TasksBegin, PointersStand, BoardTypes, BoardTasks
  <2>4. QED BY <2>2, <2>3, <1>3 DEF TaskSettled
<1>5. QED BY <1>3, <1>4

(* What the calls on the list do to it.                                    *)
LEMMA UpdateEffect ==
    ASSUME NEW t, NEW a, NEW s, Show(UpdateAgent(Board, t, a, s))
    PROVE  shown' = shown /\ column' = column /\ agents' = [agents EXCEPT ![t][a] = s]
<1>1. UpdateAgent(Board, t, a, s).agents = [agents EXCEPT ![t][a] = s]
  BY DEF UpdateAgent, Board
<1>2. /\ UpdateAgent(Board, t, a, s).shown = shown
      /\ UpdateAgent(Board, t, a, s).column = column
  BY DEF UpdateAgent, Board
<1>3. QED BY <1>1, <1>2 DEF Show

(* A live status does not reach an agent that has ended.                   *)
LEMMA LiveEffect ==
    ASSUME NEW t, NEW a, NEW s, Show(UpdateLiveAgent(Board, t, a, s))
    PROVE  /\ shown' = shown /\ column' = column
           /\ \/ agents' = agents /\ (shown[t] \in Fenced \/ agents[t][a] \in Fenced)
              \/ /\ shown[t] \notin Fenced /\ agents[t][a] \notin Fenced
                 /\ agents' = [agents EXCEPT ![t][a] = s]
<1>1. CASE shown[t] \in Fenced \/ agents[t][a] \in Fenced
  BY <1>1 DEF UpdateLiveAgent, Board, Show
<1>2. CASE ~(shown[t] \in Fenced \/ agents[t][a] \in Fenced)
  <2>1. Show(UpdateAgent(Board, t, a, s))
    BY <1>2 DEF UpdateLiveAgent, Board, Show
  <2>2. QED BY <2>1, <1>2, UpdateEffect
<1>3. QED BY <1>1, <1>2

(* A child's status writes its row, or nothing when it would revive it.    *)
LEMMA StatusEffect ==
    ASSUME NEW t, NEW a, NEW s
    PROVE  /\ ApplyAgentStatus(Board, t, a, s).shown = shown
           /\ ApplyAgentStatus(Board, t, a, s).column = column
           /\ \/ ApplyAgentStatus(Board, t, a, s).agents = agents
              \/ /\ ApplyAgentStatus(Board, t, a, s).agents = [agents EXCEPT ![t][a] = s]
                 /\ s \in Live => agents[t][a] \notin Fenced
<1>1. /\ UpdateAgent(Board, t, a, s).agents = [agents EXCEPT ![t][a] = s]
      /\ UpdateAgent(Board, t, a, s).shown = shown
      /\ UpdateAgent(Board, t, a, s).column = column
  BY DEF UpdateAgent, Board
<1>2. CASE s \in Live /\ (shown[t] \in Fenced \/ agents[t][a] \in Fenced)
  BY <1>2 DEF ApplyAgentStatus, UpdateLiveAgent, Board
<1>3. CASE s \in Live /\ ~(shown[t] \in Fenced \/ agents[t][a] \in Fenced)
  <2>1. ApplyAgentStatus(Board, t, a, s) = UpdateAgent(Board, t, a, s)
    BY <1>3 DEF ApplyAgentStatus, UpdateLiveAgent, Board
  <2>2. QED BY <2>1, <1>1, <1>3
<1>4. CASE s \notin Live
  <2>1. ApplyAgentStatus(Board, t, a, s) = UpdateAgent(Board, t, a, s)
    BY <1>4 DEF ApplyAgentStatus
  <2>2. QED BY <2>1, <1>1, <1>4
<1>5. QED BY <1>2, <1>3, <1>4

(* Reading the children: their rows are written, and a task whose turn and *)
(* children are over is closed.                                            *)
SyncDoes ==
    /\ agents' \in [BoardTasks -> [BoardAgents -> Statuses]]
    /\ shown' \in [BoardTasks -> {"none", "running"} \cup Ended]
    /\ column' \in [BoardTasks -> {"none", "open", "done", "failed", "cancelled"}]
    /\ of' = Owned(Known)
    /\ \A t \in BoardTasks :
          /\ agents'[t]["main"] = agents[t]["main"]
          /\ \A c \in Kids : agents'[t][c] = agents[t][c]
                \/ /\ c \in Known /\ of'[c] = t /\ agents'[t][c] = real[c]
                   /\ real[c] \in Live => agents[t][c] \notin Fenced
          /\ \/ shown'[t] = shown[t] /\ column'[t] = column[t]
             \/ shown[t] = "running" /\ shown'[t] \in {"failed", "completed"}

(* Reading the runtime does what SyncDoes says.                            *)
LEMMA SyncEffect == BoardTypes /\ SyncRuntime => SyncDoes
<1> SUFFICES ASSUME BoardTypes, SyncRuntime PROVE SyncDoes
  OBVIOUS
<1> DEFINE owner == Owned(Known)
           b == WithKids(Board, owner)
<1>1. of' = owner /\ Show(Synced(b))
  BY DEF SyncRuntime
<1>2. b.shown = shown /\ b.column = column
  BY DEF WithKids, Board
<1>3. b.agents = [t \in BoardTasks |-> [a \in BoardAgents |->
          IF a \in Known /\ owner[a] = t THEN ApplyAgentStatus(Board, t, a, real[a]).agents[t][a]
          ELSE agents[t][a]]]
  BY DEF WithKids, Board
<1>4. ASSUME NEW t \in BoardTasks, NEW a \in BoardAgents
      PROVE  \/ b.agents[t][a] = agents[t][a]
             \/ /\ a \in Known /\ owner[a] = t /\ b.agents[t][a] = real[a]
                /\ real[a] \in Live => agents[t][a] \notin Fenced
  <2>1. CASE a \in Known /\ owner[a] = t
    <3>1. b.agents[t][a] = ApplyAgentStatus(Board, t, a, real[a]).agents[t][a]
      BY <2>1, <1>3
    <3> HIDE DEF b, owner
    <3>2. \/ ApplyAgentStatus(Board, t, a, real[a]).agents = agents
          \/ /\ ApplyAgentStatus(Board, t, a, real[a]).agents = [agents EXCEPT ![t][a] = real[a]]
             /\ real[a] \in Live => agents[t][a] \notin Fenced
      BY StatusEffect
    <3>3. [agents EXCEPT ![t][a] = real[a]][t][a] = real[a]
      BY DEF BoardTypes
    <3>4. QED BY <3>1, <3>2, <3>3, <2>1
  <2>2. CASE ~(a \in Known /\ owner[a] = t)
    <3>1. b.agents[t][a] = agents[t][a]
      BY <2>2, <1>3
    <3>2. QED BY <3>1
  <2>3. QED BY <2>1, <2>2
<1>5. agents' = b.agents
  BY <1>1 DEF Show, Synced
<1>6. shown' = [t \in BoardTasks |-> SyncTask(b, t).shown[t]]
      /\ column' = [t \in BoardTasks |-> SyncTask(b, t).column[t]]
  BY <1>1 DEF Show, Synced
<1>7. agents' \in [BoardTasks -> [BoardAgents -> Statuses]]
  <2>1. \A t \in BoardTasks, a \in BoardAgents :
          b.agents[t][a] \in Statuses
    <3> SUFFICES ASSUME NEW t \in BoardTasks, NEW a \in BoardAgents
                 PROVE  b.agents[t][a] \in Statuses
      OBVIOUS
    <3>1. agents[t][a] \in Statuses
      BY DEF BoardTypes
    <3>2. a \in Known => real[a] \in Live \cup KidOutcomes
      BY DEF Known, BoardTypes, Live
    <3> HIDE DEF b, owner
    <3>3. QED BY <3>1, <3>2, <1>4 DEF Statuses
  <2>2. b.agents = [t \in BoardTasks |-> [a \in BoardAgents |-> b.agents[t][a]]]
    BY <1>3
  <2> HIDE DEF b
  <2>3. QED BY <1>5, <2>1, <2>2
<1>8. ASSUME NEW t \in BoardTasks
      PROVE  /\ agents'[t]["main"] = agents[t]["main"]
             /\ \A c \in Kids : agents'[t][c] = agents[t][c]
                   \/ /\ c \in Known /\ of'[c] = t /\ agents'[t][c] = real[c]
                      /\ real[c] \in Live => agents[t][c] \notin Fenced
  <2> HIDE DEF b, owner
  <2>1. "main" \notin Known
    BY BoardAssumption DEF Known
  <2>2. QED BY <1>4, <1>5, <1>1, <2>1 DEF BoardAgents
<1>9. ASSUME NEW t \in BoardTasks
      PROVE  \/ SyncTask(b, t).shown[t] = shown[t] /\ SyncTask(b, t).column[t] = column[t]
             \/ /\ shown[t] = "running" /\ SyncTask(b, t).shown[t] \in {"failed", "completed"}
                /\ SyncTask(b, t).column[t] \in {"failed", "done"}
  <2>1. CASE b.column[t] = "open" /\ AllOver(b, t)
    <3>1. PICK s \in {"failed", "completed"} : SyncTask(b, t) = FinishTask(b, t, s)
      BY <2>1 DEF SyncTask
    <3>2. FinishTask(b, t, s).shown = [b.shown EXCEPT ![t] = s]
      BY DEF FinishTask, WithKids, Board
    <3>3. FinishTask(b, t, s).column = [b.column EXCEPT ![t] =
              CASE s = "completed" -> "done" [] s = "cancelled" -> s [] OTHER -> "failed"]
      BY DEF FinishTask, WithKids, Board
    <3>4. shown[t] = "running"
      BY <2>1, <1>2 DEF AllOver
    <3> HIDE DEF b
    <3>5. FinishTask(b, t, s).shown[t] = s
      BY <3>2, <1>2 DEF BoardTypes
    <3>6. FinishTask(b, t, s).column[t] \in {"failed", "done"}
      BY <3>3, <1>2 DEF BoardTypes
    <3>7. QED BY <3>1, <3>4, <3>5, <3>6
  <2>2. CASE ~(b.column[t] = "open" /\ AllOver(b, t))
    <3> HIDE DEF b
    <3> QED BY <2>2, <1>2 DEF SyncTask
  <2>3. QED BY <2>1, <2>2
<1>10. ASSUME NEW t \in BoardTasks
       PROVE  /\ shown'[t] \in {"none", "running"} \cup Ended
              /\ column'[t] \in {"none", "open", "done", "failed", "cancelled"}
              /\ \/ shown'[t] = shown[t] /\ column'[t] = column[t]
                 \/ shown[t] = "running" /\ shown'[t] \in {"failed", "completed"}
  <2> HIDE DEF b
  <2>1. shown'[t] = SyncTask(b, t).shown[t] /\ column'[t] = SyncTask(b, t).column[t]
    BY <1>6
  <2>2. QED BY <2>1, <1>9 DEF BoardTypes, Ended, Fenced
<1>11. /\ shown' \in [BoardTasks -> {"none", "running"} \cup Ended]
       /\ column' \in [BoardTasks -> {"none", "open", "done", "failed", "cancelled"}]
  <2> HIDE DEF b
  <2>1. shown' = [t \in BoardTasks |-> shown'[t]] /\ column' = [t \in BoardTasks |-> column'[t]]
    BY <1>6
  <2>2. QED BY <2>1, <1>10
<1>12. of' = Owned(Known)
  BY <1>1
<1> HIDE DEF b, owner
<1>13. QED BY <1>7, <1>8, <1>10, <1>11, <1>12 DEF SyncDoes

(* A callback that is added keeps the queue well formed.                   *)
LEMMA Appended ==
    ASSUME NEW S, NEW q \in Seq(S), NEW e \in S
    PROVE  /\ Append(q, e) \in Seq(S) /\ Len(Append(q, e)) = Len(q) + 1
           /\ \A i \in DOMAIN q : Append(q, e)[i] = q[i]
           /\ Append(q, e)[Len(q) + 1] = e
OBVIOUS

(* A call was added to the queue of the UI thread, the others are as they  *)
(* were.                                                                   *)
CallIsAdded(what, x, s) ==
    /\ inbox' \in Seq(Calls)
    /\ \E j \in DOMAIN inbox' :
          /\ \A i \in DOMAIN inbox' : i = j \/ (i \in DOMAIN inbox /\ inbox'[i] = inbox[i])
          /\ inbox'[j].what = what /\ inbox'[j].of = x /\ inbox'[j].status = s

(* A call that is posted to the UI thread is one of Calls.                 *)
LEMMA CallIsTyped ==
    ASSUME NEW what, NEW x, NEW s, inbox \in Seq(Calls), CallInUi(what, x, s),
           [what |-> what, of |-> x, status |-> s] \in Calls
    PROVE  CallIsAdded(what, x, s)
<1> DEFINE e == [what |-> what, of |-> x, status |-> s]
<1>1. inbox' = Append(inbox, e) /\ e \in Calls
  BY DEF CallInUi
<1>2. e.what = what /\ e.of = x /\ e.status = s
  OBVIOUS
<1> HIDE DEF Calls, e
<1>3. /\ inbox' \in Seq(Calls) /\ Len(inbox') = Len(inbox) + 1
      /\ \A i \in DOMAIN inbox : inbox'[i] = inbox[i]
      /\ inbox'[Len(inbox) + 1] = e
  BY <1>1, Appended
<1>4. \A i \in DOMAIN inbox' : i = Len(inbox) + 1 \/ (i \in DOMAIN inbox /\ inbox'[i] = inbox[i])
  BY <1>3
<1>5. Len(inbox) + 1 \in DOMAIN inbox'
  BY <1>3
<1>6. QED BY <1>2, <1>3, <1>4, <1>5 DEF CallIsAdded

(* What is known of the first call of the queue.                           *)
LEMMA HeadIsTyped ==
    ASSUME inbox \in Seq(Calls), inbox # <<>>
    PROVE  /\ Tail(inbox) \in Seq(Calls) /\ Len(Tail(inbox)) = Len(inbox) - 1
           /\ \A i \in DOMAIN Tail(inbox) : Tail(inbox)[i] = inbox[i + 1] /\ i + 1 \in DOMAIN inbox
           /\ Head(inbox) = inbox[1] /\ 1 \in DOMAIN inbox
           /\ Head(inbox).what \in {"start", "finish", "end"} => Head(inbox).of \in BoardTasks
           /\ Head(inbox).what = "end" => Head(inbox).status \in 0 .. MaxTasks
           /\ Head(inbox).what = "child" => /\ Head(inbox).of \in Kids
                                            /\ Head(inbox).status \in {"running"} \cup KidOutcomes
<1>1. Head(inbox) \in Calls
  OBVIOUS
<1>2. /\ Head(inbox).what \in {"start", "finish", "end"} => Head(inbox).of \in BoardTasks
      /\ Head(inbox).what = "end" => Head(inbox).status \in 0 .. MaxTasks
      /\ Head(inbox).what = "child" => /\ Head(inbox).of \in Kids
                                       /\ Head(inbox).status \in {"running"} \cup KidOutcomes
  BY <1>1 DEF Calls
<1> HIDE DEF Calls
<1>3. QED BY <1>2

(* The row of a task's main agent is written.                              *)
(* Only the row of the main agent of t was written.                        *)
MainIs(t, s) ==
    /\ agents' \in [BoardTasks -> [BoardAgents -> Statuses]] /\ agents'[t]["main"] = s
    /\ \A x \in BoardTasks, c \in Kids : agents'[x][c] = agents[x][c]
    /\ \A x \in BoardTasks : x = t \/ agents'[x] = agents[x]
    /\ \A a \in BoardAgents : a = "main" \/ agents'[t][a] = agents[t][a]

(* Writing the row of the main agent leaves the other rows.                *)
LEMMA MainIsWritten ==
    ASSUME BoardTypes, NEW t \in BoardTasks, NEW s \in Statuses,
           agents' = [agents EXCEPT ![t]["main"] = s]
    PROVE  MainIs(t, s)
<1>. agents \in [BoardTasks -> [BoardAgents -> Statuses]]
  BY DEF BoardTypes
<1>0. "main" \in BoardAgents /\ \A c \in Kids : c \in BoardAgents /\ c # "main"
  BY BoardAssumption DEF BoardAgents
<1>. HIDE DEF Statuses, BoardAgents, BoardTasks
<1>1. [agents[t] EXCEPT !["main"] = s] \in [BoardAgents -> Statuses]
  OBVIOUS
<1>2. agents' = [agents EXCEPT ![t] = [agents[t] EXCEPT !["main"] = s]]
  OBVIOUS
<1>3. QED BY <1>0, <1>1, <1>2 DEF MainIs

(* The calls that wait still name tasks and children that exist.           *)
LEMMA CallsKept ==
    ASSUME inbox \in Seq(Calls), CallsStand, NEW j,
           \A i \in DOMAIN inbox' : i = j \/ (\E k \in DOMAIN inbox : inbox'[i] = inbox[k]),
           \A t \in BoardTasks : Created(t) => shown'[t] # "none",
           \A c \in Kids : real[c] # "none" => real'[c] # "none",
           j \in DOMAIN inbox' =>
              /\ inbox'[j].what = "start" => shown'[inbox'[j].of] # "none"
              /\ inbox'[j].what = "end" /\ inbox'[j].status # 0 => shown'[inbox'[j].status] # "none"
              /\ inbox'[j].what = "child" => real'[inbox'[j].of] # "none"
    PROVE  CallsStand'
<1>1. ASSUME NEW k \in DOMAIN inbox
      PROVE  /\ inbox[k].what = "start" => shown'[inbox[k].of] # "none"
             /\ inbox[k].what = "end" /\ inbox[k].status # 0 => shown'[inbox[k].status] # "none"
             /\ inbox[k].what = "child" => real'[inbox[k].of] # "none"
  <2>1. inbox[k] \in Calls
    OBVIOUS
  <2>2. /\ inbox[k].what = "start" => inbox[k].of \in BoardTasks
        /\ inbox[k].what = "end" /\ inbox[k].status # 0 => inbox[k].status \in BoardTasks
        /\ inbox[k].what = "child" => inbox[k].of \in Kids
    <3>1. CASE inbox[k] \in [what : {"start", "finish"}, of : BoardTasks, status : {""}]
      BY <3>1
    <3>2. CASE inbox[k] \in [what : {"end"}, of : BoardTasks, status : 0 .. MaxTasks]
      <4>1. inbox[k].status \in 0 .. MaxTasks /\ inbox[k].what = "end"
        BY <3>2
      <4>2. \A n \in 0 .. MaxTasks : n # 0 => n \in BoardTasks
        BY BoardAssumption DEF BoardTasks
      <4>3. QED BY <4>1, <4>2
    <3>3. CASE inbox[k] \in [what : {"child"}, of : Kids, status : {"running"} \cup KidOutcomes]
      BY <3>3
    <3>4. QED BY <2>1, <3>1, <3>2, <3>3 DEF Calls
  <2> HIDE DEF Calls
  <2>3. QED BY <2>2 DEF CallsStand
<1>2. QED BY <1>1 DEF CallsStand, Created

(* Nothing happened to task t.                                             *)
Unmoved(t) ==
    /\ stage'[t] = stage[t] /\ ending'[t] = ending[t] /\ agents'[t] = agents[t]
    /\ shown'[t] = shown[t] /\ column'[t] = column[t] /\ (t \in lost => t \in lost')

(* A task to which nothing happened still fits its turn.                   *)
LEMMA UnmovedFits == ASSUME NEW t \in BoardTasks, TurnFits(t), Unmoved(t) PROVE TurnFits(t)'
<1>1. HasRow(t) => HasRow(t)'
  BY DEF HasRow, Unmoved
<1>2. QED BY <1>1 DEF TurnFits, Unmoved

(* Taking the first call, or none, leaves the others well formed.          *)
LEMMA CallsLeft ==
    ASSUME inbox \in Seq(Calls), CallsStand,
           inbox' = inbox \/ (inbox # <<>> /\ inbox' = Tail(inbox)), real' = real,
           \A t \in BoardTasks : Created(t) => shown'[t] # "none"
    PROVE  CallsStand'
<1>1. \A i \in DOMAIN inbox' : \E k \in DOMAIN inbox : inbox'[i] = inbox[k]
  BY HeadIsTyped
<1>2. 0 \notin DOMAIN inbox'
  BY HeadIsTyped
<1>3. QED BY <1>1, <1>2, CallsKept

(* The active task and the tasks that are looked at still exist.           *)
LEMMA PointersKept ==
    ASSUME BoardTypes, PointersStand, view' = view,
           \A t \in BoardTasks : Created(t) => shown'[t] # "none",
           active' = active \/ active' = 0 \/ (active' \in BoardTasks /\ Created(active'))
    PROVE  PointersStand'
<1>1. ASSUME NEW t \in BoardTasks, view[t] \notin {0, NoView} PROVE shown'[view[t]] # "none"
  <2>1. view[t] \in BoardTasks
    <3>1. view[t] \in 0 .. NoView /\ MaxTasks \in Nat
      BY BoardAssumption DEF BoardTypes
    <3>2. QED BY <3>1, <1>1 DEF BoardTasks, NoView
  <2>2. QED BY <1>1, <2>1 DEF PointersStand
<1>2. ASSUME active' # 0 PROVE shown'[active'] # "none"
  <2>1. active \in BoardTasks \/ active = 0
    BY BoardAssumption DEF BoardTypes, BoardTasks
  <2>2. QED BY <1>2, <2>1 DEF PointersStand
<1>3. QED BY <1>1, <1>2 DEF PointersStand, Created

(* Reading the children keeps what the list says.                          *)
LEMMA SyncKeeps ==
    ASSUME BoardInv, SyncDoes, UNCHANGED <<stage, ending, seen, real, lost>>
    PROVE  /\ \A t \in BoardTasks : Created(t) => shown'[t] # "none"
           /\ TasksStand' /\ KidRows' /\ TurnsFit' /\ AgentEndsForGood
           /\ of' \in [Kids -> 0 .. MaxTasks]
<1> USE DEF BoardInv
<1>1. \A t \in BoardTasks : /\ Created(t) => shown'[t] # "none"
                            /\ ~Created(t) => shown'[t] = "none"
                            /\ shown'[t] = "running" => shown[t] = "running" /\ column'[t] = column[t]
  BY DEF SyncDoes, Created
<1>2. of' = [c \in Kids |->
         IF of[c] = 0 /\ c \in Known /\ active # 0 /\ c \notin baseline[active] THEN active ELSE of[c]]
  BY DEF SyncDoes, Owned
<1>3. of' \in [Kids -> 0 .. MaxTasks]
  BY <1>2 DEF BoardTypes
<1>4. \A c \in Kids : of[c] # 0 => of'[c] = of[c]
  BY <1>2
<1>5. \A c \in Kids : of'[c] # 0 => real[c] # "none" /\ Created(of'[c])
  BY <1>2 DEF Known, KidRows, TasksBegin, PointersStand
<1>6. \A t \in BoardTasks, c \in Kids : agents[t][c] # "absent" => agents'[t][c] # "absent"
  <2>1. \A c \in Kids : real[c] # "absent"
    BY BoardAssumption DEF BoardTypes
  <2>2. QED BY <2>1 DEF SyncDoes
<1>7. \A t \in BoardTasks : HasRow(t) => HasRow(t)'
  BY <1>6 DEF HasRow
<1>8. KidRows'
  <2>1. ASSUME NEW t \in BoardTasks, NEW c \in Kids, agents'[t][c] # "absent" PROVE of'[c] = t
    <3>1. CASE agents'[t][c] = agents[t][c]
      <4>1. of[c] = t
        BY <2>1, <3>1 DEF KidRows
      <4>2. t # 0
        BY BoardAssumption DEF BoardTasks
      <4>3. QED BY <4>1, <4>2, <1>4
    <3>2. QED BY <3>1 DEF SyncDoes
  <2>2. ASSUME NEW c \in Kids, of'[c] # 0 PROVE real'[c] # "none" /\ Created(of'[c])
    BY <2>2, <1>5
  <2>3. ASSUME NEW c \in Kids, of'[c] # 0 PROVE shown'[of'[c]] # "none"
    <3>1. of'[c] \in BoardTasks
      BY <2>3, <1>3, BoardAssumption DEF BoardTasks
    <3>2. QED BY <3>1, <2>2, <2>3, <1>1
  <2>4. QED BY <2>1, <2>2, <2>3, <1>7 DEF KidRows, Created
<1>9. ASSUME NEW t \in BoardTasks, ~Created(t), NEW a \in BoardAgents PROVE agents'[t][a] = "absent"
  <2>1. agents[t][a] = "absent"
    BY <1>9 DEF TasksBegin, TasksStand
  <2>2. CASE a = "main"
    BY <2>1, <2>2 DEF SyncDoes
  <2>3. ASSUME a \in Kids, agents'[t][a] # "absent" PROVE FALSE
    <3>1. of'[a] = t /\ t # 0
      BY <2>3, <1>8, BoardAssumption DEF KidRows, BoardTasks
    <3>2. QED BY <3>1, <1>5, <1>9, <2>3
  <2>4. QED BY <2>2, <2>3 DEF BoardAgents
<1>10. TasksStand'
  BY <1>1, <1>9 DEF TasksBegin, TasksStand, SyncDoes, Created
<1>11. TurnsFit'
  BY <1>1, <1>7 DEF TurnsFit, TurnFits, SyncDoes
<1>12. AgentEndsForGood
  <2> SUFFICES ASSUME NEW t \in BoardTasks, NEW a \in BoardAgents, agents[t][a] \in Fenced
               PROVE  agents'[t][a] \notin Live
    BY DEF AgentEndsForGood
  <2>1. CASE a = "main"
    BY <2>1 DEF SyncDoes, Fenced, Live
  <2>2. CASE a \in Kids
    BY <2>2 DEF SyncDoes, Fenced, Live
  <2>3. QED BY <2>1, <2>2 DEF BoardAgents
<1>13. QED BY <1>1, <1>3, <1>8, <1>10, <1>11, <1>12

(* Every step of the terminal, the workers and the children keeps the      *)
(* invariant, and shows no agent that ended as running.                    *)
LEMMA BoardKeeps == BoardInv /\ [BoardNext]_board => BoardInv' /\ [AgentEndsForGood]_board
<1> SUFFICES ASSUME BoardInv, [BoardNext]_board
             PROVE  BoardInv' /\ [AgentEndsForGood]_board
  OBVIOUS
<1> USE DEF BoardInv
<1>. inbox \in Seq(Calls)
  BY DEF BoardTypes
<1>1. ASSUME NEW t \in BoardTasks, Begins(t) PROVE BoardInv' /\ AgentEndsForGood
  <2>1. BoardTypes'
    BY <1>1, BoardAssumption DEF Begins, BoardTypes, Stages, BoardTasks, NoView, Ended,
       Fenced, Live, Statuses
  <2>2. TasksBegin'
    <3>1. TasksStand'
      BY <1>1, BoardAssumption DEF Begins, BoardTypes, TasksBegin, TasksStand, Live, Ended,
         Fenced, Created, BoardTasks, NoView
    <3>2. PointersStand'
      BY <1>1, BoardAssumption DEF Begins, BoardTypes, TasksBegin, PointersStand, Ended,
         Fenced, Created, BoardTasks, NoView
    <3>3. CallsStand'
      BY  <1>1, BoardAssumption DEF Begins, BoardTypes, TasksBegin, CallsStand, Ended,
         Fenced, Created, BoardTasks, NoView
    <3>4. QED BY <3>1, <3>2, <3>3 DEF TasksBegin
  <2>3. KidRows'
    BY <1>1, BoardAssumption DEF Begins, BoardTypes, KidRows, HasRow, Created, BoardAgents
  <2>4. TurnsFit'
    BY <1>1, BoardAssumption DEF Begins, BoardTypes, TurnsFit, TurnFits, HasRow, Live,
       Ended, Fenced
  <2>5. ReloadIsQuiet'
    BY <1>1 DEF Begins, BoardTypes, ReloadIsQuiet, WorkerAlive
  <2>6. AgentEndsForGood
    BY <1>1 DEF Begins, AgentEndsForGood, Fenced, Live
  <2>7. QED BY <2>1, <2>2, <2>3, <2>4, <2>5, <2>6
<1>2. ASSUME NEW t \in BoardTasks, Dies(t) PROVE BoardInv' /\ AgentEndsForGood
  <2>1. BoardTypes'
    BY <1>2, BoardAssumption DEF Dies, BoardTypes, Stages, BoardTasks, NoView, Ended,
       Fenced, Live, Statuses
  <2>2. TasksBegin'
    <3>1. TasksStand'
      BY <1>2, BoardAssumption DEF Dies, BoardTypes, TasksBegin, TasksStand, Live, Ended,
         Fenced, Created, BoardTasks, NoView
    <3>2. PointersStand'
      BY <1>2, BoardAssumption DEF Dies, BoardTypes, TasksBegin, PointersStand, Ended,
         Fenced, Created, BoardTasks, NoView
    <3>3. CallsStand'
      BY  <1>2, BoardAssumption DEF Dies, BoardTypes, TasksBegin, CallsStand, Ended,
         Fenced, Created, BoardTasks, NoView
    <3>4. QED BY <3>1, <3>2, <3>3 DEF TasksBegin
  <2>3. KidRows'
    BY <1>2, BoardAssumption DEF Dies, BoardTypes, KidRows, HasRow, Created, BoardAgents
  <2>4. TurnsFit'
    BY <1>2, BoardAssumption DEF Dies, BoardTypes, TurnsFit, TurnFits, HasRow, Live, Ended,
       Fenced
  <2>5. ReloadIsQuiet'
    BY <1>2 DEF Dies, BoardTypes, ReloadIsQuiet, WorkerAlive
  <2>6. AgentEndsForGood
    BY <1>2 DEF Dies, AgentEndsForGood, Fenced, Live
  <2>7. QED BY <2>1, <2>2, <2>3, <2>4, <2>5, <2>6
<1>3. ASSUME NEW t \in BoardTasks, NEW s \in Endings, TurnEnds(t, s) PROVE BoardInv' /\ AgentEndsForGood
  <2>1. BoardTypes'
    BY <1>3, BoardAssumption DEF TurnEnds, BoardTypes, Stages, BoardTasks, NoView, Ended,
       Fenced, Live, Statuses
  <2>2. TasksBegin'
    <3>1. TasksStand'
      BY <1>3, BoardAssumption DEF TurnEnds, BoardTypes, TasksBegin, TasksStand, Live,
         Ended, Fenced, Created, BoardTasks, NoView
    <3>2. PointersStand'
      BY <1>3, BoardAssumption DEF TurnEnds, BoardTypes, TasksBegin, PointersStand, Ended,
         Fenced, Created, BoardTasks, NoView
    <3>3. CallsStand'
      BY  <1>3, BoardAssumption DEF TurnEnds, BoardTypes, TasksBegin, CallsStand, Ended,
         Fenced, Created, BoardTasks, NoView
    <3>4. QED BY <3>1, <3>2, <3>3 DEF TasksBegin
  <2>3. KidRows'
    BY <1>3, BoardAssumption DEF TurnEnds, BoardTypes, KidRows, HasRow, Created, BoardAgents
  <2>4. TurnsFit'
    BY <1>3, BoardAssumption DEF TurnEnds, BoardTypes, TurnsFit, TurnFits, HasRow, Live,
       Ended, Fenced
  <2>5. ReloadIsQuiet'
    BY <1>3 DEF TurnEnds, BoardTypes, ReloadIsQuiet, WorkerAlive
  <2>6. AgentEndsForGood
    BY <1>3 DEF TurnEnds, AgentEndsForGood, Fenced, Live
  <2>7. QED BY <2>1, <2>2, <2>3, <2>4, <2>5, <2>6
<1>4. ASSUME NEW t \in BoardTasks, Counts(t) PROVE BoardInv' /\ AgentEndsForGood
  <2>1. BoardTypes'
    BY <1>4, BoardAssumption DEF Counts, BoardTypes, Stages, BoardTasks, NoView, Ended,
       Fenced, Live, Statuses
  <2>2. TasksBegin'
    <3>1. TasksStand'
      BY <1>4, BoardAssumption DEF Counts, BoardTypes, TasksBegin, TasksStand, Live, Ended,
         Fenced, Created, BoardTasks, NoView
    <3>2. PointersStand'
      BY <1>4, BoardAssumption DEF Counts, BoardTypes, TasksBegin, PointersStand, Live,
         Ended, Fenced, Created, BoardTasks, NoView
    <3>3. CallsStand'
      BY  <1>4, BoardAssumption DEF Counts, BoardTypes, TasksBegin, CallsStand, Live,
         Ended, Fenced, Created, BoardTasks, NoView
    <3>4. QED BY <3>1, <3>2, <3>3 DEF TasksBegin
  <2>3. KidRows'
    BY <1>4, BoardAssumption DEF Counts, BoardTypes, KidRows, HasRow, Created, KidsIn,
       Board, Live, BoardAgents
  <2>4. TurnsFit'
    BY <1>4, BoardAssumption DEF Counts, BoardTypes, TurnsFit, TurnFits, HasRow, Live,
       Ended, Fenced
  <2>5. ReloadIsQuiet'
    BY <1>4 DEF Counts, BoardTypes, ReloadIsQuiet, WorkerAlive
  <2>6. AgentEndsForGood
    BY <1>4 DEF Counts, AgentEndsForGood, Fenced, Live
  <2>7. QED BY <2>1, <2>2, <2>3, <2>4, <2>5, <2>6
<1>5. ASSUME LoggedIn PROVE BoardInv' /\ AgentEndsForGood
  <2>1. BoardTypes'
    BY <1>5, BoardAssumption DEF LoggedIn, BoardTypes, Stages, BoardTasks, NoView, Ended,
       Fenced, Live, Statuses
  <2>2. TasksBegin'
    <3>1. TasksStand'
      BY <1>5, BoardAssumption DEF LoggedIn, BoardTypes, TasksBegin, TasksStand, Live,
         Ended, Fenced, Created, BoardTasks, NoView
    <3>2. PointersStand'
      BY <1>5, BoardAssumption DEF LoggedIn, BoardTypes, TasksBegin, PointersStand, Ended,
         Fenced, Created, BoardTasks, NoView
    <3>3. CallsStand'
      BY  <1>5, BoardAssumption DEF LoggedIn, BoardTypes, TasksBegin, CallsStand, Ended,
         Fenced, Created, BoardTasks, NoView
    <3>4. QED BY <3>1, <3>2, <3>3 DEF TasksBegin
  <2>3. KidRows'
    BY <1>5, BoardAssumption DEF LoggedIn, BoardTypes, KidRows, HasRow, Created, BoardAgents
  <2>4. TurnsFit'
    BY <1>5, BoardAssumption DEF LoggedIn, BoardTypes, TurnsFit, TurnFits, HasRow, Live,
       Ended, Fenced
  <2>5. ReloadIsQuiet'
    BY <1>5 DEF LoggedIn, BoardTypes, ReloadIsQuiet, WorkerAlive, IsRunning, RunningWith
  <2>6. AgentEndsForGood
    BY <1>5 DEF LoggedIn, AgentEndsForGood, Fenced, Live
  <2>7. QED BY <2>1, <2>2, <2>3, <2>4, <2>5, <2>6
<1>6. ASSUME Reload PROVE BoardInv' /\ AgentEndsForGood
  <2>1. BoardTypes'
    BY <1>6, BoardAssumption DEF Reload, BoardTypes, Stages, BoardTasks, NoView, Ended,
       Fenced, Live, Statuses
  <2>2. TasksBegin'
    <3>1. TasksStand'
      BY <1>6, BoardAssumption DEF Reload, BoardTypes, TasksBegin, TasksStand, Live, Ended,
         Fenced, Created, BoardTasks, NoView
    <3>2. PointersStand'
      BY <1>6, BoardAssumption DEF Reload, BoardTypes, TasksBegin, PointersStand, Ended,
         Fenced, Created, BoardTasks, NoView
    <3>3. CallsStand'
      BY  <1>6, BoardAssumption DEF Reload, BoardTypes, TasksBegin, CallsStand, Ended,
         Fenced, Created, BoardTasks, NoView
    <3>4. QED BY <3>1, <3>2, <3>3 DEF TasksBegin
  <2>3. KidRows'
    BY <1>6, BoardAssumption DEF Reload, BoardTypes, KidRows, HasRow, Created, BoardAgents
  <2>4. TurnsFit'
    BY <1>6, BoardAssumption DEF Reload, BoardTypes, TurnsFit, TurnFits, HasRow, Live,
       Ended, Fenced
  <2>5. ReloadIsQuiet'
    BY <1>6 DEF Reload, BoardTypes, ReloadIsQuiet, WorkerAlive
  <2>6. AgentEndsForGood
    BY <1>6 DEF Reload, AgentEndsForGood, Fenced, Live
  <2>7. QED BY <2>1, <2>2, <2>3, <2>4, <2>5, <2>6
<1>7. ASSUME NEW c \in Kids, KidStarts(c) PROVE BoardInv' /\ AgentEndsForGood
  <2>1. CallIsAdded("child", c, "running") /\ inbox' \in Seq(Calls)
    <3>1. [what |-> "child", of |-> c, status |-> "running"] \in Calls
      BY DEF Calls
    <3>2. QED BY <1>7, <3>1, CallIsTyped DEF KidStarts, CallIsAdded
  <2>11. BoardTypes'
    BY <1>7, <2>1, BoardAssumption DEF KidStarts, BoardTypes, Stages, BoardTasks, NoView,
       Ended, Fenced, Live, Statuses
  <2>12. TasksBegin'
    <3>1. TasksStand'
      BY <1>7, <2>1, BoardAssumption DEF KidStarts, BoardTypes, TasksBegin, TasksStand,
         Live, Ended, Fenced, Created, BoardTasks, NoView
    <3>2. PointersStand'
      BY <1>7, <2>1, BoardAssumption DEF KidStarts, BoardTypes, TasksBegin, PointersStand,
         Ended, Fenced, Created, BoardTasks, NoView
    <3>3. CallsStand'
      <4>1. PICK j \in DOMAIN inbox' :
              /\ \A i \in DOMAIN inbox' : i = j \/ (i \in DOMAIN inbox /\ inbox'[i] = inbox[i])
              /\ inbox'[j].what = "child" /\ inbox'[j].of = c
        BY <2>1 DEF CallIsAdded
      <4>2. /\ \A d \in Kids : real[d] # "none" => real'[d] # "none"
            /\ real'[c] # "none" /\ shown' = shown
        BY <1>7 DEF KidStarts, BoardTypes
      <4>3. CallsStand
        BY DEF TasksBegin
      <4>4. QED BY <4>1, <4>2, <4>3, CallsKept DEF Created
    <3>4. QED BY <3>1, <3>2, <3>3 DEF TasksBegin
  <2>13. KidRows'
    BY <1>7, <2>1, BoardAssumption DEF KidStarts, BoardTypes, KidRows, HasRow, Created,
       BoardAgents
  <2>14. TurnsFit'
    BY <1>7, <2>1, BoardAssumption DEF KidStarts, BoardTypes, TurnsFit, TurnFits, HasRow,
       Live, Ended, Fenced
  <2>15. ReloadIsQuiet'
    BY <1>7, <2>1 DEF KidStarts, BoardTypes, ReloadIsQuiet, WorkerAlive
  <2>16. AgentEndsForGood
    BY <1>7, <2>1 DEF KidStarts, AgentEndsForGood, Fenced, Live
  <2>17. QED BY <2>11, <2>12, <2>13, <2>14, <2>15, <2>16
<1>8. ASSUME NEW c \in Kids, NEW s \in KidOutcomes, KidEnds(c, s) PROVE BoardInv' /\ AgentEndsForGood
  <2>1. CallIsAdded("child", c, s) /\ inbox' \in Seq(Calls)
    <3>1. [what |-> "child", of |-> c, status |-> s] \in Calls
      BY DEF Calls
    <3>2. QED BY <1>8, <3>1, CallIsTyped DEF KidEnds, CallIsAdded
  <2>2. real'[c] # "none" /\ \A d \in Kids : d = c \/ real'[d] = real[d]
    BY <1>8, BoardAssumption DEF KidEnds, BoardTypes
  <2>11. BoardTypes'
    BY <1>8, <2>1, <2>2, BoardAssumption DEF KidEnds, BoardTypes, Stages, BoardTasks,
       NoView, Ended, Fenced, Live, Statuses
  <2>12. TasksBegin'
    <3>1. TasksStand'
      BY <1>8, <2>1, <2>2, BoardAssumption DEF KidEnds, BoardTypes, TasksBegin, TasksStand,
         Live, Ended, Fenced, Created, BoardTasks, NoView
    <3>2. PointersStand'
      BY <1>8, <2>1, <2>2, BoardAssumption DEF KidEnds, BoardTypes, TasksBegin,
         PointersStand, Ended, Fenced, Created, BoardTasks, NoView
    <3>3. CallsStand'
      <4>1. PICK j \in DOMAIN inbox' :
              /\ \A i \in DOMAIN inbox' : i = j \/ (i \in DOMAIN inbox /\ inbox'[i] = inbox[i])
              /\ inbox'[j].what = "child" /\ inbox'[j].of = c
        BY <2>1 DEF CallIsAdded
      <4>2. /\ \A d \in Kids : real[d] # "none" => real'[d] # "none"
            /\ real'[c] # "none" /\ shown' = shown
        BY <1>8, <2>2 DEF KidEnds, BoardTypes
      <4>3. CallsStand
        BY DEF TasksBegin
      <4>4. QED BY <4>1, <4>2, <4>3, CallsKept DEF Created
    <3>4. QED BY <3>1, <3>2, <3>3 DEF TasksBegin
  <2>13. KidRows'
    BY <1>8, <2>1, <2>2, BoardAssumption DEF KidEnds, BoardTypes, KidRows, HasRow, Created,
       BoardAgents
  <2>14. TurnsFit'
    BY <1>8, <2>1, <2>2, BoardAssumption DEF KidEnds, BoardTypes, TurnsFit, TurnFits,
       HasRow, Live, Ended, Fenced
  <2>15. ReloadIsQuiet'
    BY <1>8, <2>1, <2>2 DEF KidEnds, BoardTypes, ReloadIsQuiet, WorkerAlive
  <2>16. AgentEndsForGood
    BY <1>8, <2>1, <2>2 DEF KidEnds, AgentEndsForGood, Fenced, Live
  <2>17. QED BY <2>11, <2>12, <2>13, <2>14, <2>15, <2>16
<1>9. ASSUME ApplyStart PROVE BoardInv' /\ AgentEndsForGood
  <2>1. inbox # <<>> /\ inbox' = Tail(inbox) /\ Head(inbox).what = "start"
    BY <1>9 DEF ApplyStart, Callback
  <2>2. /\ Tail(inbox) \in Seq(Calls) /\ Len(Tail(inbox)) = Len(inbox) - 1
        /\ \A i \in DOMAIN Tail(inbox) : Tail(inbox)[i] = inbox[i + 1] /\ i + 1 \in DOMAIN inbox
        /\ Head(inbox) = inbox[1] /\ 1 \in DOMAIN inbox
    BY <2>1, HeadIsTyped
  <2>3. Head(inbox).of \in BoardTasks
    BY <2>1, HeadIsTyped
  <2>11. BoardTypes'
    BY <1>9, <2>1, <2>2, <2>3, BoardAssumption DEF ApplyStart, BoardTypes, Stages,
       Callback, BoardTasks, NoView, Ended, Fenced, Live, Known, Statuses
  <2>12. TasksBegin'
    <3>1. TasksStand'
      BY <1>9, <2>1, <2>2, <2>3, BoardAssumption DEF ApplyStart, BoardTypes, TasksBegin,
         TasksStand, Live, Ended, Fenced, Created, Callback, BoardTasks, NoView
    <3>2. PointersStand'
      <4>1. Created(Head(inbox).of)
        BY <2>1, <2>2 DEF TasksBegin, CallsStand
      <4>2. QED
        BY <1>9, <2>1, <2>3, <4>1 DEF ApplyStart, BoardTypes, TasksBegin, PointersStand,
           Created
    <3>3. CallsStand'
      BY CallsKept,  <1>9, <2>1, <2>2, <2>3, BoardAssumption DEF ApplyStart, BoardTypes,
         TasksBegin, CallsStand, Ended, Fenced, Created, Callback, BoardTasks, NoView
    <3>4. QED BY <3>1, <3>2, <3>3 DEF TasksBegin
  <2>13. KidRows'
    BY <1>9, <2>1, <2>2, <2>3, BoardAssumption DEF ApplyStart, BoardTypes, KidRows, HasRow,
       Created, BoardAgents
  <2>14. TurnsFit'
    BY <1>9, <2>1, <2>2, <2>3, BoardAssumption DEF ApplyStart, BoardTypes, TurnsFit,
       TurnFits, HasRow, Live, Ended, Fenced
  <2>15. ReloadIsQuiet'
    BY <1>9, <2>1, <2>2, <2>3 DEF ApplyStart, BoardTypes, ReloadIsQuiet, WorkerAlive,
       Callback
  <2>16. AgentEndsForGood
    BY <1>9, <2>1, <2>2, <2>3 DEF ApplyStart, AgentEndsForGood, Fenced, Live
  <2>17. QED BY <2>11, <2>12, <2>13, <2>14, <2>15, <2>16
<1>10. ASSUME NEW t \in BoardTasks, Tells(t) PROVE BoardInv' /\ AgentEndsForGood
  <2>1. /\ shown' = shown /\ column' = column /\ ending[t] \in Ended
        /\ MainIs(t, ending[t]) /\ Created(t)
    <3>1. ending[t] \in Ended /\ ending[t] \in Statuses /\ Created(t)
      BY <1>10 DEF Tells, BoardTypes, TurnsFit, TurnFits, TasksBegin, TasksStand, Statuses
    <3>2. QED BY <1>10, <3>1, UpdateEffect, MainIsWritten DEF Tells, BoardAgents
  <2>11. BoardTypes'
    BY <1>10, <2>1, BoardAssumption DEF Tells, BoardTypes, Stages, BoardTasks, NoView,
       Ended, Fenced, Live, Statuses, MainIs
  <2>12. TasksBegin'
    <3>1. TasksStand'
      BY <1>10, <2>1, BoardAssumption DEF Tells, BoardTypes, TasksBegin, TasksStand, Live,
         Ended, Fenced, Created, BoardTasks, NoView, MainIs
    <3>2. PointersStand'
      BY <1>10, <2>1, BoardAssumption DEF Tells, BoardTypes, TasksBegin, PointersStand,
         Ended, Fenced, Created, BoardTasks, NoView, MainIs
    <3>3. CallsStand'
      BY  <1>10, <2>1, BoardAssumption DEF Tells, BoardTypes, TasksBegin, CallsStand,
         Ended, Fenced, Created, BoardTasks, NoView, MainIs
    <3>4. QED BY <3>1, <3>2, <3>3 DEF TasksBegin
  <2>13. KidRows'
    <3>1. \A x \in BoardTasks : HasRow(x) => HasRow(x)'
      BY <2>1 DEF HasRow, MainIs
    <3>2. QED BY <1>10, <2>1, <3>1 DEF Tells, KidRows, Created, MainIs
  <2>14. TurnsFit'
    <3>1. TurnFits(t)'
      BY <1>10, <2>1, BoardAssumption DEF Tells, BoardTypes, TurnsFit, TasksBegin,
         TasksStand, TurnFits, HasRow, Live, Ended, Fenced, MainIs
    <3>2. ASSUME NEW x \in BoardTasks, x # t PROVE TurnFits(x)'
      <4>1. Unmoved(x)
        BY <3>2, <1>10, <2>1 DEF Tells, BoardTypes, MainIs, Unmoved
      <4>2. QED BY <4>1, UnmovedFits DEF TurnsFit
    <3>3. QED BY <3>1, <3>2 DEF TurnsFit
  <2>15. ReloadIsQuiet'
    BY <1>10, <2>1 DEF Tells, BoardTypes, ReloadIsQuiet, WorkerAlive, MainIs
  <2>16. AgentEndsForGood
    BY <1>10, <2>1 DEF Tells, AgentEndsForGood, Fenced, Ended, Live, MainIs
  <2>17. QED BY <2>11, <2>12, <2>13, <2>14, <2>15, <2>16
<1>11. ASSUME NEW t \in BoardTasks, DeltaWrites(t) PROVE BoardInv' /\ AgentEndsForGood
  <2>1. /\ shown' = shown /\ column' = column
        /\ \/ agents' = agents /\ (shown[t] \in Fenced \/ agents[t]["main"] \in Fenced)
           \/ /\ shown[t] \notin Fenced /\ agents[t]["main"] \notin Fenced
              /\ MainIs(t, "running")
    BY <1>11, LiveEffect, MainIsWritten DEF DeltaWrites, BoardAgents, Statuses, Live
  <2>2. stage[t] \in {"waits", "runs", "ended", "heard"} \/ agents[t]["main"] \in Fenced \/ t \in lost
    BY <1>11 DEF DeltaWrites, BoardTypes, Stages, TasksBegin, TasksStand, TurnsFit, TurnFits
  <2>3. Created(t)
    BY <1>11 DEF DeltaWrites, TasksBegin, TasksStand
  <2>11. BoardTypes'
    BY <1>11, <2>1, BoardAssumption DEF DeltaWrites, BoardTypes, Stages, BoardTasks,
       NoView, Ended, Fenced, Live, Statuses, MainIs
  <2>12. TasksBegin'
    <3>1. TasksStand'
      <4>1. CASE agents' = agents
        BY <1>11, <2>1, <4>1 DEF DeltaWrites, TasksBegin, TasksStand, Created
      <4>2. CASE MainIs(t, "running")
        BY <1>11, <2>1, <2>3, <4>2 DEF DeltaWrites, TasksBegin, TasksStand, Created,
           MainIs, Live
      <4>3. QED BY <2>1, <4>1, <4>2
    <3>2. PointersStand'
      BY <1>11, <2>1, BoardAssumption DEF DeltaWrites, BoardTypes, TasksBegin,
         PointersStand, Ended, Fenced, Created, BoardTasks, NoView, MainIs
    <3>3. CallsStand'
      BY  <1>11, <2>1, BoardAssumption DEF DeltaWrites, BoardTypes, TasksBegin, CallsStand,
         Ended, Fenced, Created, BoardTasks, NoView, MainIs
    <3>4. QED BY <3>1, <3>2, <3>3 DEF TasksBegin
  <2>13. KidRows'
    BY <1>11, <2>1, BoardAssumption DEF DeltaWrites, BoardTypes, KidRows, HasRow, Created,
       Board, BoardAgents, MainIs
  <2>14. TurnsFit'
    <3>1. TurnFits(t)'
      BY <1>11, <2>1, <2>2 DEF DeltaWrites, TurnsFit, TurnFits, HasRow, Fenced, Live, MainIs
    <3>2. ASSUME NEW x \in BoardTasks, x # t PROVE TurnFits(x)'
      <4>1. Unmoved(x)
        BY <3>2, <1>11, <2>1 DEF DeltaWrites, BoardTypes, MainIs, Unmoved
      <4>2. QED BY <4>1, UnmovedFits DEF TurnsFit
    <3>3. QED BY <3>1, <3>2 DEF TurnsFit
  <2>15. ReloadIsQuiet'
    BY <1>11, <2>1 DEF DeltaWrites, BoardTypes, ReloadIsQuiet, WorkerAlive, MainIs
  <2>16. AgentEndsForGood
    BY <1>11, <2>1 DEF DeltaWrites, AgentEndsForGood, Fenced, Live, MainIs
  <2>17. QED BY <2>11, <2>12, <2>13, <2>14, <2>15, <2>16
<1>12. ASSUME AddNote PROVE BoardInv' /\ AgentEndsForGood
  <2>2. active \in BoardTasks /\ Created(active)
    BY <1>12 DEF AddNote, BoardTypes, BoardTasks, TasksBegin, PointersStand
  <2>1. /\ shown' = shown /\ column' = column
        /\ \/ agents' = agents /\ (shown[active] \in Fenced \/ agents[active]["main"] \in Fenced)
           \/ /\ shown[active] \notin Fenced /\ agents[active]["main"] \notin Fenced
              /\ MainIs(active, "running")
    BY <1>12, <2>2, LiveEffect, MainIsWritten DEF AddNote, BoardAgents, Statuses, Live
  <2>11. BoardTypes'
    BY <1>12, <2>1, <2>2, BoardAssumption DEF AddNote, BoardTypes, Stages, BoardTasks,
       NoView, Ended, Fenced, Live, Statuses, MainIs
  <2>12. TasksBegin'
    <3>1. TasksStand'
      BY <1>12, <2>1, <2>2, BoardAssumption DEF AddNote, BoardTypes, TasksBegin,
         TasksStand, Live, Ended, Fenced, Created, BoardTasks, NoView, MainIs
    <3>2. PointersStand'
      BY <1>12, <2>1, <2>2, BoardAssumption DEF AddNote, BoardTypes, TasksBegin,
         PointersStand, Ended, Fenced, Created, BoardTasks, NoView, MainIs
    <3>3. CallsStand'
      BY  <1>12, <2>1, <2>2, BoardAssumption DEF AddNote, BoardTypes, TasksBegin,
         CallsStand, Ended, Fenced, Created, BoardTasks, NoView, MainIs
    <3>4. QED BY <3>1, <3>2, <3>3 DEF TasksBegin
  <2>13. KidRows'
    BY <1>12, <2>1, <2>2, BoardAssumption DEF AddNote, BoardTypes, KidRows, HasRow,
       Created, Board, BoardAgents, MainIs
  <2>14. TurnsFit'
    <3>1. TurnFits(active)'
      BY <1>12, <2>1, <2>2, BoardAssumption DEF AddNote, BoardTypes, TurnsFit, TasksBegin,
         TasksStand, TurnFits, HasRow, Live, Ended, Fenced, MainIs
    <3>2. ASSUME NEW x \in BoardTasks, x # active PROVE TurnFits(x)'
      <4>1. Unmoved(x)
        BY <3>2, <1>12, <2>1, <2>2 DEF AddNote, BoardTypes, MainIs, Unmoved
      <4>2. QED BY <4>1, UnmovedFits DEF TurnsFit
    <3>3. active' = active
      BY <1>12 DEF AddNote
    <3>4. QED BY <3>1, <3>2, <3>3 DEF TurnsFit
  <2>15. ReloadIsQuiet'
    BY <1>12, <2>1, <2>2 DEF AddNote, BoardTypes, ReloadIsQuiet, WorkerAlive, IsRunning,
       RunningWith, MainIs
  <2>16. AgentEndsForGood
    BY <1>12, <2>1, <2>2 DEF AddNote, AgentEndsForGood, Fenced, Live, MainIs
  <2>17. QED BY <2>11, <2>12, <2>13, <2>14, <2>15, <2>16
<1>13. ASSUME PressEsc PROVE BoardInv' /\ AgentEndsForGood
  <2>1. /\ shown' = [shown EXCEPT ![active] = "cancelled"] /\ agents' = agents
        /\ column' = [column EXCEPT ![active] = "cancelled"]
    BY <1>13 DEF PressEsc, Show, SetPhase, Board
  <2>2. active \in BoardTasks /\ Created(active)
    BY <1>13 DEF PressEsc, BoardTypes, BoardTasks, TasksBegin, PointersStand
  <2>11. BoardTypes'
    BY <1>13, <2>1, <2>2, BoardAssumption DEF PressEsc, BoardTypes, Stages, BoardTasks,
       NoView, Ended, Fenced, Live, Statuses
  <2>12. TasksBegin'
    <3>1. TasksStand'
      BY <1>13, <2>1, <2>2, BoardAssumption DEF PressEsc, BoardTypes, TasksBegin,
         TasksStand, Live, Ended, Fenced, Created, BoardTasks, NoView
    <3>2. PointersStand'
      BY <1>13, <2>1, <2>2, BoardAssumption DEF PressEsc, BoardTypes, TasksBegin,
         PointersStand, Ended, Fenced, Created, BoardTasks, NoView
    <3>3. CallsStand'
      BY  <1>13, <2>1, <2>2, BoardAssumption DEF PressEsc, BoardTypes, TasksBegin,
         CallsStand, Ended, Fenced, Created, BoardTasks, NoView
    <3>4. QED BY <3>1, <3>2, <3>3 DEF TasksBegin
  <2>13. KidRows'
    BY <1>13, <2>1, <2>2, BoardAssumption DEF PressEsc, BoardTypes, KidRows, HasRow,
       Created, Board, BoardAgents
  <2>14. TurnsFit'
    BY <1>13, <2>1, <2>2, BoardAssumption DEF PressEsc, BoardTypes, TurnsFit, TurnFits,
       HasRow, Live, Ended, Fenced
  <2>15. ReloadIsQuiet'
    BY <1>13, <2>1, <2>2 DEF PressEsc, BoardTypes, ReloadIsQuiet, WorkerAlive, IsRunning,
       RunningWith
  <2>16. AgentEndsForGood
    BY <1>13, <2>1, <2>2 DEF PressEsc, AgentEndsForGood, Fenced, Live
  <2>17. QED BY <2>11, <2>12, <2>13, <2>14, <2>15, <2>16
<1>14. ASSUME CancelAgents PROVE BoardInv' /\ AgentEndsForGood
  <2>1. /\ shown' = shown /\ column' = column
        /\ agents' \in [BoardTasks -> [BoardAgents -> Statuses]]
        /\ \A x \in BoardTasks, c \in Kids : agents'[x][c] = agents[x][c]
               \/ (agents'[x][c] = "cancelled" /\ agents[x][c] # "absent")
        /\ \A x \in BoardTasks : agents'[x]["main"] = agents[x]["main"]
               \/ (agents'[x]["main"] = "cancelled" /\ agents[x]["main"] # "absent")
        /\ \A x \in BoardTasks, y \in BoardAgents : agents'[x][y] = agents[x][y]
               \/ (agents'[x][y] = "cancelled" /\ agents[x][y] # "absent")
    <3> DEFINE row == [a \in BoardAgents |->
                   IF agents[active][a] \in Fenced \cup {"absent"} THEN agents[active][a]
                   ELSE "cancelled"]
    <3>1. /\ shown' = shown /\ column' = column
          /\ agents' = [agents EXCEPT ![active] = row]
      BY <1>14 DEF CancelAgents, Show, Board
    <3>2. row \in [BoardAgents -> Statuses] \/ active \notin BoardTasks
      BY DEF BoardTypes, Statuses, Ended, Fenced
    <3>3. ASSUME NEW y \in BoardAgents
          PROVE  row[y] = agents[active][y]
               \/ (row[y] = "cancelled" /\ agents[active][y] # "absent")
      <4>1. row[y] = IF agents[active][y] \in Fenced \cup {"absent"} THEN agents[active][y]
                   ELSE "cancelled"
        OBVIOUS
      <4> HIDE DEF row
      <4>2. QED BY <4>1
    <3> HIDE DEF row
    <3>4. agents \in [BoardTasks -> [BoardAgents -> Statuses]]
      BY DEF BoardTypes
    <3>5. agents' \in [BoardTasks -> [BoardAgents -> Statuses]]
      BY <3>1, <3>2, <3>4
    <3>6. ASSUME NEW x \in BoardTasks, NEW y \in BoardAgents
          PROVE  agents'[x][y] = agents[x][y]
                   \/ (agents'[x][y] = "cancelled" /\ agents[x][y] # "absent")
      <4>1. CASE x = active
        <5>1. agents'[x] = row
          BY <3>1, <3>4, <4>1
        <5>2. QED BY <5>1, <3>3, <4>1
      <4>2. CASE x # active
        <5>1. agents'[x] = agents[x]
          BY <3>1, <3>4, <4>2
        <5>2. QED BY <5>1
      <4>3. QED BY <4>1, <4>2
    <3>7. QED BY <3>1, <3>5, <3>6 DEF BoardAgents
  <2>11. BoardTypes'
    BY <1>14, <2>1, BoardAssumption DEF CancelAgents, BoardTypes, Stages, BoardTasks,
       NoView, Ended, Fenced, Live, Statuses
  <2>12. TasksBegin'
    <3>1. TasksStand'
      BY <1>14, <2>1, BoardAssumption DEF CancelAgents, BoardTypes, TasksBegin, TasksStand,
         Live, Ended, Fenced, Created, BoardTasks, NoView
    <3>2. PointersStand'
      BY <1>14, <2>1, BoardAssumption DEF CancelAgents, BoardTypes, TasksBegin,
         PointersStand, Ended, Fenced, Created, BoardTasks, NoView
    <3>3. CallsStand'
      BY  <1>14, <2>1, BoardAssumption DEF CancelAgents, BoardTypes, TasksBegin,
         CallsStand, Ended, Fenced, Created, BoardTasks, NoView
    <3>4. QED BY <3>1, <3>2, <3>3 DEF TasksBegin
  <2>13. KidRows'
    <3>1. \A x \in BoardTasks : HasRow(x) => HasRow(x)'
      BY <2>1 DEF HasRow
    <3>2. QED BY <1>14, <2>1, <3>1 DEF CancelAgents, KidRows, Created
  <2>14. TurnsFit'
    <3>1. \A x \in BoardTasks : HasRow(x) => HasRow(x)'
      BY <2>1 DEF HasRow
    <3>2. QED BY <1>14, <2>1, <3>1 DEF CancelAgents, TurnsFit, TurnFits, Live, Fenced
  <2>15. ReloadIsQuiet'
    BY <1>14, <2>1 DEF CancelAgents, BoardTypes, ReloadIsQuiet, WorkerAlive
  <2>16. AgentEndsForGood
    BY <1>14, <2>1 DEF CancelAgents, AgentEndsForGood, Fenced, Live
  <2>17. QED BY <2>11, <2>12, <2>13, <2>14, <2>15, <2>16
<1>15. ASSUME NEW t \in BoardTasks, Prompt(t) PROVE BoardInv' /\ AgentEndsForGood
  <2>1. /\ shown' = [shown EXCEPT ![t] = "running"] /\ column' = [column EXCEPT ![t] = "open"]
        /\ MainIs(t, "running") /\ agents[t]["main"] = "absent"
    <3>1. /\ shown' = [shown EXCEPT ![t] = "running"] /\ column' = [column EXCEPT ![t] = "open"]
          /\ agents' = [agents EXCEPT ![t]["main"] = "running"]
      BY <1>15 DEF Prompt, Create, Show, Board
    <3>2. agents[t]["main"] = "absent"
      BY <1>15 DEF Prompt, TasksBegin, TasksStand, BoardAgents
    <3>3. QED BY <3>1, <3>2, MainIsWritten DEF BoardAgents, Statuses, Live
  <2>11. BoardTypes'
    BY <1>15, <2>1, BoardAssumption DEF Prompt, BoardTypes, Stages, BoardTasks, NoView,
       Ended, Fenced, Live, Known, Statuses, MainIs
  <2>12. TasksBegin'
    <3>1. TasksStand'
      BY <1>15, <2>1, BoardAssumption DEF Prompt, BoardTypes, TasksBegin, TasksStand, Live,
         Ended, Fenced, Created, BoardTasks, NoView, MainIs
    <3>2. PointersStand'
      BY <1>15, <2>1, BoardAssumption DEF Prompt, BoardTypes, TasksBegin, PointersStand,
         Ended, Fenced, Created, BoardTasks, NoView, MainIs
    <3>3. CallsStand'
      BY  <1>15, <2>1, BoardAssumption DEF Prompt, BoardTypes, TasksBegin, CallsStand,
         Ended, Fenced, Created, BoardTasks, NoView, MainIs
    <3>4. QED BY <3>1, <3>2, <3>3 DEF TasksBegin
  <2>13. KidRows'
    BY <1>15, <2>1, BoardAssumption DEF Prompt, BoardTypes, KidRows, HasRow, Created,
       Board, BoardAgents, MainIs
  <2>14. TurnsFit'
    <3>1. TurnFits(t)'
      BY <1>15, <2>1, BoardAssumption DEF Prompt, BoardTypes, TurnsFit, TasksBegin,
         TasksStand, TurnFits, HasRow, Live, Ended, Fenced, MainIs
    <3>2. ASSUME NEW x \in BoardTasks, x # t PROVE TurnFits(x)'
      <4>1. Unmoved(x)
        BY <3>2, <1>15, <2>1 DEF Prompt, BoardTypes, MainIs, Unmoved
      <4>2. QED BY <4>1, UnmovedFits DEF TurnsFit
    <3>3. QED BY <3>1, <3>2 DEF TurnsFit
  <2>15. ReloadIsQuiet'
    BY <1>15, <2>1 DEF Prompt, BoardTypes, ReloadIsQuiet, WorkerAlive, MainIs
  <2>16. AgentEndsForGood
    BY <1>15, <2>1 DEF Prompt, AgentEndsForGood, Fenced, Live, MainIs
  <2>17. QED BY <2>11, <2>12, <2>13, <2>14, <2>15, <2>16
<1>16. ASSUME Sync PROVE BoardInv' /\ AgentEndsForGood
  <2>1. /\ \A t \in BoardTasks : Created(t) => shown'[t] # "none"
        /\ TasksStand' /\ KidRows' /\ TurnsFit' /\ AgentEndsForGood
        /\ of' \in [Kids -> 0 .. MaxTasks] /\ SyncDoes
    BY <1>16, SyncEffect, SyncKeeps DEF Sync
  <2>2. BoardTypes'
    BY <1>16, <2>1, BoardAssumption DEF Sync, BoardTypes, Flush, SyncDoes
  <2>3. PointersStand'
    BY <1>16, <2>1, PointersKept DEF Sync, TasksBegin
  <2>4. CallsStand'
    <3>1. CallsStand
      BY DEF TasksBegin
    <3>2. QED BY <1>16, <2>1, <3>1, CallsLeft DEF Sync
  <2>5. ReloadIsQuiet'
    BY <1>16 DEF Sync, Flush, MayReload, RunningWith, ReloadIsQuiet, WorkerAlive, Callback
  <2>6. QED BY <2>1, <2>2, <2>3, <2>4, <2>5 DEF TasksBegin
<1>17. ASSUME ApplyEnd PROVE BoardInv' /\ AgentEndsForGood
  <2>1. inbox # <<>> /\ inbox' = Tail(inbox) /\ Head(inbox).what = "end"
    BY <1>17 DEF ApplyEnd, Callback
  <2>2. /\ Tail(inbox) \in Seq(Calls) /\ Len(Tail(inbox)) = Len(inbox) - 1
        /\ \A i \in DOMAIN Tail(inbox) : Tail(inbox)[i] = inbox[i + 1] /\ i + 1 \in DOMAIN inbox
        /\ Head(inbox) = inbox[1] /\ 1 \in DOMAIN inbox
    BY <2>1, HeadIsTyped
  <2>4. /\ Head(inbox).status \in 0 .. MaxTasks
        /\ Head(inbox).status = 0 \/ (Head(inbox).status \in BoardTasks /\ Created(Head(inbox).status))
    <3>1. /\ Head(inbox).status \in 0 .. MaxTasks
          /\ Head(inbox).status # 0 => Created(Head(inbox).status)
      BY <2>1, <2>2, HeadIsTyped DEF TasksBegin, CallsStand
    <3>2. QED BY <3>1, BoardAssumption DEF BoardTasks
  <2>3. /\ \A t \in BoardTasks : Created(t) => shown'[t] # "none"
        /\ TasksStand' /\ KidRows' /\ TurnsFit' /\ AgentEndsForGood
        /\ of' \in [Kids -> 0 .. MaxTasks] /\ SyncDoes
    BY <1>17, SyncEffect, SyncKeeps DEF ApplyEnd
  <2>5. BoardTypes'
    BY <1>17, <2>1, <2>2, <2>4, <2>3, BoardAssumption DEF ApplyEnd, BoardTypes, Flush,
       SyncDoes
  <2>6. PointersStand'
    BY <1>17, <2>1, <2>2, <2>4, <2>3, PointersKept DEF ApplyEnd, TasksBegin
  <2>7. CallsStand'
    <3>1. CallsStand
      BY DEF TasksBegin
    <3>2. QED BY <1>17, <2>1, <2>2, <2>4, <2>3, <3>1, CallsLeft DEF ApplyEnd
  <2>8. ReloadIsQuiet'
    BY <1>17 DEF ApplyEnd, Flush, MayReload, RunningWith, ReloadIsQuiet, WorkerAlive,
       Callback
  <2>9. QED BY <2>3, <2>5, <2>6, <2>7, <2>8 DEF TasksBegin
<1>18. ASSUME ApplyFinish PROVE BoardInv' /\ AgentEndsForGood
  <2>1. inbox # <<>> /\ inbox' = Tail(inbox) /\ Head(inbox).what = "finish"
    BY <1>18 DEF ApplyFinish, Callback
  <2>2. /\ Tail(inbox) \in Seq(Calls) /\ Len(Tail(inbox)) = Len(inbox) - 1
        /\ \A i \in DOMAIN Tail(inbox) : Tail(inbox)[i] = inbox[i + 1] /\ i + 1 \in DOMAIN inbox
        /\ Head(inbox) = inbox[1] /\ 1 \in DOMAIN inbox
    BY <2>1, HeadIsTyped
  <2>3. /\ \A t \in BoardTasks : Created(t) => shown'[t] # "none"
        /\ TasksStand' /\ KidRows' /\ TurnsFit' /\ AgentEndsForGood
        /\ of' \in [Kids -> 0 .. MaxTasks] /\ SyncDoes
    BY <1>18, SyncEffect, SyncKeeps DEF ApplyFinish
  <2>4. BoardTypes'
    BY <1>18, <2>1, <2>2, <2>3, BoardAssumption DEF ApplyFinish, BoardTypes, Flush, SyncDoes
  <2>5. PointersStand'
    BY <1>18, <2>1, <2>2, <2>3, PointersKept DEF ApplyFinish, TasksBegin
  <2>6. CallsStand'
    <3>1. CallsStand
      BY DEF TasksBegin
    <3>2. QED BY <1>18, <2>1, <2>2, <2>3, <3>1, CallsLeft DEF ApplyFinish
  <2>7. ReloadIsQuiet'
    BY <1>18 DEF ApplyFinish, Flush, MayReload, RunningWith, ReloadIsQuiet, WorkerAlive,
       Callback
  <2>8. QED BY <2>3, <2>4, <2>5, <2>6, <2>7 DEF TasksBegin
<1>19. ASSUME NEW t \in BoardTasks, Records(t) PROVE BoardInv' /\ AgentEndsForGood
  <2>1. CallIsAdded("finish", t, "") /\ inbox' \in Seq(Calls)
    <3>1. [what |-> "finish", of |-> t, status |-> ""] \in Calls
      BY DEF Calls
    <3>2. CallInUi("finish", t, "")
      BY <1>19 DEF Records
    <3>3. CallIsAdded("finish", t, "")
      BY <3>1, <3>2, CallIsTyped
    <3>4. QED BY <3>3 DEF CallIsAdded
  <2>2. /\ agents' = agents
        /\ \/ /\ seen[t] = "open" /\ shown' = [shown EXCEPT ![t] = "running"]
              /\ column' = [column EXCEPT ![t] = "open"]
           \/ \E s \in Ended, k \in {"done", "failed", "cancelled"} :
                 /\ shown' = [shown EXCEPT ![t] = s] /\ column' = [column EXCEPT ![t] = k]
    <3>1. Show(Recorded(Board, t))
      BY <1>19 DEF Records
    <3>2. CASE seen[t] = "open"
      <4>1. Recorded(Board, t) = SetPhase([Board EXCEPT !.shown[t] = "running"], t, "open")
        BY <3>2 DEF Recorded
      <4>2. QED BY <3>1, <3>2, <4>1 DEF SetPhase, Show, Board
    <3>3. CASE seen[t] # "open"
      <4>1. PICK s \in Ended : Recorded(Board, t) = FinishTask(Board, t, s)
        <5>1. ending[t] \in Ended
          BY <1>19 DEF Records, BoardTypes, TurnsFit, TurnFits
        <5>2. Recorded(Board, t) = FinishTask(Board, t, IF seen[t] = "failed" THEN "failed" ELSE ending[t])
          BY <3>3 DEF Recorded
        <5>3. QED BY <5>1, <5>2 DEF Ended, Fenced
      <4> DEFINE k == CASE s = "completed" -> "done" [] s = "cancelled" -> s [] OTHER -> "failed"
      <4>2. k \in {"done", "failed", "cancelled"}
        OBVIOUS
      <4>3. /\ FinishTask(Board, t, s).shown = [shown EXCEPT ![t] = s]
            /\ FinishTask(Board, t, s).column = [column EXCEPT ![t] = k]
            /\ FinishTask(Board, t, s).agents = agents
        BY DEF FinishTask, Board
      <4> HIDE DEF k
      <4>4. QED BY <3>1, <4>1, <4>2, <4>3 DEF Show
    <3>4. QED BY <3>2, <3>3
  <2>3. /\ shown' \in [BoardTasks -> {"none", "running"} \cup Ended]
        /\ column' \in [BoardTasks -> {"none", "open", "done", "failed", "cancelled"}]
        /\ shown'[t] \in {"running"} \cup Ended
        /\ \A x \in BoardTasks : x # t => shown'[x] = shown[x] /\ column'[x] = column[x]
    <3>1. PICK s \in {"running"} \cup Ended, k \in {"open", "done", "failed", "cancelled"} :
            shown' = [shown EXCEPT ![t] = s] /\ column' = [column EXCEPT ![t] = k]
      BY <2>2
    <3>2. QED BY <3>1 DEF BoardTypes
  <2>15. \A x \in BoardTasks : Created(x) => shown'[x] # "none"
    BY <2>3 DEF Created, Ended, Fenced
  <2>4. shown'[t] \in Ended \/ (shown'[t] = "running" /\ column'[t] = "open" /\ HasRow(t))
    BY <2>2, <1>19 DEF BoardTypes, KidRows
  <2>5. Created(t) /\ HasRow(t)' = HasRow(t)
    BY <1>19, <2>2 DEF Records, TasksBegin, TasksStand, HasRow
  <2>6. BoardTypes'
    BY <1>19, <2>1, <2>2, <2>3 DEF Records, BoardTypes, Stages
  <2>7. TasksStand'
    <3> SUFFICES ASSUME NEW x \in BoardTasks
                 PROVE  IF shown'[x] # "none" THEN stage'[x] # "none" /\ agents'[x]["main"] \in Live \cup Ended
                        ELSE /\ stage'[x] = "none" /\ ending'[x] = "none"
                             /\ \A a \in BoardAgents : agents'[x][a] = "absent"
      BY DEF TasksStand, Created
    <3>1. CASE shown[x] # "none"
      <4>1. shown'[x] # "none" /\ stage[x] # "none" /\ agents[x]["main"] \in Live \cup Ended
        BY <3>1, <2>15 DEF TasksBegin, TasksStand, Created
      <4>2. stage'[x] # "none"
        BY <4>1, <1>19 DEF Records, BoardTypes
      <4>3. QED BY <4>1, <4>2, <2>2
    <3>2. CASE shown[x] = "none"
      <4>1. x # t /\ stage[x] = "none" /\ ending[x] = "none" /\ \A a \in BoardAgents : agents[x][a] = "absent"
        BY <3>2, <2>5 DEF TasksBegin, TasksStand, Created
      <4>2. shown'[x] = "none" /\ stage'[x] = "none" /\ ending'[x] = "none"
        BY <4>1, <3>2, <2>3, <1>19 DEF Records, BoardTypes
      <4>3. QED BY <4>1, <4>2, <2>2
    <3>3. QED BY <3>1, <3>2
  <2>8. PointersStand'
    BY <1>19, <2>15, PointersKept DEF Records, TasksBegin
  <2>9. CallsStand'
    <3>1. PICK j \in DOMAIN inbox' :
            /\ \A i \in DOMAIN inbox' : i = j \/ (i \in DOMAIN inbox /\ inbox'[i] = inbox[i])
            /\ inbox'[j].what = "finish" /\ inbox'[j].of = t
      BY <2>1 DEF CallIsAdded
    <3>2. CallsStand /\ real' = real
      BY <1>19 DEF Records, TasksBegin
    <3>3. QED BY <3>1, <3>2, <2>15, CallsKept
  <2>10. KidRows'
    <3>1. of' = of /\ real' = real /\ agents' = agents /\ \A x \in BoardTasks : HasRow(x)' = HasRow(x)
      BY <1>19, <2>2 DEF Records, HasRow
    <3>2. ASSUME NEW c \in Kids, of[c] # 0 PROVE shown'[of[c]] # "none"
      <4>1. of[c] \in BoardTasks
        BY <3>2, BoardAssumption DEF BoardTypes, BoardTasks
      <4>2. QED BY <4>1, <3>2, <2>15 DEF KidRows
    <3>3. \A x \in BoardTasks : seen'[x] = "open" => HasRow(x)
      BY <1>19 DEF Records, BoardTypes, KidRows
    <3>4. QED BY <3>1, <3>2, <3>3 DEF KidRows, Created
  <2>11. TurnsFit'
    <3>1. TurnFits(t)'
      BY <1>19, <2>2, <2>4, <2>5 DEF Records, BoardTypes, TurnsFit, TurnFits, Ended,
         Fenced, Live
    <3>2. ASSUME NEW x \in BoardTasks, x # t PROVE TurnFits(x)'
      <4>1. Unmoved(x)
        BY <3>2, <1>19, <2>2, <2>3 DEF Records, BoardTypes, Unmoved
      <4>2. QED BY <4>1, UnmovedFits DEF TurnsFit
    <3>3. QED BY <3>1, <3>2 DEF TurnsFit
  <2>12. ReloadIsQuiet'
    BY <1>19 DEF Records, BoardTypes, ReloadIsQuiet, WorkerAlive
  <2>13. AgentEndsForGood
    BY <2>2 DEF AgentEndsForGood, Fenced, Live
  <2>14. QED BY <2>6, <2>7, <2>8, <2>9, <2>10, <2>11, <2>12, <2>13 DEF TasksBegin
<1>20. ASSUME NEW t \in BoardTasks, ExternalStarts(t) PROVE BoardInv' /\ AgentEndsForGood
  <2>1. CallIsAdded("start", t, "") /\ inbox' \in Seq(Calls)
    <3>1. [what |-> "start", of |-> t, status |-> ""] \in Calls
      BY DEF Calls
    <3>2. CallInUi("start", t, "")
      BY <1>20 DEF ExternalStarts
    <3>3. CallIsAdded("start", t, "")
      BY <3>1, <3>2, CallIsTyped
    <3>4. QED BY <3>3 DEF CallIsAdded
  <2>2. /\ shown' = [shown EXCEPT ![t] = "running"] /\ column' = [column EXCEPT ![t] = "open"]
        /\ MainIs(t, "running") /\ agents[t]["main"] = "absent" /\ shown[t] = "none"
    <3>1. /\ shown' = [shown EXCEPT ![t] = "running"] /\ column' = [column EXCEPT ![t] = "open"]
          /\ agents' = [agents EXCEPT ![t]["main"] = "running"]
      BY <1>20 DEF ExternalStarts, Create, Show, Board
    <3>2. agents[t]["main"] = "absent" /\ shown[t] = "none"
      BY <1>20 DEF ExternalStarts, TasksBegin, TasksStand, BoardAgents, Created
    <3>3. QED BY <3>1, <3>2, MainIsWritten DEF BoardAgents, Statuses, Live
  <2>3. /\ shown'[t] = "running"
        /\ \A x \in BoardTasks : x # t => shown'[x] = shown[x] /\ column'[x] = column[x]
    BY <2>2 DEF BoardTypes
  <2>4. \A x \in BoardTasks : Created(x) => shown'[x] # "none"
    BY <2>3 DEF Created
  <2>5. \A x \in BoardTasks : HasRow(x)' = HasRow(x)
    BY <2>2 DEF HasRow, MainIs
  <2>6. BoardTypes'
    BY <1>20, <2>1, <2>2 DEF ExternalStarts, BoardTypes, Stages, MainIs
  <2>7. TasksStand'
    <3>1. stage'[t] # "none" /\ \A x \in BoardTasks : x # t => stage'[x] = stage[x] /\ agents'[x] = agents[x]
      BY <1>20, <2>2 DEF ExternalStarts, BoardTypes, MainIs
    <3>2. Created(t)' /\ agents'[t]["main"] \in Live \cup Ended /\ ending' = ending
      BY <1>20, <2>2, <2>3 DEF ExternalStarts, Created, MainIs, Live
    <3>3. ASSUME NEW x \in BoardTasks, x # t
          PROVE  IF Created(x)' THEN stage'[x] # "none" /\ agents'[x]["main"] \in Live \cup Ended
                 ELSE stage'[x] = "none" /\ ending'[x] = "none" /\ \A a \in BoardAgents : agents'[x][a] = "absent"
      BY <3>1, <3>2, <3>3, <2>3 DEF TasksBegin, TasksStand, Created
    <3>4. QED BY <3>1, <3>2, <3>3 DEF TasksStand
  <2>8. PointersStand'
    BY <1>20, <2>4, PointersKept DEF ExternalStarts, TasksBegin
  <2>9. CallsStand'
    <3>1. PICK j \in DOMAIN inbox' :
            /\ \A i \in DOMAIN inbox' : i = j \/ (i \in DOMAIN inbox /\ inbox'[i] = inbox[i])
            /\ inbox'[j].what = "start" /\ inbox'[j].of = t
      BY <2>1 DEF CallIsAdded
    <3>2. CallsStand /\ real' = real
      BY <1>20 DEF ExternalStarts, TasksBegin
    <3>3. QED BY <3>1, <3>2, <2>3, <2>4, CallsKept
  <2>10. KidRows'
    <3>1. of' = of /\ real' = real /\ seen' = seen
      BY <1>20 DEF ExternalStarts
    <3>2. ASSUME NEW c \in Kids, of[c] # 0 PROVE shown'[of[c]] # "none"
      <4>1. of[c] \in BoardTasks
        BY <3>2, BoardAssumption DEF BoardTypes, BoardTasks
      <4>2. QED BY <4>1, <3>2, <2>4 DEF KidRows
    <3>3. QED BY <3>1, <3>2, <2>2, <2>5 DEF KidRows, Created, MainIs
  <2>11. TurnsFit'
    <3>1. TurnFits(t)'
      <4>1. stage'[t] = "heard" /\ ending' = ending
        BY <1>20 DEF ExternalStarts, BoardTypes
      <4>2. ending[t] = "none"
        BY <2>2 DEF TasksBegin, TasksStand, Created
      <4>3. QED BY <4>1, <4>2 DEF TurnFits
    <3>2. ASSUME NEW x \in BoardTasks, x # t PROVE TurnFits(x)'
      <4>1. Unmoved(x)
        BY <3>2, <1>20, <2>2, <2>3, <2>5 DEF ExternalStarts, BoardTypes, MainIs, Unmoved
      <4>2. QED BY <4>1, UnmovedFits DEF TurnsFit
    <3>3. QED BY <3>1, <3>2 DEF TurnsFit
  <2>12. ReloadIsQuiet'
    BY <1>20 DEF ExternalStarts, BoardTypes, ReloadIsQuiet, WorkerAlive
  <2>13. AgentEndsForGood
    BY <2>2 DEF AgentEndsForGood, Fenced, Live, MainIs
  <2>14. QED BY <2>6, <2>7, <2>8, <2>9, <2>10, <2>11, <2>12, <2>13 DEF TasksBegin
<1>21. ASSUME NEW t \in BoardTasks, NEW s \in Endings, ExternalEnds(t, s)
       PROVE  BoardInv' /\ AgentEndsForGood
  <2>1. s \in Ended /\ s \in Statuses /\ Created(t) /\ stage[t] = "heard"
    BY <1>21, BoardAssumption DEF ExternalEnds, TasksBegin, TasksStand, Ended, Statuses
  <2>2. /\ stage' = [stage EXCEPT ![t] = "leaving"] /\ view' = [view EXCEPT ![t] = NoView]
        /\ ending' = [ending EXCEPT ![t] = s] \/ (ending' = ending /\ s # "cancelled")
        /\ UNCHANGED <<active, seen, real, of, baseline, ui, cancelling, reload>>
    BY <1>21 DEF ExternalEnds
  <2>3. CASE view[t] = NoView
    <3>1. /\ UNCHANGED <<shown, column, agents, inbox>> /\ lost' = lost \cup {t}
      BY <1>21, <2>3 DEF ExternalEnds
    <3>2. BoardTypes'
      BY <2>1, <2>2, <3>1, BoardAssumption DEF BoardTypes, Stages, NoView
    <3>3. TasksStand'
      BY <2>1, <2>2, <3>1 DEF TasksBegin, TasksStand, BoardTypes, Created
    <3>4. PointersStand' /\ CallsStand'
      BY <2>2, <3>1 DEF TasksBegin, PointersStand, CallsStand, BoardTypes, Created
    <3>5. KidRows'
      BY <2>2, <3>1 DEF KidRows, HasRow, Created
    <3>6. TurnsFit'
      BY <2>1, <2>2, <3>1 DEF TurnsFit, TurnFits, HasRow, BoardTypes
    <3>7. ReloadIsQuiet' /\ AgentEndsForGood
      BY <2>1, <2>2, <3>1 DEF ReloadIsQuiet, WorkerAlive, AgentEndsForGood, BoardTypes,
         Fenced, Live
    <3>8. QED BY <3>2, <3>3, <3>4, <3>5, <3>6, <3>7 DEF TasksBegin
  <2>4. CASE view[t] # NoView
    <3>1. view[t] \in 0 .. MaxTasks
      <4>1. view[t] \in 0 .. NoView /\ MaxTasks \in Nat
        BY BoardAssumption DEF BoardTypes
      <4>2. QED BY <4>1, <2>4 DEF NoView
    <3>2. CallIsAdded("end", t, view[t]) /\ inbox' \in Seq(Calls)
      <4>1. [what |-> "end", of |-> t, status |-> view[t]] \in Calls
        BY <3>1 DEF Calls
      <4>2. QED BY <1>21, <2>4, <4>1, CallIsTyped DEF ExternalEnds, CallIsAdded
    <3>3. lost' = lost /\ Show(FinishTask(UpdateAgent(Board, t, "main", s), t, s))
      BY <1>21, <2>4 DEF ExternalEnds
    <3>4. /\ shown' = [shown EXCEPT ![t] = s] /\ MainIs(t, s)
          /\ \E k \in {"done", "failed", "cancelled"} : column' = [column EXCEPT ![t] = k]
      <4> DEFINE b == UpdateAgent(Board, t, "main", s)
                 k == CASE s = "completed" -> "done" [] s = "cancelled" -> s [] OTHER -> "failed"
      <4>1. k \in {"done", "failed", "cancelled"}
        OBVIOUS
      <4>2. b.shown = shown /\ b.column = column /\ b.agents = [agents EXCEPT ![t]["main"] = s]
        BY DEF UpdateAgent, Board
      <4>3. /\ FinishTask(b, t, s).shown = [b.shown EXCEPT ![t] = s]
            /\ FinishTask(b, t, s).column = [b.column EXCEPT ![t] = k]
            /\ FinishTask(b, t, s).agents = b.agents
        BY DEF FinishTask, UpdateAgent, Board
      <4> HIDE DEF b, k
      <4>4. Show(FinishTask(b, t, s))
        BY <3>3 DEF b
      <4>5. /\ shown' = [shown EXCEPT ![t] = s] /\ column' = [column EXCEPT ![t] = k]
            /\ agents' = [agents EXCEPT ![t]["main"] = s]
        BY <4>2, <4>3, <4>4 DEF Show
      <4>6. QED BY <4>1, <4>5, <2>1, MainIsWritten
    <3>5. /\ shown'[t] = s /\ \A x \in BoardTasks : x # t => shown'[x] = shown[x] /\ column'[x] = column[x]
      BY <3>4 DEF BoardTypes
    <3>6. \A x \in BoardTasks : /\ Created(x) => shown'[x] # "none"
                                /\ ~Created(x) => shown'[x] = "none"
      BY <2>1, <3>5 DEF Created, Ended, Fenced
    <3>7. \A x \in BoardTasks : HasRow(x)' = HasRow(x)
      BY <3>4 DEF HasRow, MainIs
    <3>8. BoardTypes'
      <4>1. shown' \in [BoardTasks -> {"none", "running"} \cup Ended]
            /\ column' \in [BoardTasks -> {"none", "open", "done", "failed", "cancelled"}]
        BY <2>1, <3>4 DEF BoardTypes
      <4>2. stage' \in [BoardTasks -> Stages] /\ ending' \in [BoardTasks -> {"none"} \cup Ended]
            /\ view' \in [BoardTasks -> 0 .. NoView]
        <5>1. NoView \in 0 .. NoView
          BY BoardAssumption DEF NoView
        <5>2. "leaving" \in Stages
          BY DEF Stages
        <5>3. QED BY <2>1, <2>2, <5>1, <5>2 DEF BoardTypes
      <4>3. QED BY <2>2, <3>2, <3>3, <3>4, <4>1, <4>2 DEF BoardTypes, MainIs
    <3>9. TasksStand'
      <4>1. stage'[t] # "none" /\ \A x \in BoardTasks : x # t => /\ stage'[x] = stage[x] /\ ending'[x] = ending[x]
                                                               /\ agents'[x] = agents[x]
        BY <2>2, <3>4 DEF BoardTypes, MainIs
      <4>2. QED BY <2>1, <3>4, <3>5, <3>6, <4>1 DEF TasksBegin, TasksStand, Created, MainIs
    <3>10. PointersStand'
      <4>1. \A x \in BoardTasks : view'[x] \notin {0, NoView} => view[x] \notin {0, NoView} /\ view'[x] = view[x]
        BY <2>2 DEF BoardTypes
      <4>2. ASSUME NEW x \in BoardTasks, view[x] \notin {0, NoView} PROVE shown'[view[x]] # "none"
        <5>1. view[x] \in 0 .. NoView /\ MaxTasks \in Nat
          BY BoardAssumption DEF BoardTypes
        <5>2. view[x] \in BoardTasks
          BY <4>2, <5>1 DEF BoardTasks, NoView
        <5>3. QED BY <5>2, <4>2, <3>6 DEF TasksBegin, PointersStand
      <4>3. active # 0 => active \in BoardTasks
        BY BoardAssumption DEF BoardTypes, BoardTasks
      <4>4. QED BY <4>1, <4>2, <4>3, <2>2, <3>6 DEF TasksBegin, PointersStand, Created
    <3>11. CallsStand'
      <4>1. PICK j \in DOMAIN inbox' :
              /\ \A i \in DOMAIN inbox' : i = j \/ (i \in DOMAIN inbox /\ inbox'[i] = inbox[i])
              /\ inbox'[j].what = "end" /\ inbox'[j].status = view[t]
        BY <3>2 DEF CallIsAdded
      <4>2. view[t] # 0 => shown'[view[t]] # "none"
        BY <3>1, <3>6, <2>4, BoardAssumption DEF TasksBegin, PointersStand, BoardTasks
      <4>3. CallsStand /\ real' = real
        BY <2>2 DEF TasksBegin
      <4>4. QED BY <4>1, <4>2, <4>3, <3>6, CallsKept
    <3>12. KidRows'
      <4>1. ASSUME NEW c \in Kids, of[c] # 0 PROVE shown'[of[c]] # "none"
        <5>1. of[c] \in BoardTasks
          BY <4>1, BoardAssumption DEF BoardTypes, BoardTasks
        <5>2. QED BY <5>1, <4>1, <3>6 DEF KidRows
      <4>2. QED BY <4>1, <2>2, <3>4, <3>7 DEF KidRows, Created, MainIs
    <3>13. TurnsFit'
      <4>1. TurnFits(t)'
        BY <2>1, <2>2, <3>4, <3>5 DEF TurnFits, TurnsFit, MainIs, BoardTypes, Ended,
           Fenced, Live
      <4>2. ASSUME NEW x \in BoardTasks, x # t PROVE TurnFits(x)'
        <5>1. Unmoved(x)
          BY <4>2, <2>2, <3>3, <3>4, <3>5, <3>7 DEF MainIs, BoardTypes, Unmoved
        <5>2. QED BY <5>1, UnmovedFits DEF TurnsFit
      <4>3. QED BY <4>1, <4>2 DEF TurnsFit
    <3>14. ReloadIsQuiet'
      BY <2>1, <2>2 DEF ReloadIsQuiet, WorkerAlive, BoardTypes
    <3>15. AgentEndsForGood
      BY <2>1, <3>4 DEF AgentEndsForGood, MainIs, Ended, Fenced, Live
    <3>16. QED BY <3>8, <3>9, <3>10, <3>11, <3>12, <3>13, <3>14, <3>15 DEF TasksBegin
  <2>5. QED BY <2>3, <2>4
<1>22. ASSUME ApplyChild PROVE BoardInv' /\ AgentEndsForGood
  <2>1. inbox # <<>> /\ inbox' = Tail(inbox) /\ Head(inbox).what = "child"
    BY <1>22 DEF ApplyChild, Callback
  <2>2. /\ Tail(inbox) \in Seq(Calls) /\ Len(Tail(inbox)) = Len(inbox) - 1
        /\ \A i \in DOMAIN Tail(inbox) : Tail(inbox)[i] = inbox[i + 1] /\ i + 1 \in DOMAIN inbox
        /\ Head(inbox) = inbox[1] /\ 1 \in DOMAIN inbox
    BY <2>1, HeadIsTyped
  <2>3. PICK c \in Kids, s \in {"running"} \cup KidOutcomes :
          Head(inbox).of = c /\ Head(inbox).status = s /\ real[c] # "none"
    BY <2>1, <2>2, HeadIsTyped DEF TasksBegin, CallsStand
  <2> DEFINE b == ApplyAgentStatus(Board, of'[c], c, s)
  <2>4. /\ of' = Owned({c})
        /\ Show(IF of'[c] = 0 THEN Board ELSE IF s \in Live THEN SetPhase(b, of'[c], "open") ELSE b)
        /\ UNCHANGED <<active, stage, ending, seen, view, real, baseline, ui, cancelling, reload, lost>>
    BY <1>22, <2>3 DEF ApplyChild
  <2>5. of' = [d \in Kids |->
          IF of[d] = 0 /\ d = c /\ active # 0 /\ c \notin baseline[active] THEN active ELSE of[d]]
    BY <2>4 DEF Owned
  <2>6. /\ of' \in [Kids -> 0 .. MaxTasks]
        /\ \A d \in Kids : of[d] # 0 => of'[d] = of[d]
        /\ \A d \in Kids : of'[d] # 0 => real[d] # "none" /\ Created(of'[d])
    BY <2>3, <2>5 DEF BoardTypes, KidRows, TasksBegin, PointersStand
  <2>7. /\ shown' = shown
        /\ agents' \in [BoardTasks -> [BoardAgents -> Statuses]]
        /\ column' \in [BoardTasks -> {"none", "open", "done", "failed", "cancelled"}]
        /\ \A x \in BoardTasks : agents'[x]["main"] = agents[x]["main"]
        /\ \A x \in BoardTasks, d \in Kids : agents'[x][d] = agents[x][d]
              \/ (/\ x = of'[d] /\ agents'[x][d] # "absent"
                  /\ agents'[x][d] \in Live => agents[x][d] \notin Fenced)
        /\ \A x \in BoardTasks : column'[x] = column[x] \/ column'[x] = "open"
    <3>1. CASE of'[c] = 0
      BY <3>1, <2>4 DEF Show, Board, BoardTypes
    <3>2. CASE of'[c] # 0
      <4>1. PICK x : x = of'[c]
        OBVIOUS
      <4>2. x \in BoardTasks
        BY <4>1, <3>2, <2>6, BoardAssumption DEF BoardTasks
      <4>3. /\ b.shown = shown /\ b.column = column
            /\ \/ b.agents = agents
               \/ /\ b.agents = [agents EXCEPT ![x][c] = s]
                  /\ s \in Live => agents[x][c] \notin Fenced
        <5>1. b = ApplyAgentStatus(Board, x, c, s)
          BY <4>1
        <5> HIDE DEF b
        <5>2. /\ ApplyAgentStatus(Board, x, c, s).shown = shown
              /\ ApplyAgentStatus(Board, x, c, s).column = column
              /\ \/ ApplyAgentStatus(Board, x, c, s).agents = agents
                 \/ /\ ApplyAgentStatus(Board, x, c, s).agents = [agents EXCEPT ![x][c] = s]
                    /\ s \in Live => agents[x][c] \notin Fenced
          BY StatusEffect
        <5>3. QED BY <5>1, <5>2
      <4>4. /\ agents' = b.agents /\ shown' = b.shown
            /\ column' = b.column \/ column' = [b.column EXCEPT ![x] = "open"]
        <5>1. Show(IF s \in Live THEN SetPhase(b, x, "open") ELSE b)
          BY <2>4, <3>2, <4>1
        <5>2. CASE s \in Live
          <6>1. b = [Board EXCEPT !.agents = b.agents]
            BY DEF ApplyAgentStatus, UpdateLiveAgent, UpdateAgent, Board
          <6>2. Show(SetPhase([Board EXCEPT !.agents = b.agents], x, "open"))
            BY <5>1, <5>2, <6>1
          <6> HIDE DEF b
          <6>3. QED BY <6>2, <4>3 DEF SetPhase, Show, Board
        <5>3. CASE s \notin Live
          BY <5>1, <5>3 DEF Show
        <5>4. QED BY <5>2, <5>3
      <4> HIDE DEF b
      <4>5. s \in Statuses /\ s # "absent" /\ c \in BoardAgents /\ c # "main"
        BY BoardAssumption DEF Statuses, Live, BoardAgents
      <4>6. agents \in [BoardTasks -> [BoardAgents -> Statuses]] /\ "main" \in BoardAgents
        BY DEF BoardTypes, BoardAgents
      <4>10. /\ shown' = shown
             /\ column' \in [BoardTasks -> {"none", "open", "done", "failed", "cancelled"}]
             /\ \A y \in BoardTasks : column'[y] = column[y] \/ column'[y] = "open"
        BY <4>2, <4>3, <4>4 DEF BoardTypes
      <4>7. CASE b.agents = agents
        BY <4>4, <4>6, <4>7, <4>10
      <4>8. CASE b.agents = [agents EXCEPT ![x][c] = s] /\ (s \in Live => agents[x][c] \notin Fenced)
        <5>1. [agents[x] EXCEPT ![c] = s] \in [BoardAgents -> Statuses]
          BY <4>2, <4>5, <4>6
        <5>2. agents' = [agents EXCEPT ![x] = [agents[x] EXCEPT ![c] = s]]
          <6>1. agents' = [agents EXCEPT ![x][c] = s]
            BY <4>4, <4>8
          <6>2. QED BY <6>1
        <5>3. /\ agents' \in [BoardTasks -> [BoardAgents -> Statuses]] /\ agents'[x][c] = s
              /\ \A y \in BoardTasks : agents'[y]["main"] = agents[y]["main"]
              /\ \A y \in BoardTasks, d \in BoardAgents : (y = x /\ d = c) \/ agents'[y][d] = agents[y][d]
          BY <4>2, <4>5, <4>6, <5>1, <5>2
        <5>4. \A d \in Kids : d \in BoardAgents
          BY DEF BoardAgents
        <5>5. \A y \in BoardTasks, d \in Kids : agents'[y][d] = agents[y][d]
              \/ (/\ y = of'[d] /\ agents'[y][d] # "absent"
                  /\ agents'[y][d] \in Live => agents[y][d] \notin Fenced)
          BY <4>1, <4>5, <4>8, <5>3, <5>4
        <5>6. QED BY <4>10, <5>3, <5>5
      <4>9. QED BY <4>3, <4>7, <4>8
    <3>3. QED BY <3>1, <3>2
  <2> HIDE DEF b
  <2>8. \A x \in BoardTasks : HasRow(x) => HasRow(x)'
    BY <2>7 DEF HasRow
  <2>9. BoardTypes'
    BY <2>1, <2>2, <2>4, <2>6, <2>7 DEF BoardTypes
  <2>10. KidRows'
    <3>1. ASSUME NEW x \in BoardTasks, NEW d \in Kids, agents'[x][d] # "absent" PROVE of'[d] = x
      BY <3>1, <2>6, <2>7, BoardAssumption DEF KidRows, BoardTasks
    <3>2. QED BY <3>1, <2>4, <2>6, <2>7, <2>8 DEF KidRows, Created
  <2>11. TasksStand'
    <3>1. ASSUME NEW x \in BoardTasks, ~Created(x), NEW a \in BoardAgents PROVE agents'[x][a] = "absent"
      <4>1. agents[x][a] = "absent"
        BY <3>1 DEF TasksBegin, TasksStand
      <4>2. ASSUME a \in Kids, agents'[x][a] # "absent" PROVE FALSE
        <5>1. of'[a] = x /\ x # 0
          BY <4>2, <2>10, BoardAssumption DEF KidRows, BoardTasks
        <5>2. QED BY <5>1, <2>6, <3>1, <4>2
      <4>3. a = "main" => agents'[x][a] = agents[x][a]
        BY <2>7
      <4>4. QED BY <4>1, <4>2, <4>3 DEF BoardAgents
    <3>2. QED BY <3>1, <2>4, <2>7 DEF TasksBegin, TasksStand, Created
  <2>12. PointersStand'
    BY <2>4, <2>7, PointersKept DEF TasksBegin, Created
  <2>13. CallsStand'
    <3>1. CallsStand
      BY DEF TasksBegin
    <3>2. QED BY <3>1, <2>1, <2>4, <2>7, CallsLeft DEF Created
  <2>14. TurnsFit'
    BY <2>4, <2>7, <2>8 DEF TurnsFit, TurnFits
  <2>15. ReloadIsQuiet'
    BY <2>4 DEF ReloadIsQuiet, WorkerAlive
  <2>16. AgentEndsForGood
    <3> SUFFICES ASSUME NEW x \in BoardTasks, NEW a \in BoardAgents, agents[x][a] \in Fenced
                 PROVE  agents'[x][a] \notin Live
      BY DEF AgentEndsForGood
    <3>1. CASE a = "main"
      BY <3>1, <2>7 DEF Fenced, Live
    <3>2. CASE a \in Kids
      BY <3>2, <2>7 DEF Fenced, Live
    <3>3. QED BY <3>1, <3>2 DEF BoardAgents
  <2>17. QED BY <2>9, <2>10, <2>11, <2>12, <2>13, <2>14, <2>15, <2>16 DEF TasksBegin
<1>23. CASE UNCHANGED board
  <2>1. BoardTypes' /\ TasksBegin'
    BY <1>23 DEF board, BoardTypes, TasksBegin, TasksStand, PointersStand, CallsStand,
       Created
  <2>2. KidRows' /\ TurnsFit' /\ ReloadIsQuiet'
    BY <1>23 DEF board, KidRows, HasRow, TurnsFit, TurnFits, ReloadIsQuiet, WorkerAlive,
       Created
  <2>3. QED BY <1>23, <2>1, <2>2
<1>24. CASE BoardNext
  <2>1. CASE User
    BY <2>1, <1>5, <1>12, <1>13, <1>15 DEF User
  <2>2. CASE UiStep
    BY <2>2, <1>6, <1>9, <1>14, <1>16, <1>17, <1>18, <1>22 DEF UiStep
  <2>3. CASE WorkerStep
    BY <2>3, <1>2, <1>4, <1>10, <1>19 DEF WorkerStep
  <2>4. QED
    BY <1>24, <2>1, <2>2, <2>3, <1>1, <1>3, <1>7, <1>8, <1>11, <1>20, <1>21 DEF BoardNext
<1>25. QED BY <1>23, <1>24

-----------------------------------------------------------------------------
(* The connection wizard (TerminalLogin) *)

(* What the variables hold.                                                *)
Results == [of : Providers, ok : BOOLEAN]
LoginTypes ==
    /\ step \in Steps /\ provider \in Providers \cup {None} /\ model \in Providers \cup {None}
    /\ cameFrom \in {"model", "provider"} /\ pasting \in {"token", "model"}
    /\ busy \in BOOLEAN /\ wizard \in BOOLEAN /\ unheard \in BOOLEAN
    /\ connection \in [provider : Providers, model : Providers] /\ valid \subseteq Providers
    /\ login \in [of : Providers \cup {None}, cancelled : BOOLEAN] /\ finished \in Seq(Results)
    /\ waits \in Nat /\ box \in Nat /\ sent \subseteq Nat
    /\ times \in [login : Nat, enter : Nat, expire : Nat]

(* What the pages know: on a provider's pages its own model or none.       *)
PagesFit ==
    /\ step \notin {"home", "result"} => provider \in Providers
    /\ model = None \/ model = provider \/ step \in {"home", "result"}
(* The login that is waited for is not a cancelled one.                    *)
LoginIsWaitedFor ==
    step = "waiting" /\ busy =>
        (login.of # None /\ ~login.cancelled) \/ finished # <<>> \/ unheard
(* What waits for a login is still in the box, or was sent from there.     *)
WaitsInTheBox == waits # 0 => waits = box \/ waits \in sent

(* The inductive invariant of the wizard.                                  *)
LoginInv ==
    LoginTypes /\ PagesFit /\ ModelFits /\ LoginIsWaitedFor /\ WaitsInTheBox /\ NoPromptIsLost

(* The wizard begins closed, with the connection of its own model.         *)
LEMMA LoginBegins == LoginInit => LoginInv
<1> SUFFICES ASSUME LoginInit PROVE LoginInv
  OBVIOUS
<1>1. LoginTypes
  <2>1. finished \in Seq(Results)
    BY DEF LoginInit
  <2> HIDE DEF Results
  <2>2. QED BY <2>1, LoginAssumption DEF LoginInit, LoginTypes, Steps, NoLogin
<1>2. PagesFit /\ ModelFits /\ LoginIsWaitedFor /\ WaitsInTheBox /\ NoPromptIsLost
  BY DEF LoginInit, PagesFit, ModelFits, LoginIsWaitedFor, WaitsInTheBox, NoPromptIsLost
<1>3. QED BY <1>1, <1>2 DEF LoginInv

(* The invariant says what is promised of every state.                     *)
LEMMA LoginIsMeant == LoginInv => ModelFits /\ WaitsForALogin /\ NoPromptIsLost
BY DEF LoginInv, LoginIsWaitedFor, WaitsForALogin

(* Turning the wizard's pages.                                             *)
PageTypes ==
    /\ step \in Steps /\ provider \in Providers \cup {None} /\ model \in Providers \cup {None}
    /\ cameFrom \in {"model", "provider"} /\ pasting \in {"token", "model"} /\ busy \in BOOLEAN

(* Turning to a page that waits for nothing keeps the invariant.           *)
LEMMA TurningKeeps ==
    ASSUME LoginInv, NoEffect, PageTypes', PagesFit', step' # "waiting"
    PROVE  LoginInv' /\ IsAuthorised
<1>1. LoginTypes'
  BY DEF LoginInv, LoginTypes, PageTypes, NoEffect
<1>2. ModelFits' /\ LoginIsWaitedFor' /\ WaitsInTheBox' /\ NoPromptIsLost'
  BY DEF LoginInv, NoEffect, ModelFits, LoginIsWaitedFor, WaitsInTheBox, NoPromptIsLost
<1>3. IsAuthorised
  BY DEF NoEffect, IsAuthorised
<1>4. QED BY <1>1, <1>2, <1>3 DEF LoginInv

(* A switch of the connection.                                             *)
LEMMA ConnectKeeps ==
    ASSUME LoginInv, NEW p \in Providers \cup {None}, NEW m \in Providers \cup {None},
           m = None \/ m = p, Connect(p, m)
    PROVE  /\ connection' \in [provider : Providers, model : Providers] /\ ModelFits'
           /\ connection'.provider # connection.provider => connection'.provider \in valid
<1> DEFINE to == IF p = None THEN connection.provider ELSE p
           named == IF m # None THEN m ELSE IF to # connection.provider THEN to ELSE connection.model
<1>1. /\ connection \in [provider : Providers, model : Providers]
      /\ connection.model = connection.provider
  BY DEF LoginInv, LoginTypes, ModelFits
<1>2. to \in Providers /\ named = to
  BY <1>1, LoginAssumption
<1>3. connection' = IF ~Accepts(to) THEN connection ELSE [provider |-> to, model |-> named]
  BY DEF Connect
<1> HIDE DEF to, named
<1>4. CASE Accepts(to)
  BY <1>2, <1>3, <1>4 DEF Accepts, ModelFits
<1>5. CASE ~Accepts(to)
  BY <1>1, <1>3, <1>5 DEF ModelFits
<1>6. QED BY <1>4, <1>5

(* Every step of the wizard, its thread and the prompt keeps the           *)
(* invariant; no switch and no prompt goes to a provider without           *)
(* credentials.                                                            *)
LEMMA LoginKeeps == LoginInv /\ [LoginNext]_dialog => LoginInv' /\ [IsAuthorised]_dialog
<1> SUFFICES ASSUME LoginInv, [LoginNext]_dialog
             PROVE  LoginInv' /\ [IsAuthorised]_dialog
  OBVIOUS
<1>1. ASSUME NEW p \in Providers, ChooseProvider(p) PROVE LoginInv' /\ IsAuthorised
  <2>1. NoEffect /\ PageTypes' /\ PagesFit' /\ step' # "waiting"
    BY <1>1 DEF ChooseProvider, Picks, DropsTheModel, LoginInv, LoginTypes, PageTypes,
       PagesFit, At, Shows, Stays, NoEffect, Steps
  <2>2. QED BY <2>1, TurningKeeps
<1>2. ASSUME BackToHome PROVE LoginInv' /\ IsAuthorised
  <2>1. NoEffect /\ PageTypes' /\ PagesFit' /\ step' # "waiting"
    BY <1>2 DEF BackToHome, LoginInv, LoginTypes, PageTypes, PagesFit, At, Shows, Stays,
       NoEffect, Steps
  <2>2. QED BY <2>1, TurningKeeps
<1>3. ASSUME PickModel PROVE LoginInv' /\ IsAuthorised
  <2>1. NoEffect /\ PageTypes' /\ PagesFit' /\ step' # "waiting"
    BY <1>3 DEF PickModel, LoginInv, LoginTypes, PageTypes, PagesFit, At, Shows, Stays,
       NoEffect, Steps
  <2>2. QED BY <2>1, TurningKeeps
<1>4. ASSUME PickReasoning PROVE LoginInv' /\ IsAuthorised
  <2>1. NoEffect /\ PageTypes' /\ PagesFit' /\ step' # "waiting"
    BY <1>4 DEF PickReasoning, EnterReasoning, LoginInv, LoginTypes, PageTypes, PagesFit,
       At, Shows, Stays, NoEffect, Steps
  <2>2. QED BY <2>1, TurningKeeps
<1>5. ASSUME PickFromCatalog PROVE LoginInv' /\ IsAuthorised
  <2>1. NoEffect /\ PageTypes' /\ PagesFit' /\ step' # "waiting"
    BY <1>5 DEF PickFromCatalog, EnterReasoning, LoginInv, LoginTypes, PageTypes, PagesFit,
       At, Shows, Stays, NoEffect, Steps
  <2>2. QED BY <2>1, TurningKeeps
<1>6. ASSUME PasteToken PROVE LoginInv' /\ IsAuthorised
  <2>1. NoEffect /\ PageTypes' /\ PagesFit' /\ step' # "waiting"
    BY <1>6 DEF PasteToken, LoginInv, LoginTypes, PageTypes, PagesFit, At, Shows, Stays,
       NoEffect, Steps
  <2>2. QED BY <2>1, TurningKeeps
<1>7. ASSUME PasteModel PROVE LoginInv' /\ IsAuthorised
  <2>1. NoEffect /\ PageTypes' /\ PagesFit' /\ step' # "waiting"
    BY <1>7 DEF PasteModel, LoginInv, LoginTypes, PageTypes, PagesFit, At, Shows, Stays,
       NoEffect, Steps
  <2>2. QED BY <2>1, TurningKeeps
<1>8. ASSUME ReasoningBack PROVE LoginInv' /\ IsAuthorised
  <2>1. NoEffect /\ PageTypes' /\ PagesFit' /\ step' # "waiting"
    BY <1>8 DEF ReasoningBack, LoginInv, LoginTypes, PageTypes, PagesFit, At, Shows, Stays,
       NoEffect, Steps
  <2>2. QED BY <2>1, TurningKeeps
<1>9. ASSUME ModelBack PROVE LoginInv' /\ IsAuthorised
  <2>1. NoEffect /\ PageTypes' /\ PagesFit' /\ step' # "waiting"
    BY <1>9 DEF ModelBack, LoginInv, LoginTypes, PageTypes, PagesFit, At, Shows, Stays,
       NoEffect, Steps
  <2>2. QED BY <2>1, TurningKeeps
<1>10. ASSUME Again PROVE LoginInv' /\ IsAuthorised
  <2>1. NoEffect /\ PageTypes' /\ PagesFit' /\ step' # "waiting"
    BY <1>10 DEF Again, LoginInv, LoginTypes, PageTypes, PagesFit, At, Shows, Stays,
       NoEffect, Steps
  <2>2. QED BY <2>1, TurningKeeps
<1>11. ASSUME GoBack PROVE LoginInv' /\ IsAuthorised
  <2>1. NoEffect /\ PageTypes' /\ PagesFit' /\ step' # "waiting"
    BY <1>11 DEF GoBack, LoginInv, LoginTypes, PageTypes, PagesFit, At, Shows, Stays,
       NoEffect, Steps
  <2>2. QED BY <2>1, TurningKeeps
<1>12. ASSUME SubmitModel PROVE LoginInv' /\ IsAuthorised
  <2>1. NoEffect /\ PageTypes' /\ PagesFit' /\ step' # "waiting"
    BY <1>12 DEF SubmitModel, LoginInv, LoginTypes, PageTypes, PagesFit, At, Shows, Stays,
       NoEffect, Steps
  <2>2. QED BY <2>1, TurningKeeps
<1>13. ASSUME ApplyProvider PROVE LoginInv' /\ IsAuthorised
  <2>1. /\ connection' \in [provider : Providers, model : Providers] /\ ModelFits'
        /\ connection'.provider # connection.provider => connection'.provider \in valid
    BY <1>13, ConnectKeeps DEF ApplyProvider, LoginInv, LoginTypes, PagesFit, At
  <2>2. LoginTypes'
    BY <1>13, <2>1, LoginAssumption DEF ApplyProvider, At, Connected, Stays, Elsewhere,
       Accepts, LoginInv, LoginTypes, Steps
  <2>3. PagesFit'
    BY <1>13, LoginAssumption DEF ApplyProvider, At, Connected, Stays, Elsewhere, Accepts,
       LoginInv, LoginTypes, PagesFit
  <2>4. ModelFits'
    BY <1>13, <2>1, LoginAssumption DEF ApplyProvider, At, Connected, Stays, Elsewhere,
       Accepts, LoginInv, LoginTypes, ModelFits
  <2>5. LoginIsWaitedFor'
    BY <1>13, LoginAssumption DEF ApplyProvider, At, Connected, Stays, Elsewhere, Accepts,
       LoginInv, LoginTypes, LoginIsWaitedFor
  <2>6. WaitsInTheBox'
    BY <1>13, LoginAssumption DEF ApplyProvider, At, Connected, Stays, Elsewhere, Accepts,
       LoginInv, LoginTypes, WaitsInTheBox
  <2>7. NoPromptIsLost'
    BY <1>13, LoginAssumption DEF ApplyProvider, At, Connected, Stays, Elsewhere, Accepts,
       LoginInv, LoginTypes, NoPromptIsLost
  <2>8. IsAuthorised
    BY <1>13, <2>1, LoginAssumption DEF ApplyProvider, At, Connected, Stays, Elsewhere,
       Accepts, LoginInv, LoginTypes, IsAuthorised
  <2>9. QED BY <2>2, <2>3, <2>4, <2>5, <2>6, <2>7, <2>8 DEF LoginInv
<1>14. ASSUME PickEffort PROVE LoginInv' /\ IsAuthorised
  <2>1. /\ connection' \in [provider : Providers, model : Providers] /\ ModelFits'
        /\ connection'.provider # connection.provider => connection'.provider \in valid
    BY <1>14, ConnectKeeps DEF PickEffort, LoginInv, LoginTypes, PagesFit, At
  <2>2. LoginTypes'
    BY <1>14, <2>1, LoginAssumption DEF PickEffort, At, Connected, Stays, Elsewhere,
       Accepts, LoginInv, LoginTypes, Steps
  <2>3. PagesFit'
    BY <1>14, LoginAssumption DEF PickEffort, At, Connected, Stays, Elsewhere, Accepts,
       LoginInv, LoginTypes, PagesFit
  <2>4. ModelFits'
    BY <1>14, <2>1, LoginAssumption DEF PickEffort, At, Connected, Stays, Elsewhere,
       Accepts, LoginInv, LoginTypes, ModelFits
  <2>5. LoginIsWaitedFor'
    BY <1>14, LoginAssumption DEF PickEffort, At, Connected, Stays, Elsewhere, Accepts,
       LoginInv, LoginTypes, LoginIsWaitedFor
  <2>6. WaitsInTheBox'
    BY <1>14, LoginAssumption DEF PickEffort, At, Connected, Stays, Elsewhere, Accepts,
       LoginInv, LoginTypes, WaitsInTheBox
  <2>7. NoPromptIsLost'
    BY <1>14, LoginAssumption DEF PickEffort, At, Connected, Stays, Elsewhere, Accepts,
       LoginInv, LoginTypes, NoPromptIsLost
  <2>8. IsAuthorised
    BY <1>14, <2>1, LoginAssumption DEF PickEffort, At, Connected, Stays, Elsewhere,
       Accepts, LoginInv, LoginTypes, IsAuthorised
  <2>9. QED BY <2>2, <2>3, <2>4, <2>5, <2>6, <2>7, <2>8 DEF LoginInv
<1>15. ASSUME NEW ok \in BOOLEAN, SubmitToken(ok) PROVE LoginInv' /\ IsAuthorised
  <2>2. LoginTypes'
    BY <1>15, LoginAssumption DEF SubmitToken, At, Shows, Stays, Elsewhere, LoginInv,
       LoginTypes, Steps
  <2>3. PagesFit'
    BY <1>15, LoginAssumption DEF SubmitToken, At, Shows, Stays, Elsewhere, LoginInv,
       LoginTypes, PagesFit
  <2>4. ModelFits'
    BY <1>15, LoginAssumption DEF SubmitToken, At, Shows, Stays, Elsewhere, LoginInv,
       LoginTypes, ModelFits
  <2>5. LoginIsWaitedFor'
    BY <1>15, LoginAssumption DEF SubmitToken, At, Shows, Stays, Elsewhere, LoginInv,
       LoginTypes, LoginIsWaitedFor
  <2>6. WaitsInTheBox'
    BY <1>15, LoginAssumption DEF SubmitToken, At, Shows, Stays, Elsewhere, LoginInv,
       LoginTypes, WaitsInTheBox
  <2>7. NoPromptIsLost'
    BY <1>15, LoginAssumption DEF SubmitToken, At, Shows, Stays, Elsewhere, LoginInv,
       LoginTypes, NoPromptIsLost
  <2>8. IsAuthorised
    BY <1>15, LoginAssumption DEF SubmitToken, At, Shows, Stays, Elsewhere, LoginInv,
       LoginTypes, IsAuthorised
  <2>9. QED BY <2>2, <2>3, <2>4, <2>5, <2>6, <2>7, <2>8 DEF LoginInv
<1>16. ASSUME NEW ok \in BOOLEAN, LoginEnds(ok) PROVE LoginInv' /\ IsAuthorised
  <2>2. LoginTypes'
    <3>1. finished' \in Seq(Results)
      <4>1. PICK e : e = [of |-> login.of, ok |-> ok]
        OBVIOUS
      <4>2. e \in Results
        <5>1. login.of \in Providers
          BY <1>16 DEF LoginEnds, LoginInv, LoginTypes
        <5>2. QED BY <4>1, <5>1 DEF Results
      <4>3. finished \in Seq(Results) /\ (finished' = finished \/ finished' = Append(finished, e))
        BY <1>16, <4>1 DEF LoginEnds, Reports, LoginInv, LoginTypes
      <4> HIDE DEF Results
      <4>4. QED BY <4>2, <4>3
    <3>2. valid' \subseteq Providers /\ login' = NoLogin
      BY <1>16 DEF LoginEnds, LoginInv, LoginTypes
    <3>3. UNCHANGED <<page, wizard, connection, waits, box, sent, times, unheard>>
      BY <1>16 DEF LoginEnds
    <3>4. QED BY <3>1, <3>2, <3>3 DEF page, NoLogin, LoginInv, LoginTypes
  <2>3. PagesFit'
    BY <1>16, LoginAssumption DEF LoginEnds, page, NoLogin, Reports, LoginInv, LoginTypes,
       PagesFit
  <2>4. ModelFits'
    BY <1>16, LoginAssumption DEF LoginEnds, page, NoLogin, Reports, LoginInv, LoginTypes,
       ModelFits
  <2>5. LoginIsWaitedFor'
    BY <1>16, LoginAssumption DEF LoginEnds, page, NoLogin, Reports, LoginInv, LoginTypes,
       LoginIsWaitedFor
  <2>6. WaitsInTheBox'
    BY <1>16, LoginAssumption DEF LoginEnds, page, NoLogin, Reports, LoginInv, LoginTypes,
       WaitsInTheBox
  <2>7. NoPromptIsLost'
    BY <1>16, LoginAssumption DEF LoginEnds, page, NoLogin, Reports, LoginInv, LoginTypes,
       NoPromptIsLost
  <2>8. IsAuthorised
    BY <1>16, LoginAssumption DEF LoginEnds, page, NoLogin, Reports, LoginInv, LoginTypes,
       IsAuthorised
  <2>9. QED BY <2>2, <2>3, <2>4, <2>5, <2>6, <2>7, <2>8 DEF LoginInv
<1>17. ASSUME StartLogin PROVE LoginInv' /\ IsAuthorised
  <2>2. LoginTypes'
    <3>1. login' \in [of : Providers \cup {None}, cancelled : BOOLEAN] /\ unheard' \in BOOLEAN
      <4>1. CASE login.of = None
        <5>1. login' = [of |-> provider, cancelled |-> FALSE] /\ unheard' = FALSE
          BY <1>17, <4>1 DEF StartLogin
        <5>2. QED BY <5>1 DEF LoginInv, LoginTypes
      <4>2. CASE login.of # None
        BY <1>17, <4>2 DEF StartLogin, LoginInv, LoginTypes
      <4>3. QED BY <4>1, <4>2
    <3>2. times' \in [login : Nat, enter : Nat, expire : Nat]
      BY <1>17 DEF StartLogin, LoginInv, LoginTypes
    <3>3. /\ step' = "waiting" /\ busy' = TRUE
          /\ UNCHANGED <<provider, model, cameFrom, pasting, wizard, connection, valid, finished, waits, box, sent>>
      BY <1>17 DEF StartLogin, Shows
    <3>4. QED BY <3>1, <3>2, <3>3 DEF LoginInv, LoginTypes, Steps
  <2>3. PagesFit'
    BY <1>17, LoginAssumption DEF StartLogin, At, Shows, LoginInv, LoginTypes, PagesFit
  <2>4. ModelFits'
    BY <1>17, LoginAssumption DEF StartLogin, At, Shows, LoginInv, LoginTypes, ModelFits
  <2>5. LoginIsWaitedFor'
    BY <1>17, LoginAssumption DEF StartLogin, At, Shows, LoginInv, PagesFit,
       LoginIsWaitedFor
  <2>6. WaitsInTheBox'
    BY <1>17, LoginAssumption DEF StartLogin, At, Shows, LoginInv, LoginTypes, WaitsInTheBox
  <2>7. NoPromptIsLost'
    BY <1>17, LoginAssumption DEF StartLogin, At, Shows, LoginInv, LoginTypes,
       NoPromptIsLost
  <2>8. IsAuthorised
    BY <1>17, LoginAssumption DEF StartLogin, At, Shows, LoginInv, LoginTypes, IsAuthorised
  <2>9. QED BY <2>2, <2>3, <2>4, <2>5, <2>6, <2>7, <2>8 DEF LoginInv
<1>18. ASSUME CancelLogin PROVE LoginInv' /\ IsAuthorised
  <2>2. LoginTypes'
    BY <1>18, LoginAssumption DEF CancelLogin, Shows, LoginInv, LoginTypes, Steps
  <2>3. PagesFit'
    BY <1>18, LoginAssumption DEF CancelLogin, Shows, LoginInv, LoginTypes, PagesFit
  <2>4. ModelFits'
    BY <1>18, LoginAssumption DEF CancelLogin, Shows, LoginInv, LoginTypes, ModelFits
  <2>5. LoginIsWaitedFor'
    BY <1>18, LoginAssumption DEF CancelLogin, Shows, LoginInv, LoginTypes, LoginIsWaitedFor
  <2>6. WaitsInTheBox'
    BY <1>18, LoginAssumption DEF CancelLogin, Shows, LoginInv, LoginTypes, WaitsInTheBox
  <2>7. NoPromptIsLost'
    BY <1>18, LoginAssumption DEF CancelLogin, Shows, LoginInv, LoginTypes, NoPromptIsLost
  <2>8. IsAuthorised
    BY <1>18, LoginAssumption DEF CancelLogin, Shows, LoginInv, LoginTypes, IsAuthorised
  <2>9. QED BY <2>2, <2>3, <2>4, <2>5, <2>6, <2>7, <2>8 DEF LoginInv
<1>19. ASSUME OnLoginFinished PROVE LoginInv' /\ IsAuthorised
  <2>1. /\ connection' \in [provider : Providers, model : Providers] /\ ModelFits'
        /\ connection'.provider # connection.provider => connection'.provider \in valid
    <3>1. CASE Head(finished).ok
      BY <1>19, <3>1, ConnectKeeps DEF OnLoginFinished, LoginInv, LoginTypes
    <3>2. CASE ~Head(finished).ok
      BY <1>19, <3>2 DEF OnLoginFinished, LoginInv, LoginTypes, ModelFits
    <3>3. QED BY <3>1, <3>2
  <2>2. LoginTypes'
    <3>1. finished' \in Seq(Results)
      <4>1. finished \in Seq(Results) /\ finished # <<>> /\ finished' = Tail(finished)
        BY <1>19 DEF OnLoginFinished, LoginInv, LoginTypes
      <4> HIDE DEF Results
      <4>2. QED BY <4>1
    <3>2. /\ busy' = FALSE /\ step' = "result" /\ unheard' = FALSE /\ model' \in {None, model}
          /\ UNCHANGED <<provider, cameFrom, pasting, wizard, valid, login, waits, box, sent, times>>
      BY <1>19 DEF OnLoginFinished
    <3>3. QED BY <2>1, <3>1, <3>2 DEF LoginInv, LoginTypes, Steps
  <2>3. PagesFit'
    BY <1>19, LoginAssumption DEF OnLoginFinished, LoginInv, LoginTypes, PagesFit
  <2>4. ModelFits'
    BY <1>19, <2>1, LoginAssumption DEF OnLoginFinished, LoginInv, LoginTypes, ModelFits
  <2>5. LoginIsWaitedFor'
    BY <1>19, LoginAssumption DEF OnLoginFinished, LoginInv, LoginTypes, LoginIsWaitedFor
  <2>6. WaitsInTheBox'
    BY <1>19, LoginAssumption DEF OnLoginFinished, LoginInv, LoginTypes, WaitsInTheBox
  <2>7. NoPromptIsLost'
    BY <1>19, LoginAssumption DEF OnLoginFinished, LoginInv, LoginTypes, NoPromptIsLost
  <2>8. IsAuthorised
    BY <1>19, <2>1, LoginAssumption DEF OnLoginFinished, LoginInv, LoginTypes, IsAuthorised
  <2>9. QED BY <2>2, <2>3, <2>4, <2>5, <2>6, <2>7, <2>8 DEF LoginInv
<1>20. ASSUME OpenWizard PROVE LoginInv' /\ IsAuthorised
  <2>2. LoginTypes'
    BY <1>20, LoginAssumption DEF OpenWizard, WizardOpens, LoginInv, LoginTypes, Steps
  <2>3. PagesFit'
    BY <1>20, LoginAssumption DEF OpenWizard, WizardOpens, LoginInv, LoginTypes, PagesFit
  <2>4. ModelFits'
    BY <1>20, LoginAssumption DEF OpenWizard, WizardOpens, LoginInv, LoginTypes, ModelFits
  <2>5. LoginIsWaitedFor'
    BY <1>20, LoginAssumption DEF OpenWizard, WizardOpens, LoginInv, LoginTypes,
       LoginIsWaitedFor
  <2>6. WaitsInTheBox'
    BY <1>20, LoginAssumption DEF OpenWizard, WizardOpens, LoginInv, LoginTypes,
       WaitsInTheBox
  <2>7. NoPromptIsLost'
    BY <1>20, LoginAssumption DEF OpenWizard, WizardOpens, LoginInv, LoginTypes,
       NoPromptIsLost
  <2>8. IsAuthorised
    BY <1>20, LoginAssumption DEF OpenWizard, WizardOpens, LoginInv, LoginTypes,
       IsAuthorised
  <2>9. QED BY <2>2, <2>3, <2>4, <2>5, <2>6, <2>7, <2>8 DEF LoginInv
<1>21. ASSUME Type PROVE LoginInv' /\ IsAuthorised
  <2>2. LoginTypes'
    BY <1>21, LoginAssumption DEF Type, page, LoginInv, LoginTypes, Steps
  <2>3. PagesFit'
    BY <1>21, LoginAssumption DEF Type, page, LoginInv, LoginTypes, PagesFit
  <2>4. ModelFits'
    BY <1>21 DEF Type, page, LoginInv, LoginTypes, ModelFits
  <2>5. LoginIsWaitedFor'
    BY <1>21, LoginAssumption DEF Type, page, LoginInv, LoginTypes, LoginIsWaitedFor
  <2>6. WaitsInTheBox'
    BY <1>21 DEF Type, page, LoginInv, LoginTypes, WaitsInTheBox
  <2>7. NoPromptIsLost'
    BY <1>21 DEF Type, page, LoginInv, LoginTypes, NoPromptIsLost
  <2>8. IsAuthorised
    BY <1>21 DEF Type, page, LoginInv, LoginTypes, IsAuthorised
  <2>9. QED BY <2>2, <2>3, <2>4, <2>5, <2>6, <2>7, <2>8 DEF LoginInv
<1>22. ASSUME AcceptPrompt PROVE LoginInv' /\ IsAuthorised
  <2>1. ~wizard /\ box # 0 /\ UNCHANGED <<connection, valid, login, finished, times>>
    BY <1>22 DEF AcceptPrompt
  <2>2. CASE Ready /\ sent' = sent \cup {box} /\ box' = 0 /\ UNCHANGED <<page, wizard, waits, unheard>>
    <3>1. LoginTypes'
      BY <2>1, <2>2 DEF LoginInv, LoginTypes, page
    <3>2. PagesFit' /\ ModelFits' /\ LoginIsWaitedFor'
      BY <2>1, <2>2 DEF LoginInv, PagesFit, ModelFits, LoginIsWaitedFor, page
    <3>3. WaitsInTheBox' /\ NoPromptIsLost'
      BY <2>1, <2>2 DEF LoginInv, WaitsInTheBox, NoPromptIsLost
    <3>4. IsAuthorised
      BY <2>1, <2>2 DEF IsAuthorised
    <3>5. QED BY <3>1, <3>2, <3>3, <3>4 DEF LoginInv
  <2>3. CASE waits' = box /\ box' = box /\ WizardOpens /\ UNCHANGED sent
    <3>1. LoginTypes'
      BY <2>1, <2>3 DEF LoginInv, LoginTypes, WizardOpens, Steps
    <3>2. PagesFit' /\ ModelFits' /\ LoginIsWaitedFor'
      BY <2>1, <2>3 DEF LoginInv, PagesFit, ModelFits, LoginIsWaitedFor, WizardOpens
    <3>3. WaitsInTheBox' /\ NoPromptIsLost'
      BY <2>1, <2>3 DEF LoginInv, LoginTypes, WaitsInTheBox, NoPromptIsLost
    <3>4. IsAuthorised
      BY <2>1, <2>3 DEF IsAuthorised
    <3>5. QED BY <3>1, <3>2, <3>3, <3>4 DEF LoginInv
  <2>4. QED BY <1>22, <2>2, <2>3 DEF AcceptPrompt
<1>23. ASSUME CloseWizard PROVE LoginInv' /\ IsAuthorised
  <2>2. LoginTypes'
    <3>1. sent' \subseteq Nat /\ waits' \in Nat /\ wizard' = FALSE
      <4>1. CASE SendsIfReady
        <5>1. sent' = sent \cup {waits} /\ waits' = 0 /\ wizard' = FALSE
          BY <1>23, <4>1 DEF CloseWizard
        <5>2. QED BY <5>1 DEF LoginInv, LoginTypes
      <4>2. CASE ~SendsIfReady
        BY <1>23, <4>2 DEF CloseWizard, LoginInv, LoginTypes
      <4>3. QED BY <4>1, <4>2
    <3>2. UNCHANGED <<page, connection, valid, login, finished, box, times, unheard>>
      BY <1>23 DEF CloseWizard
    <3>3. QED BY <3>1, <3>2 DEF page, LoginInv, LoginTypes
  <2>3. PagesFit'
    BY <1>23, LoginAssumption DEF CloseWizard, page, SendsIfReady, Ready, LoginInv,
       LoginTypes, PagesFit
  <2>4. ModelFits'
    BY <1>23 DEF CloseWizard, page, SendsIfReady, Ready, LoginInv, LoginTypes, ModelFits
  <2>5. LoginIsWaitedFor'
    BY <1>23, LoginAssumption DEF CloseWizard, page, SendsIfReady, Ready, LoginInv,
       LoginTypes, LoginIsWaitedFor
  <2>6. WaitsInTheBox'
    BY <1>23 DEF CloseWizard, page, SendsIfReady, Ready, LoginInv, LoginTypes, WaitsInTheBox
  <2>7. NoPromptIsLost'
    BY <1>23 DEF CloseWizard, page, SendsIfReady, Ready, LoginInv, LoginTypes,
       NoPromptIsLost
  <2>8. IsAuthorised
    BY <1>23 DEF CloseWizard, page, SendsIfReady, Ready, LoginInv, LoginTypes, IsAuthorised
  <2>9. QED BY <2>2, <2>3, <2>4, <2>5, <2>6, <2>7, <2>8 DEF LoginInv
<1>24. ASSUME NEW p \in Providers, Expire(p) PROVE LoginInv' /\ IsAuthorised
  <2>2. LoginTypes'
    BY <1>24, LoginAssumption DEF Expire, page, LoginInv, LoginTypes, Steps
  <2>3. PagesFit'
    BY <1>24, LoginAssumption DEF Expire, page, LoginInv, LoginTypes, PagesFit
  <2>4. ModelFits'
    BY <1>24 DEF Expire, page, LoginInv, LoginTypes, ModelFits
  <2>5. LoginIsWaitedFor'
    BY <1>24, LoginAssumption DEF Expire, page, LoginInv, LoginTypes, LoginIsWaitedFor
  <2>6. WaitsInTheBox'
    BY <1>24 DEF Expire, page, LoginInv, LoginTypes, WaitsInTheBox
  <2>7. NoPromptIsLost'
    BY <1>24 DEF Expire, page, LoginInv, LoginTypes, NoPromptIsLost
  <2>8. IsAuthorised
    BY <1>24 DEF Expire, page, LoginInv, LoginTypes, IsAuthorised
  <2>9. QED BY <2>2, <2>3, <2>4, <2>5, <2>6, <2>7, <2>8 DEF LoginInv
<1>25. CASE UNCHANGED dialog
  BY <1>25 DEF dialog, LoginInv, LoginTypes, PagesFit, ModelFits, LoginIsWaitedFor,
     WaitsInTheBox, NoPromptIsLost
<1>26. QED
  BY <1>1, <1>2, <1>3, <1>4, <1>5, <1>6, <1>7, <1>8, <1>9, <1>10, <1>11, <1>12, <1>13,
     <1>14, <1>15, <1>16, <1>17, <1>18, <1>19, <1>20, <1>21, <1>22, <1>23, <1>24, <1>25
     DEF LoginNext

-----------------------------------------------------------------------------
(* Both: the terminal's list of tasks and its wizard tell the truth,       *)
(* whatever the order of turns, endings, posted calls, rotations, logins   *)
(* and closes: an agent that ended is not shown as running again, a        *)
(* connection that waits for the turn's end waits for a thread that lives, *)
(* a quiet terminal shows nothing that runs, the model fits its provider,  *)
(* no prompt and no switch goes out without credentials, the wizard waits  *)
(* for a login that exists, and no prompt is lost (TerminalIsTrue).        *)
THEOREM TerminalIsSound == TerminalSpec => TerminalIsTrue
<1> DEFINE allVars == <<side, vars, board, dialog>>
<1>1. TerminalInit => BoardInv /\ LoginInv
  BY BoardBegins, LoginBegins DEF TerminalInit
<1>2. [TerminalNext]_allVars => [BoardNext]_board /\ [LoginNext]_dialog
  BY DEF TerminalNext
<1>3. BoardInv /\ LoginInv /\ [TerminalNext]_allVars => BoardInv' /\ LoginInv'
  BY <1>2, BoardKeeps, LoginKeeps
<1>4. BoardInv => BoardTypes /\ ReloadIsQuiet
  BY DEF BoardInv
<1>5. ASSUME BoardInv, UNCHANGED board PROVE AgentEndsForGood
  BY <1>5 DEF board, AgentEndsForGood, Fenced, Live
<1>6. ASSUME UNCHANGED dialog PROVE IsAuthorised
  BY <1>6 DEF dialog, IsAuthorised
<1>7. BoardInv /\ LoginInv /\ [TerminalNext]_allVars => AgentEndsForGood /\ IsAuthorised
  BY <1>2, <1>5, <1>6, BoardKeeps, LoginKeeps
<1>8. /\ ReloadIsQuiet' /\ BoardSettles' /\ ModelFits' /\ WaitsForALogin'
      /\ NoPromptIsLost'
      /\ AgentEndsForGood /\ IsAuthorised
      => BoardIsTrue /\ LoginIsSound
  BY DEF BoardIsTrue, LoginIsSound
<1>9. QED BY <1>1, <1>3, <1>4, <1>7, <1>8, BoardIsQuiet, LoginIsMeant, PTL
          DEF TerminalSpec, TerminalIsTrue
=============================================================================
