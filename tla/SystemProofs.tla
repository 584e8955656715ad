---------------------------- MODULE SystemProofs -----------------------------
(***************************************************************************)
(* Theorems about System: what LoadSession and LoadGenerator guarantee each  *)
(* on its own holds when they run together, and what they guarantee only     *)
(* together, the quota, follows from both.                                   *)
(*                                                                         *)
(* E and G instantiate the components with their lemmas.  Their definitions  *)
(* are the ones System composes as Engine and Control, which the first       *)
(* section shows one action at a time.                                       *)
(***************************************************************************)
EXTENDS System, TLAPS, FiniteSetTheorems

E == INSTANCE GuaranteeProofs
G == INSTANCE GeneratorProofs

-----------------------------------------------------------------------------
(* The session engine inside the system. *)

LEMMA EngineInit == Engine!Init => E!Init
BY DEF Engine!Init, E!Init, Engine!Owners, E!Owners, Engine!WorkerIdle, E!WorkerIdle,
       Engine!IhIdle, E!IhIdle, Engine!TuIdle, E!TuIdle

LEMMA EngineSubmits == \A c : Engine!Submit(c) => E!Submit(c)
BY DEF Engine!Submit, E!Submit, Engine!OpeningMessage, E!OpeningMessage

LEMMA EngineNetwork == \A x : (Engine!Respond(x) => E!Respond(x)) /\ (Engine!Lose(x) => E!Lose(x))
BY DEF Engine!Respond, E!Respond, Engine!ResponseMessage, E!ResponseMessage, Engine!Lose, E!Lose,
       Engine!Unpacked, E!Unpacked

LEMMA EngineTimer == Engine!TimerThread => E!TimerThread
BY DEF Engine!TimerThread, E!TimerThread, Engine!Expire, E!Expire, Engine!TimeoutMessage, E!TimeoutMessage

LEMMA EngineRouting == \A w : Engine!Routing(w) => E!Routing(w)
BY DEF Engine!Routing, E!Routing, Engine!Find, E!Find, Engine!FindFails, E!FindFails,
       Engine!Obtain, E!Obtain, Engine!ObtainFails, E!ObtainFails, Engine!Dequeue, E!Dequeue,
       Engine!Route, E!Route, Engine!FreeSids, E!FreeSids, Engine!Answer, E!Answer

LEMMA EngineOpening == \A w : Engine!Opening(w) => E!Opening(w)
<1> USE DEF Engine!Enter, E!Enter, Engine!Leave, E!Leave, Engine!FreeTus, E!FreeTus,
            Engine!WorkerIdle, E!WorkerIdle, Engine!IhIdle, E!IhIdle, Engine!TuIdle, E!TuIdle,
            Engine!AttachableMids, E!AttachableMids,
            Engine!MidsCarried, E!MidsCarried, Engine!Unpacked, E!Unpacked
<1>1. \A w : Engine!ManagerFails(w) => E!ManagerFails(w)
  BY DEF Engine!ManagerFails, E!ManagerFails
<1>2. \A w, t, k : Engine!StartScenario(w, t, k) => E!StartScenario(w, t, k)
  BY DEF Engine!StartScenario, E!StartScenario, Engine!Attach, E!Attach,
         Engine!FirstTimers, E!FirstTimers, Engine!ScenarioFsm, E!ScenarioFsm
<1>3. \A w, t, k : Engine!OpenAndRelease(w, t, k) => E!OpenAndRelease(w, t, k)
  BY DEF Engine!OpenAndRelease, E!OpenAndRelease, Engine!Answer, E!Answer,
         Engine!MayHaveExpired, E!MayHaveExpired, Engine!TimeoutMessage, E!TimeoutMessage
<1> QED
  BY <1>1, <1>2, <1>3 DEF Engine!Opening, E!Opening

LEMMA EngineDelivering ==
  ASSUME NEW w
  PROVE  /\ Engine!Delivering(w) => E!Delivering(w)
         /\ Engine!CountSent(w) => E!CountSent(w)
<1>1. \A type : Engine!Deliver(w, type) => E!Deliver(w, type)
  BY DEF Engine!Deliver, E!Deliver, Engine!Enter, E!Enter
<1>2. Engine!Target(w) = E!Target(w)
  BY DEF Engine!Target, E!Target
<1>3. Engine!Leave(w) => E!Leave(w)
  BY DEF Engine!Leave, E!Leave, Engine!WorkerIdle, E!WorkerIdle
<1>4. \A o, t, cleared : Engine!Release(o, t, cleared) => E!Release(o, t, cleared)
  BY DEF Engine!Release, E!Release, Engine!IhIdle, E!IhIdle, Engine!TuIdle, E!TuIdle
<1>5. Engine!Triggered(w) => E!Triggered(w)
  BY <1>1, <1>2 DEF Engine!Triggered, E!Triggered
<1>6. Engine!MemberNotFound(w) \/ Engine!TimeoutIgnored(w)
        => E!MemberNotFound(w) \/ E!TimeoutIgnored(w)
  BY <1>1, <1>2, <1>3 DEF Engine!MemberNotFound, E!MemberNotFound, Engine!TimeoutIgnored,
                          E!TimeoutIgnored, Engine!Enter, E!Enter
<1>7. /\ Engine!GiveUp(w) => E!GiveUp(w)
      /\ Engine!EndScenario(w) => E!EndScenario(w)
      /\ Engine!ReceiveResponse(w) => E!ReceiveResponse(w)
  BY <1>1, <1>2, <1>3, <1>4, <1>5
     DEF Engine!GiveUp, E!GiveUp, Engine!EndScenario, E!EndScenario,
         Engine!ReceiveResponse, E!ReceiveResponse, Engine!MayHaveExpired, E!MayHaveExpired,
         Engine!TimeoutMessage, E!TimeoutMessage, Engine!NextStep, E!NextStep
<1>8. Engine!SendRequest(w) => E!SendRequest(w)
  BY <1>2, <1>5 DEF Engine!SendRequest, E!SendRequest, Engine!NextStep, E!NextStep,
                    Engine!Awaiting, E!Awaiting
<1>9. Engine!CountSent(w) => E!CountSent(w)
  BY <1>3 DEF Engine!CountSent, E!CountSent
<1> QED
  BY <1>6, <1>7, <1>8, <1>9 DEF Engine!Delivering, E!Delivering

LEMMA EngineWorks == \A w : Engine!Work(w) => E!Work(w)
BY EngineRouting, EngineOpening, EngineDelivering DEF Engine!Work, E!Work

LEMMA FiniteSame == \A S : IsFiniteSet(S) <=> E!IsFiniteSet(S)
BY DEF IsFiniteSet, E!IsFiniteSet

LEMMA CardinalitySame == \A S : Cardinality(S) = E!Cardinality(S)
BY DEF Cardinality, E!Cardinality, IsFiniteSet, E!IsFiniteSet

\* What LoadSession assumes of its constants, System assumes of its own.
LEMMA EngineAssumptions ==
  /\ E!IsFiniteSet(Slots)
  /\ MidModulus \in Nat \ {0} /\ Mids \subseteq Nat /\ \A k \in Mids : E!Unpacked(k) # 0
  /\ None \notin Workers \cup Slots \cup Sids \cup E!MemberIds \cup Commands \cup Requests
  /\ Commands \cap Requests = {}
  /\ MidsReused \in BOOLEAN /\ AttachMayFail \in BOOLEAN
BY SlotsAssumption, MidsAssumption, NoneAssumption, FlagsAssumption, FiniteSame
   DEF Requests, Unpacked, E!Unpacked, E!MemberIds

\* What the engine's theorems are proved from.
EngineInv == E!Inv /\ E!LifeInv /\ E!RequestsSpent

LEMMA UnsentCommands == EngineInv => unsent \subseteq Commands
BY DEF EngineInv, E!Inv, E!TypeOK, E!Owners, Requests

LEMMA LoadSubmits ==
  ASSUME EngineInv, ExecThread
  PROVE  E!Next
<1> PICK c \in unsent : Engine!Submit(c)
  BY DEF ExecThread
<1> QED
  BY EngineSubmits, UnsentCommands DEF E!Next, E!Owners

\* A step of the system is a step of the engine, or leaves it alone.
LEMMA EngineNext ==
  ASSUME EngineInv, [Next]_vars
  PROVE  [E!Next]_(E!vars)
<1> SUFFICES E!Next \/ UNCHANGED engineVars
  BY DEF engineVars, E!vars
<1>1. CASE Generator \/ ConsoleSubmits
  BY <1>1, LoadSubmits DEF Generator, GeneratorSubmits, ConsoleSubmits, TakeControl, Tick
<1>2. CASE Clock \/ Operate \/ UNCHANGED vars
  BY <1>2 DEF Clock, Operate, vars
<1>3. CASE Network \/ Timer
  BY <1>3, EngineNetwork, EngineTimer DEF Network, Timer, E!Next
<1>4. ASSUME NEW w \in Workers, Work(w) PROVE E!Next
  BY <1>4, EngineWorks DEF Work, E!Next
<1> QED
  BY <1>1, <1>2, <1>3, <1>4 DEF Next

LEMMA EngineInvInit == Init => EngineInv
BY EngineInit, EngineAssumptions, E!InitInv, E!InitLife, E!InitSpent DEF Init, EngineInv

LEMMA EngineInvNext == EngineInv /\ [Next]_vars => EngineInv'
<1> SUFFICES ASSUME EngineInv, [Next]_vars PROVE EngineInv'
  OBVIOUS
<1>1. [E!Next]_(E!vars)
  BY EngineNext
<1> QED
  BY <1>1, EngineAssumptions, E!NextInv, E!NextLife, E!NextRequests DEF EngineInv

LEMMA RequestsBounded ==
  ASSUME EngineInv
  PROVE  stat.sent <= Cardinality(Commands \ unsent)
<1>1. IsFiniteSet(Commands)
  BY FS_Interval, MaxLoadAssumption DEF Commands
<1>2. E!RequestsSubmitted
  BY EngineAssumptions, E!SpentSubmitted DEF EngineInv
<1> QED
  BY <1>1, <1>2, FiniteSame, CardinalitySame DEF E!RequestsSubmitted

-----------------------------------------------------------------------------
(* The generator inside the system. *)

LEMMA ControlInit == Control!Init => G!Init
BY DEF Control!Init, G!Init

LEMMA ControlOperator ==
  /\ \A k, rate, option : Control!StartCopiesPlan(k, rate, option)
                          => G!StartCopiesPlan(k, rate, option)
  /\ \A k : Control!StartQueued(k) => G!StartQueued(k)
  /\ \A k : Control!StopQueued(k) => G!StopQueued(k)
  /\ \A k : Control!UnitTest(k) => G!UnitTest(k)
BY DEF Control!StartCopiesPlan, G!StartCopiesPlan, Control!StartQueued, G!StartQueued,
       Control!StopQueued, G!StopQueued, Control!UnitTest, G!UnitTest, Control!Issue, G!Issue,
       Control!Control, G!Control

LEMMA ControlTick ==
  /\ Control!Clock => G!Clock
  /\ Control!Wake => G!Wake
  /\ Control!TakeControl => G!TakeControl
  /\ Control!CarryOn => G!CarryOn
  /\ Control!Pass => G!Pass
  /\ Control!NothingToSend => G!NothingToSend
BY DEF Control!Clock, G!Clock, Control!Wake, G!Wake, Control!TakeControl, G!TakeControl,
       Control!ActOn, G!ActOn, Control!Apply, G!Apply, Control!CarryOn, G!CarryOn,
       Control!Pass, G!Pass, Control!Gated, G!Gated, Control!MinuteOf, G!MinuteOf,
       Control!MinuteSeen, G!MinuteSeen, Control!NothingToSend, G!NothingToSend,
       Control!Sends, G!Sends, Control!OwnStop, G!OwnStop, Control!Control, G!Control

LEMMA ControlBurst ==
  /\ Control!BeginBurst => G!BeginBurst
  /\ Control!SendCommand => G!SendCommand
  /\ Control!EndBurst => G!EndBurst
BY DEF Control!BeginBurst, G!BeginBurst, Control!SendCommand, G!SendCommand,
       Control!EndBurst, G!EndBurst, Control!Gated, G!Gated, Control!MinuteOf, G!MinuteOf,
       Control!MinuteSeen, G!MinuteSeen, Control!Sends, G!Sends, Control!Visit, G!Visit,
       Control!Advance, G!Advance, Control!NextEntry, G!NextEntry,
       Control!TurnsAfterBurst, G!TurnsAfterBurst, Control!QueueAfterBurst, G!QueueAfterBurst,
       Control!OwnStop, G!OwnStop, Control!Control, G!Control

\* What LoadGenerator assumes of its constants, System assumes of its own.
LEMMA ControlAssumptions ==
  /\ Minute \in Nat \ {0}
  /\ Rates \subseteq Nat \ {0}
  /\ Durations \subseteq Nat
  /\ MaxCommands \in Nat
  /\ Plans \subseteq Seq([scenario : G!Scenarios, turn : Nat \ {0}])
BY NumbersAssumption, PlansAssumption DEF G!Scenarios

\* A step of the system is a step of the generator, or leaves it alone.
LEMMA ControlNext == [Next]_vars => [G!Next]_(G!vars)
<1> SUFFICES ASSUME [Next]_vars PROVE G!Next \/ UNCHANGED controlVars
  BY DEF controlVars, G!vars
<1>1. CASE Generator
  BY <1>1, ControlTick, ControlBurst
     DEF Generator, GeneratorSubmits, TakeControl, Tick, G!Next, G!Generator, G!Burst
<1>2. CASE Operate \/ ConsoleSubmits
  BY <1>2, ControlOperator DEF Operate, ConsoleSubmits, G!Next, G!Operator
<1>3. CASE Clock
  BY <1>3, ControlTick DEF Clock, G!Next
<1>4. CASE Network \/ Timer \/ (\E w \in Workers : Work(w)) \/ UNCHANGED vars
  BY <1>4 DEF Network, Timer, Work, vars
<1> QED
  BY <1>1, <1>2, <1>3, <1>4 DEF Next

\* The thread sends at the rate of the current command.
RateCurrent == gen.pc = "act" /\ property.cmd = "START" => gen.cps = property.cps

ControlInv == G!Typed /\ G!ActsOnCurrent /\ G!CountKept /\ RateCurrent

LEMMA ControlInvInit == Init => ControlInv
<1> SUFFICES ASSUME Init PROVE ControlInv
  OBVIOUS
<1>1. G!Init
  BY ControlInit DEF Init
<1>2. G!Typed
  BY <1>1, ControlAssumptions, G!TypedInit
<1> QED
  BY <1>1, <1>2 DEF G!Init, G!ActsOnCurrent, G!CountKept, G!Timed, RateCurrent, ControlInv

LEMMA RateNext ==
  ASSUME G!TypeOK, RateCurrent, [G!Next]_(G!vars)
  PROVE  RateCurrent'
<1>1. CASE G!Wake \/ G!Pass \/ G!NothingToSend \/ G!Burst
  <2>1. gen'.pc # "act"
    BY <1>1 DEF G!Wake, G!Pass, G!NothingToSend, G!Burst, G!BeginBurst, G!SendCommand,
                G!EndBurst, G!TypeOK
  <2> QED
    BY <2>1 DEF RateCurrent
<1>2. CASE G!TakeControl
  <2>1. gen'.cps = Head(queue).cps
    BY <1>2 DEF G!TakeControl, G!ActOn, G!TypeOK
  <2>2. CASE Head(queue).cmd = "START"
    BY <1>2, <2>1, <2>2 DEF G!TakeControl, G!Apply, RateCurrent
  <2>3. CASE Head(queue).cmd # "START"
    <3>1. property'.cmd = "STOP"
      BY <1>2, <2>3 DEF G!TakeControl, G!Apply, G!TypeOK
    <3> QED
      BY <3>1 DEF RateCurrent
  <2> QED
    BY <2>2, <2>3
<1>3. CASE G!CarryOn
  BY <1>3 DEF G!CarryOn, G!ActOn, G!TypeOK, RateCurrent
<1>4. CASE UNCHANGED <<gen, property>>
  BY <1>4 DEF RateCurrent
<1>5. CASE G!Clock \/ (\E k \in Consoles : G!Operator(k)) \/ UNCHANGED G!vars
  BY <1>4, <1>5 DEF G!Clock, G!Operator, G!ChangePlan, G!TogglePerMinute, G!StartCopiesPlan,
                    G!StartQueued, G!StopQueued, G!UnitTest, G!vars
<1> QED
  BY <1>1, <1>2, <1>3, <1>5 DEF G!Next, G!Generator

LEMMA ControlInvNext == ControlInv /\ [Next]_vars => ControlInv'
<1> SUFFICES ASSUME ControlInv, [Next]_vars PROVE ControlInv'
  OBVIOUS
<1>1. [G!Next]_(G!vars) /\ G!TypeOK
  BY ControlNext DEF ControlInv, G!Typed
<1> QED
  BY <1>1, ControlAssumptions, RateNext, G!TypedNext, G!ActsNext, G!CountNext DEF ControlInv

-----------------------------------------------------------------------------
(* The composition. *)

\* Composed with the session engine, the generator still behaves as LoadGenerator
\* says: what is proved of Control!Spec holds of the system.
THEOREM GeneratorComposed == Spec => Control!Spec
<1>1. Init => Control!Init
  BY DEF Init
<1>2. [Next]_vars => [Control!Next]_(Control!vars)
  <2> SUFFICES ASSUME [Next]_vars PROVE Control!Next \/ UNCHANGED controlVars
    BY DEF controlVars, Control!vars
  <2>1. CASE Generator
    BY <2>1 DEF Generator, GeneratorSubmits, TakeControl, Tick, Control!Next,
                Control!Generator, Control!Burst
  <2>2. CASE Operate \/ ConsoleSubmits \/ Clock
    BY <2>2 DEF Operate, ConsoleSubmits, Clock, Control!Next, Control!Operator
  <2>3. CASE Network \/ Timer \/ (\E w \in Workers : Work(w)) \/ UNCHANGED vars
    BY <2>3 DEF Network, Timer, Work, vars
  <2> QED
    BY <2>1, <2>2, <2>3 DEF Next
<1> QED
  BY <1>1, <1>2, PTL DEF Spec, Control!Spec

\* Fed by the generator and the consoles, the session engine takes no step that
\* LoadSession does not describe.
THEOREM EngineComposed == Spec => Engine!Init /\ [][Engine!Next]_(Engine!vars)
<1>1. Init => Engine!Init
  BY DEF Init
<1>2. EngineInv /\ [Next]_vars => [Engine!Next]_(Engine!vars)
  <2> SUFFICES ASSUME EngineInv, [Next]_vars PROVE Engine!Next \/ UNCHANGED engineVars
    BY DEF engineVars, Engine!vars
  <2>1. CASE ExecThread
    BY <2>1, UnsentCommands DEF ExecThread, Engine!Next, Engine!Owners
  <2>2. CASE Generator \/ ConsoleSubmits
    BY <2>1, <2>2 DEF Generator, GeneratorSubmits, ConsoleSubmits, TakeControl, Tick
  <2>3. CASE Clock \/ Operate \/ UNCHANGED vars
    BY <2>3 DEF Clock, Operate, vars
  <2>4. CASE Network \/ Timer \/ \E w \in Workers : Work(w)
    BY <2>4 DEF Network, Timer, Work, Engine!Next
  <2> QED
    BY <2>2, <2>3, <2>4 DEF Next
<1> QED
  BY <1>1, <1>2, EngineInvInit, EngineInvNext, PTL DEF Spec

-----------------------------------------------------------------------------
(* The quota. *)

Submitted == Cardinality(Commands \ unsent)

\* Load commands the current run may still submit, if it is timed.
Left ==
    IF property.cmd # "START" THEN 0
    ELSE IF gen.pc = "burst" THEN gen.cps + property.cps * (property.turns - 1)
    ELSE property.cps * property.turns

\* A run without a DURATION was allowed everything; as long as there was none,
\* what was submitted and what the current run has left fit into the quota.
Budgeted ==
    /\ quota \in Nat
    /\ property.cmd = "START" /\ run.duration = 0 => quota >= MaxLoad
    /\ quota < MaxLoad => Submitted + Left <= quota

LEMMA Products ==
  ASSUME NEW a \in Nat, NEW b \in Nat
  PROVE  /\ a * b \in Nat
         /\ b # 0 => a * (b - 1) \in Nat /\ a + a * (b - 1) = a * b
OBVIOUS

LEMMA SubmittedTyped == Submitted \in Nat /\ Submitted <= MaxLoad
<1>1. IsFiniteSet(Commands) /\ Cardinality(Commands) = MaxLoad
  BY FS_Interval, MaxLoadAssumption DEF Commands
<1>2. IsFiniteSet(Commands \ unsent) /\ Cardinality(Commands \ unsent) <= MaxLoad
  BY <1>1, FS_Subset
<1> QED
  BY <1>2, FS_CardinalityType DEF Submitted

\* ExecThread submits one load command.
LEMMA ExecSubmits ==
  ASSUME EngineInv, ExecThread
  PROVE  Submitted' = Submitted + 1
<1> PICK c \in unsent : unsent' = unsent \ {c}
  BY DEF ExecThread, Engine!Submit
<1>1. c \in Commands /\ c \notin Commands \ unsent
  BY UnsentCommands
<1>2. Commands \ unsent' = (Commands \ unsent) \cup {c}
  BY <1>1
<1>3. IsFiniteSet(Commands)
  BY FS_Interval, MaxLoadAssumption DEF Commands
<1>4. IsFiniteSet(Commands \ unsent)
  BY <1>3, FS_Subset
<1> QED
  BY <1>1, <1>2, <1>4, FS_AddElement DEF Submitted

\* What the control's invariant says of the numbers a run is counted with.
LEMMA Counters ==
  ASSUME ControlInv
  PROVE  /\ gen.cps \in Nat /\ property.cps \in Nat /\ property.turns \in Nat
         /\ gen.pc = "burst" => property.cmd = "START"
         /\ gen.pc \in {"act", "burst"} /\ property.cmd = "START" /\ run.duration # 0
              => property.turns # 0
BY DEF ControlInv, G!Typed, G!TypeOK, G!ActsOnCurrent, G!CountKept, G!Timed

LEMMA LeftTyped ==
  ASSUME ControlInv, run.duration # 0 \/ property.cmd # "START"
  PROVE  Left \in Nat
<1>1. CASE property.cmd = "START"
  <2> PICK a \in Nat, b \in Nat : a = property.cps /\ b = property.turns
    BY Counters
  <2>1. a * b \in Nat /\ (b # 0 => a * (b - 1) \in Nat)
    BY Products
  <2>2. gen.cps \in Nat /\ (gen.pc = "burst" => b # 0)
    BY <1>1, Counters
  <2>3. Left = IF gen.pc = "burst" THEN gen.cps + a * (b - 1) ELSE a * b
    BY <1>1 DEF Left
  <2> QED
    BY <2>1, <2>2, <2>3
<1> QED
  BY <1>1 DEF Left

\* A step that submits nothing, grants nothing and leaves the current run alone,
\* or what it has left.
LEMMA BudgetUnmoved ==
  ASSUME Budgeted, quota' = quota, Submitted' = Submitted, Left' = Left,
         property'.cmd = property.cmd, run'.duration = run.duration
  PROVE  Budgeted'
BY DEF Budgeted

LEMMA BudgetTaken ==
  ASSUME ControlInv, Budgeted, TakeControl
  PROVE  Budgeted'
<1> DEFINE ctrl == Head(queue)
<1>1. ctrl.cps \in Nat /\ ctrl.option \in Nat /\ queue # <<>>
  <2>1. queue # <<>> /\ queue \in Seq(G!Controls)
    BY DEF TakeControl, Control!TakeControl, ControlInv, G!Typed, G!TypeOK
  <2>2. ctrl \in G!Controls
    BY <2>1
  <2> QED
    BY <2>1, <2>2 DEF G!Controls
<1>2. quota' = quota + Allowance(ctrl) /\ Submitted' = Submitted
  BY DEF TakeControl, engineVars, Submitted
<1>3. G!TypeOK /\ gen'.pc = "act"
  BY DEF TakeControl, Control!TakeControl, Control!ActOn, ControlInv, G!Typed, G!TypeOK
<1>4. quota \in Nat /\ MaxLoad \in Nat /\ Submitted \in Nat
  BY SubmittedTyped, MaxLoadAssumption DEF Budgeted
<1>5. CASE ctrl.cmd = "START"
  <2>1. /\ property'.cmd = "START" /\ property'.cps = ctrl.cps /\ property'.turns = ctrl.option
        /\ run'.duration = ctrl.option
    BY <1>5 DEF TakeControl, Control!TakeControl, Control!Apply
  <2>2. Left' = ctrl.cps * ctrl.option
    BY <1>3, <2>1 DEF Left
  <2>3. ctrl.cps * ctrl.option \in Nat
    BY <1>1, Products
  <2>4. Allowance(ctrl) = IF ctrl.option = 0 THEN MaxLoad ELSE Left'
    BY <1>5, <2>2 DEF Allowance
  <2>5. quota' \in Nat /\ quota' >= quota /\ (ctrl.option = 0 => quota' >= MaxLoad)
    BY <1>2, <1>4, <2>2, <2>3, <2>4
  <2>6. quota < MaxLoad => Submitted <= quota
    <3>1. quota < MaxLoad => Left \in Nat
      BY <1>4, LeftTyped DEF Budgeted
    <3> QED
      BY <1>4, <3>1 DEF Budgeted
  <2>7. quota' < MaxLoad => Submitted' + Left' <= quota'
    BY <1>2, <1>4, <2>2, <2>3, <2>4, <2>5, <2>6
  <2> QED
    BY <2>1, <2>5, <2>7 DEF Budgeted
<1>6. CASE ctrl.cmd # "START"
  <2>1. property'.cmd = "STOP"
    BY <1>3, <1>6 DEF TakeControl, Control!TakeControl, Control!Apply, G!TypeOK
  <2>2. quota' = quota /\ Left' = 0
    BY <1>2, <1>4, <1>6, <2>1 DEF Allowance, Left
  <2>3. quota < MaxLoad => Submitted <= quota
    <3>1. quota < MaxLoad => Left \in Nat
      BY <1>4, LeftTyped DEF Budgeted
    <3> QED
      BY <1>4, <3>1 DEF Budgeted
  <2> QED
    BY <1>2, <1>4, <2>1, <2>2, <2>3 DEF Budgeted
<1> QED
  BY <1>5, <1>6

LEMMA BudgetTick ==
  ASSUME ControlInv, Budgeted, Tick
  PROVE  Budgeted'
<1>0. quota' = quota /\ Submitted' = Submitted
  BY DEF Tick, engineVars, Submitted
<1>1. G!TypeOK
  BY DEF ControlInv, G!Typed
<1>2. CASE Control!Wake \/ Control!CarryOn \/ Control!Pass \/ Control!NothingToSend
  <2>1. gen.pc # "burst" /\ gen'.pc # "burst" /\ UNCHANGED <<property, run>>
    BY <1>1, <1>2 DEF Control!Wake, Control!CarryOn, Control!ActOn, Control!Pass,
                      Control!NothingToSend, Control!Sends, G!TypeOK
  <2>2. Left' = Left
    BY <2>1 DEF Left
  <2> QED
    BY <1>0, <2>1, <2>2, BudgetUnmoved
<1>3. CASE Control!BeginBurst
  <2>1. /\ gen.pc = "act" /\ gen.cmd = "START" /\ gen'.pc = "burst" /\ gen'.cps = gen.cps
        /\ property' = property /\ run'.duration = run.duration
    BY <1>1, <1>3 DEF Control!BeginBurst, Control!Sends, G!TypeOK
  <2>2. property.cmd = "START" /\ gen.cps = property.cps
    BY <2>1 DEF ControlInv, G!ActsOnCurrent, RateCurrent
  <2>3. CASE run.duration # 0
    <3> PICK a \in Nat, b \in Nat : a = property.cps /\ b = property.turns
      BY Counters
    <3>1. b # 0
      BY <2>1, <2>2, <2>3, Counters
    <3>2. Left = a * b /\ Left' = a + a * (b - 1)
      BY <2>1, <2>2 DEF Left
    <3>3. Left' = Left
      BY <3>1, <3>2, Products
    <3> QED
      BY <1>0, <2>1, <3>3, BudgetUnmoved
  <2>4. CASE run.duration = 0
    BY <1>0, <2>1, <2>2, <2>4, MaxLoadAssumption DEF Budgeted
  <2> QED
    BY <2>3, <2>4
<1>4. CASE Control!EndBurst
  <2>1. /\ gen.pc = "burst" /\ gen.cps = 0 /\ gen'.pc = "sleep" /\ run' = run
        /\ property'.cmd = property.cmd /\ property'.cps = property.cps
        /\ property'.turns = Control!TurnsAfterBurst
    BY <1>1, <1>4 DEF Control!EndBurst, G!TypeOK
  <2>2. property.cmd = "START"
    BY <2>1, Counters
  <2>3. CASE run.duration # 0
    <3> PICK a \in Nat, b \in Nat : a = property.cps /\ b = property.turns
      BY Counters
    <3>1. b # 0 /\ property'.turns = b - 1
      BY <2>1, <2>2, <2>3, Counters DEF Control!TurnsAfterBurst
    <3>2. Left = 0 + a * (b - 1) /\ Left' = a * (b - 1)
      BY <2>1, <2>2, <3>1 DEF Left
    <3>3. Left' = Left
      BY <3>1, <3>2, Products
    <3> QED
      BY <1>0, <2>1, <3>3, BudgetUnmoved
  <2>4. CASE run.duration = 0
    BY <1>0, <2>1, <2>2, <2>4, MaxLoadAssumption DEF Budgeted
  <2> QED
    BY <2>3, <2>4
<1> QED
  BY <1>2, <1>3, <1>4 DEF Tick

LEMMA BudgetSent ==
  ASSUME EngineInv, ControlInv, Budgeted, GeneratorSubmits
  PROVE  Budgeted'
<1>1. quota' = quota /\ Submitted' = Submitted + 1
  BY ExecSubmits DEF GeneratorSubmits
<1>2. /\ gen.pc = "burst" /\ gen'.pc = "burst" /\ gen'.cps = gen.cps - 1
      /\ property' = property /\ run' = run
  BY DEF GeneratorSubmits, Control!SendCommand, ControlInv, G!Typed, G!TypeOK
<1>3. property.cmd = "START"
  BY <1>2, Counters
<1>4. CASE run.duration # 0
  <2> PICK a \in Nat, b \in Nat : a = property.cps /\ b = property.turns
    BY Counters
  <2>1. b # 0 /\ gen.cps \in Nat
    BY <1>2, <1>3, <1>4, Counters
  <2>2. a * (b - 1) \in Nat
    BY <2>1, Products
  <2>3. Left = gen.cps + a * (b - 1) /\ Left' = (gen.cps - 1) + a * (b - 1)
    BY <1>2, <1>3 DEF Left
  <2>4. Left \in Nat /\ Left' = Left - 1
    BY <2>1, <2>2, <2>3
  <2>5. Submitted \in Nat
    BY SubmittedTyped
  <2> QED
    BY <1>1, <1>2, <1>4, <2>4, <2>5, MaxLoadAssumption DEF Budgeted
<1>5. CASE run.duration = 0
  BY <1>1, <1>2, <1>3, <1>5, MaxLoadAssumption DEF Budgeted
<1> QED
  BY <1>4, <1>5

LEMMA BudgetTest ==
  ASSUME EngineInv, ControlInv, Budgeted, ConsoleSubmits
  PROVE  Budgeted'
<1>1. quota' = quota + 1 /\ Submitted' = Submitted + 1
  BY ExecSubmits DEF ConsoleSubmits
<1>2. UNCHANGED <<gen, property, run>>
  BY DEF ConsoleSubmits, Control!UnitTest
<1>3. Left' = Left
  BY <1>2 DEF Left
<1>4. quota \in Nat /\ MaxLoad \in Nat /\ Submitted \in Nat
  BY SubmittedTyped, MaxLoadAssumption DEF Budgeted
<1>5. quota < MaxLoad => Left \in Nat
  BY <1>4, LeftTyped DEF Budgeted
<1> QED
  BY <1>1, <1>2, <1>3, <1>4, <1>5 DEF Budgeted

LEMMA BudgetRest ==
  ASSUME Budgeted, UNCHANGED <<gen, property, run, unsent, quota>>
  PROVE  Budgeted'
<1>1. Left' = Left /\ Submitted' = Submitted
  BY DEF Left, Submitted
<1> QED
  BY <1>1, BudgetUnmoved

LEMMA BudgetNext ==
  ASSUME EngineInv, ControlInv, Budgeted, [Next]_vars
  PROVE  Budgeted'
<1>1. CASE Operate \/ Clock \/ UNCHANGED vars
  BY <1>1, BudgetRest
     DEF Operate, Clock, vars, engineVars, controlVars, Control!Clock, Control!StartCopiesPlan,
         Control!StartQueued, Control!StopQueued
<1>2. CASE Network \/ Timer
  BY <1>2, BudgetRest DEF Network, Timer, controlVars, Engine!Respond, Engine!Lose,
                          Engine!TimerThread, Engine!Expire
<1>3. ASSUME NEW w \in Workers, Work(w) PROVE Budgeted'
  <2>1. E!Work(w)
    BY <1>3, EngineWorks DEF Work
  <2>2. UNCHANGED unsent
    BY <2>1 DEF E!Work, E!Routing, E!Find, E!FindFails, E!Obtain, E!ObtainFails,
                E!Opening, E!ManagerFails, E!StartScenario, E!OpenAndRelease,
                E!Delivering, E!MemberNotFound, E!TimeoutIgnored, E!GiveUp, E!SendRequest,
                E!EndScenario, E!ReceiveResponse, E!CountSent
  <2> QED
    BY <1>3, <2>2, BudgetRest DEF Work, controlVars
<1> QED
  BY <1>1, <1>2, <1>3, BudgetTaken, BudgetTick, BudgetSent, BudgetTest DEF Next, Generator

LEMMA BudgetInit == Init => Budgeted
<1> SUFFICES ASSUME Init PROVE Budgeted
  OBVIOUS
<1>1. unsent = Commands
  BY DEF Init, Engine!Init, Engine!Owners, Requests
<1>2. Commands \ unsent = {}
  BY <1>1
<1>3. Submitted = 0
  BY <1>2, FS_EmptySet DEF Submitted
<1> QED
  BY <1>3 DEF Init, Control!Init, Budgeted, Left

LEMMA BudgetKeepsQuota ==
  ASSUME EngineInv, ControlInv, Budgeted
  PROVE  QuotaKept
<1>1. stat.sent <= Submitted
  BY RequestsBounded DEF Submitted
<1>2. stat.sent \in Nat
  BY DEF EngineInv, E!Inv, E!TypeOK
<1>3. quota \in Nat /\ MaxLoad \in Nat /\ Submitted \in Nat /\ Submitted <= MaxLoad
  BY SubmittedTyped, MaxLoadAssumption DEF Budgeted
<1>4. quota < MaxLoad => Left \in Nat
  BY <1>3, LeftTyped DEF Budgeted
<1> QED
  BY <1>1, <1>2, <1>3, <1>4 DEF Budgeted, QuotaKept

\* However the consoles cut into each other's runs, no more requests leave than
\* the timed runs that were begun and the single tests add up to
\* (load_generator.cpp:215-233, cli.cpp:1420).
THEOREM QuotaHolds == Spec => []QuotaKept
<1>1. Init => EngineInv /\ ControlInv /\ Budgeted
  BY EngineInvInit, ControlInvInit, BudgetInit
<1>2. EngineInv /\ ControlInv /\ Budgeted /\ [Next]_vars
        => (EngineInv /\ ControlInv /\ Budgeted)'
  BY EngineInvNext, ControlInvNext, BudgetNext
<1>3. EngineInv /\ ControlInv /\ Budgeted => QuotaKept
  BY BudgetKeepsQuota
<1> QED
  BY <1>1, <1>2, <1>3, PTL DEF Spec

=============================================================================
