--------------------------- MODULE GeneratorProofs ----------------------------
(***************************************************************************)
(* Theorems about LoadGenerator: for any consoles, plans, rates, durations   *)
(* and any length of a minute, however the commands interleave with a tick.  *)
(*                                                                         *)
(* The proofs build on each other: types and the walk first, then the order  *)
(* of the times the thread keeps, then the count of a timed run.             *)
(***************************************************************************)
EXTENDS LoadGenerator, TLAPS

\* The iterator of a burst is inside the list it walks through.
Walking ==
    gen.pc = "burst" =>
        /\ loaded \in Plans /\ loaded # <<>>
        /\ gen.visit \in [entry : DOMAIN loaded, left : Nat]

Typed == TypeOK /\ Walking

\* Times the thread keeps are times it has seen, and prev_min lags behind them.
TimesInOrder ==
    /\ Minute <= now
    /\ gen.prevTime <= now
    /\ property.start <= now
    /\ gen.prevMin <= MinuteOf(gen.prevTime)
    /\ flagged <= gen.prevMin

\* start_time_ and stop_time_ tell which command was the last.
TimesTellCommand ==
    IF property.cmd = "START" THEN property.start # 0 /\ property.stop = 0
                              ELSE property.start <= property.stop

Timed == property.cmd = "START" /\ run.duration # 0

\* The thread acts on the current command.
ActsOnCurrent ==
    /\ gen.pc \in {"act", "burst"} => gen.cmd = property.cmd
    /\ gen.pc = "burst" => gen.cmd = "START"

\* A burst is counted in trun_count_ only when it ends; a run whose count is
\* used up has its end in the queue before the thread looks there.
CountKept ==
    Timed =>
        /\ gen.pc # "burst" => run.bursts + property.turns = run.duration
        /\ gen.pc = "burst" => run.bursts + property.turns = run.duration + 1
        /\ gen.pc \in {"act", "burst"} => property.turns # 0
        /\ property.turns = 0 => queue # <<>>

-----------------------------------------------------------------------------
(* Lemmas about the operators. *)

LEMMA NoneIsNoControl ==
  ASSUME TypeOK, NEW k \in Consoles, console[k] # None
  PROVE  console[k] \in Controls
BY DEF TypeOK

\* Minutes start no later than the times in them, and follow each other.
LEMMA Minutes ==
  ASSUME NEW a \in Nat, NEW b \in Nat, a <= b
  PROVE  /\ MinuteOf(a) \in Nat
         /\ MinuteOf(a) <= a
         /\ MinuteOf(a) <= MinuteOf(b)
<1>1. Minute \in Nat \ {0}
  BY MinuteAssumption
<1>2. /\ a % Minute \in 0..(Minute - 1)
      /\ a % Minute <= a
      /\ b % Minute \in 0..(Minute - 1)
  BY <1>1
<1>3. a - (a % Minute) <= b - (b % Minute)
  BY <1>1
<1> QED
  BY <1>2, <1>3 DEF MinuteOf

LEMMA MinuteTyped ==
  ASSUME NEW t \in Nat
  PROVE  MinuteOf(t) \in Nat /\ MinuteOf(t) <= t
<1>1. t <= t
  OBVIOUS
<1> QED
  BY <1>1, Minutes

LEMMA PlanEntries ==
  ASSUME NEW list \in Plans
  PROVE  /\ Len(list) \in Nat
         /\ DOMAIN list = 1..Len(list)
         /\ \A i \in DOMAIN list : list[i].turn \in Nat
<1> DEFINE Entry == [scenario : Scenarios, turn : Nat \ {0}]
<1>1. list \in Seq(Entry)
  BY PlansAssumption
<1>2. \A e \in Entry : e.turn \in Nat
  OBVIOUS
<1> HIDE DEF Entry
<1>3. /\ Len(list) \in Nat
      /\ DOMAIN list = 1..Len(list)
      /\ \A i \in 1..Len(list) : list[i] \in Entry
  BY <1>1
<1> QED
  BY <1>2, <1>3

\* The loop never leaves the plan.
LEMMA AdvanceInside ==
  ASSUME NEW list \in Plans, list # <<>>,
         NEW v \in [entry : DOMAIN list, left : Nat]
  PROVE  Advance(list, v) \in [entry : DOMAIN list, left : Nat]
<1>1. CASE v.left = 0
  <2>1. NextEntry(list, v.entry) \in DOMAIN list
    BY PlanEntries DEF NextEntry
  <2> QED
    BY <1>1, <2>1, PlanEntries DEF Advance, Visit
<1>2. CASE v.left # 0
  BY <1>2 DEF Advance
<1> QED
  BY <1>1, <1>2

LEMMA WalkStarts ==
  ASSUME NEW list \in Plans, list # <<>>
  PROVE  Visit(list, 1) \in [entry : DOMAIN list, left : Nat]
BY PlanEntries DEF Visit

LEMMA VisitsTyped ==
  ASSUME NEW list \in Plans, NEW v \in [entry : DOMAIN list, left : Nat]
  PROVE  v \in [entry : Nat, left : Nat]
BY PlanEntries

LEMMA ControlTyped ==
  ASSUME NEW rate \in Nat, NEW option \in Nat,
         NEW cmd \in {"START", "STOP"}, NEW by \in {"console", "generator"}
  PROVE  Control(cmd, rate, option, by) \in Controls
BY DEF Control, Controls

LEMMA OwnStopQueued ==
  ASSUME TypeOK
  PROVE  Append(queue, OwnStop) \in Seq(Controls)
<1>1. OwnStop \in Controls
  BY ControlTyped DEF OwnStop
<1> QED
  BY <1>1 DEF TypeOK

-----------------------------------------------------------------------------
(* Types and the walk. *)

LEMMA TypedInit == Init => Typed
BY MinuteAssumption, MaxCommandsAssumption DEF Init, Typed, TypeOK, Walking, Controls

LEMMA TypedOperator ==
  ASSUME Typed, NEW k \in Consoles, Operator(k)
  PROVE  Typed'
<1> USE DEF Typed, Issue
<1>0. MaxCommands \in Nat
  BY MaxCommandsAssumption
<1>1. ASSUME NEW p \in Plans, ChangePlan(k, p) PROVE Typed'
  BY <1>0, <1>1 DEF ChangePlan, TypeOK, Walking
<1>2. CASE TogglePerMinute(k)
  BY <1>0, <1>2 DEF TogglePerMinute, TypeOK, Walking
<1>3. ASSUME NEW rate \in Rates, NEW option \in Durations, StartCopiesPlan(k, rate, option)
      PROVE  Typed'
  <2>1. Control("START", rate, option, "console") \in Controls
    BY ControlTyped, RatesAssumption, DurationsAssumption
  <2> QED
    BY <1>0, <1>3, <2>1 DEF StartCopiesPlan, TypeOK, Walking
<1>4. CASE StartQueued(k)
  <2>1. console[k] \in Controls
    BY <1>4, NoneIsNoControl DEF StartQueued
  <2> QED
    BY <1>4, <2>1 DEF StartQueued, TypeOK, Walking
<1>5. CASE StopQueued(k)
  <2>1. Control("STOP", 0, 0, "console") \in Controls
    BY ControlTyped
  <2> QED
    BY <1>0, <1>5, <2>1 DEF StopQueued, TypeOK, Walking
<1>6. CASE UnitTest(k)
  BY <1>0, <1>6 DEF UnitTest, TypeOK, Walking
<1> QED
  BY <1>1, <1>2, <1>3, <1>4, <1>5, <1>6 DEF Operator

LEMMA TypedTick ==
  ASSUME Typed, Wake \/ TakeControl \/ CarryOn \/ Pass \/ NothingToSend
  PROVE  Typed'
<1> USE DEF Typed
<1>1. MinuteSeen \in Nat
  BY Minutes DEF MinuteSeen, TypeOK
<1>2. CASE Wake
  BY <1>2 DEF Wake, TypeOK, Walking
<1>3. CASE TakeControl
  <2>1. Head(queue) \in Controls /\ Tail(queue) \in Seq(Controls)
    BY <1>3 DEF TakeControl, TypeOK
  <2> QED
    BY <1>3, <2>1 DEF TakeControl, ActOn, Apply, Controls, TypeOK, Walking
<1>4. CASE CarryOn
  BY <1>4 DEF CarryOn, ActOn, TypeOK, Walking
<1>5. CASE Pass
  BY <1>1, <1>5 DEF Pass, TypeOK, Walking
<1>6. CASE NothingToSend
  <2>1. queue' \in Seq(Controls)
    BY <1>6, OwnStopQueued DEF NothingToSend
  <2>2. gen' = [gen EXCEPT !.pc = "sleep", !.prevMin = MinuteSeen]
    BY <1>6 DEF NothingToSend
  <2> QED
    BY <1>1, <1>6, <2>1, <2>2 DEF NothingToSend, TypeOK, Walking
<1> QED
  BY <1>2, <1>3, <1>4, <1>5, <1>6

LEMMA TypedBurst ==
  ASSUME Typed, Burst
  PROVE  Typed'
<1> USE DEF Typed
<1>1. CASE BeginBurst
  <2>1. loaded \in Plans
    BY <1>1 DEF BeginBurst, TypeOK
  <2>2. /\ Visit(loaded, 1) \in [entry : DOMAIN loaded, left : Nat]
        /\ Visit(loaded, 1) \in [entry : Nat, left : Nat]
    BY <1>1, <2>1, WalkStarts, VisitsTyped DEF BeginBurst
  <2>3. MinuteSeen \in Nat /\ MinuteOf(gen.prevTime) \in Nat
    BY Minutes DEF MinuteSeen, TypeOK
  <2>4. gen' = [gen EXCEPT !.pc = "burst", !.prevMin = MinuteSeen, !.visit = Visit(loaded, 1)]
    BY <1>1 DEF BeginBurst
  <2>5. flagged' \in Nat
    BY <1>1, <2>3 DEF BeginBurst, TypeOK
  <2>6. run' \in [duration : Nat, bursts : Nat]
    BY <1>1, SMTT(30) DEF BeginBurst, TypeOK
  <2>7. TypeOK'
    BY <1>1, <2>2, <2>3, <2>4, <2>5, <2>6 DEF BeginBurst, TypeOK
  <2>8. Walking'
    BY <1>1, <2>1, <2>2, <2>4 DEF BeginBurst, TypeOK, Walking
  <2> QED
    BY <2>7, <2>8
<1>2. CASE SendCommand
  <2> DEFINE visit == Advance(loaded, gen.visit)
  <2>1. visit \in [entry : DOMAIN loaded, left : Nat] /\ visit \in [entry : Nat, left : Nat]
    BY <1>2, AdvanceInside, VisitsTyped DEF SendCommand, Walking
  <2>2. gen' = [gen EXCEPT !.cps = @ - 1, !.visit = visit]
    BY <1>2 DEF SendCommand
  <2>3. gen.cps - 1 \in Nat
    BY <1>2 DEF SendCommand, TypeOK
  <2> HIDE DEF visit
  <2>4. TypeOK'
    BY <1>2, <2>1, <2>2, <2>3 DEF SendCommand, TypeOK
  <2>5. Walking'
    BY <1>2, <2>1, <2>2 DEF SendCommand, TypeOK, Walking
  <2> QED
    BY <2>4, <2>5
<1>3. CASE EndBurst
  <2>1. queue' \in Seq(Controls)
    BY <1>3, OwnStopQueued DEF EndBurst, QueueAfterBurst, TypeOK
  <2>2. TurnsAfterBurst \in Nat
    BY DEF TurnsAfterBurst, TypeOK
  <2>3. TypeOK'
    BY <1>3, <2>1, <2>2 DEF EndBurst, TypeOK
  <2> QED
    BY <1>3, <2>3 DEF EndBurst, TypeOK, Walking
<1> QED
  BY <1>1, <1>2, <1>3 DEF Burst

LEMMA TypedNext ==
  ASSUME Typed, [Next]_vars
  PROVE  Typed'
<1>1. CASE Clock
  BY <1>1 DEF Clock, Typed, TypeOK, Walking
<1>2. CASE UNCHANGED vars
  BY <1>2 DEF vars, Typed, TypeOK, Walking
<1> QED
  BY <1>1, <1>2, TypedOperator, TypedTick, TypedBurst DEF Next, Generator

LEMMA TypedHolds == Spec => []Typed
<1> QED
  BY TypedInit, TypedNext, PTL DEF Spec

\* Type correctness of the generator, its queue and the commands given to it.
THEOREM TypeCorrect == Spec => []TypeOK
<1>1. Typed => TypeOK
  BY DEF Typed
<1> QED
  BY <1>1, TypedHolds, PTL

-----------------------------------------------------------------------------
(* Times. *)

LEMMA TimesHold == Spec => [](TypeOK /\ TimesInOrder)
<1>1. Init => TimesInOrder
  BY MinuteAssumption, Minutes DEF Init, TimesInOrder
<1>2. TypeOK /\ TypeOK' /\ TimesInOrder /\ [Next]_vars => TimesInOrder'
  <2> SUFFICES ASSUME TypeOK, TypeOK', TimesInOrder, [Next]_vars
               PROVE  TimesInOrder'
    OBVIOUS
  <2>1. ASSUME NEW k \in Consoles, Operator(k) PROVE TimesInOrder'
    BY <2>1 DEF Operator, ChangePlan, TogglePerMinute, StartCopiesPlan, StartQueued,
                StopQueued, UnitTest, TimesInOrder, MinuteOf
  <2>2. CASE Wake
    <3>1. MinuteOf(gen.prevTime) <= MinuteOf(now)
      BY Minutes DEF TypeOK, TimesInOrder
    <3>2. gen'.prevTime = now /\ gen'.prevMin = gen.prevMin
      BY <2>2 DEF Wake, TypeOK
    <3>3. MinuteOf(gen.prevTime) \in Nat /\ MinuteOf(now) \in Nat
      BY MinuteTyped DEF TypeOK
    <3>4. MinuteOf(gen'.prevTime) = MinuteOf(now)
      BY <3>2
    <3> QED
      BY <2>2, <3>1, <3>2, <3>3, <3>4, SMTT(30) DEF Wake, TypeOK, TimesInOrder
  <2>3. CASE TakeControl \/ CarryOn
    <3>1. gen'.prevTime = gen.prevTime /\ gen'.prevMin = gen.prevMin
      BY <2>3 DEF TakeControl, CarryOn, ActOn, TypeOK
    <3>2. property'.start \in {now, property.start}
      <4>1. CASE TakeControl
        BY <4>1 DEF TakeControl, Apply, TypeOK
      <4>2. CASE CarryOn
        BY <4>2 DEF CarryOn
      <4> QED
        BY <2>3, <4>1, <4>2
    <3>3. MinuteOf(gen'.prevTime) = MinuteOf(gen.prevTime)
      BY <3>1
    <3>4. property'.start <= now
      <4>1. now \in Nat /\ property.start <= now
        BY DEF TypeOK, TimesInOrder
      <4> QED
        BY <3>2, <4>1
    <3>5. now' = now /\ flagged' = flagged
      BY <2>3 DEF TakeControl, CarryOn
    <3> QED
      BY <3>1, <3>3, <3>4, <3>5 DEF TimesInOrder
  <2>4. CASE Pass \/ NothingToSend \/ BeginBurst
    <3>1. gen'.prevTime = gen.prevTime /\ gen'.prevMin = MinuteSeen
      BY <2>4 DEF Pass, NothingToSend, BeginBurst, TypeOK
    <3>2. /\ MinuteOf(gen.prevTime) \in Nat
          /\ MinuteOf(gen'.prevTime) = MinuteOf(gen.prevTime)
      BY <3>1, MinuteTyped DEF TypeOK
    <3>3. CASE perMinute
      <4>1. MinuteSeen = MinuteOf(gen.prevTime)
        BY <3>3 DEF MinuteSeen
      <4>2. flagged' \in {flagged, MinuteOf(gen.prevTime)}
        BY <2>4, <3>3 DEF Pass, NothingToSend, BeginBurst
      <4>3. flagged' <= MinuteOf(gen.prevTime)
        <5>1. flagged \in Nat /\ gen.prevMin \in Nat
          BY DEF TypeOK
        <5>2. flagged <= gen.prevMin /\ gen.prevMin <= MinuteOf(gen.prevTime)
          BY DEF TimesInOrder
        <5> QED
          BY <3>2, <4>2, <5>1, <5>2
      <4>4. gen'.prevMin = MinuteOf(gen.prevTime)
        BY <3>1, <4>1
      <4>5. now' = now /\ property' = property
        BY <2>4 DEF Pass, NothingToSend, BeginBurst
      <4>6. Minute <= now /\ gen.prevTime <= now /\ property.start <= now
        BY DEF TimesInOrder
      <4>7. gen'.prevMin <= MinuteOf(gen'.prevTime)
        BY <3>2, <4>4
      <4>8. flagged' <= gen'.prevMin
        BY <4>3, <4>4
      <4> QED
        BY <3>1, <4>5, <4>6, <4>7, <4>8 DEF TimesInOrder
    <3>4. CASE ~perMinute
      <4>1. MinuteSeen = gen.prevMin
        BY <3>4 DEF MinuteSeen
      <4>2. flagged' = flagged
        BY <2>4, <3>4 DEF Pass, NothingToSend, BeginBurst
      <4>3. now' = now /\ property' = property
        BY <2>4 DEF Pass, NothingToSend, BeginBurst
      <4>4. gen'.prevMin = gen.prevMin
        BY <3>1, <4>1
      <4> QED
        BY <3>1, <3>2, <4>2, <4>3, <4>4 DEF TimesInOrder
    <3> QED
      BY <3>3, <3>4
  <2>5. CASE SendCommand \/ EndBurst
    <3>1. gen'.prevTime = gen.prevTime /\ gen'.prevMin = gen.prevMin
      BY <2>5 DEF SendCommand, EndBurst, TypeOK
    <3>2. property'.start = property.start
      BY <2>5 DEF SendCommand, EndBurst, TypeOK
    <3> QED
      BY <2>5, <3>1, <3>2 DEF SendCommand, EndBurst, TimesInOrder, MinuteOf
  <2>6. CASE Clock
    BY <2>6, MinuteAssumption, SMTT(30) DEF Clock, TypeOK, TimesInOrder, MinuteOf
  <2>7. CASE UNCHANGED vars
    BY <2>7 DEF vars, TimesInOrder, MinuteOf
  <2> QED
    BY <2>1, <2>2, <2>3, <2>4, <2>5, <2>6, <2>7 DEF Next, Generator, Burst
<1> QED
  BY <1>1, <1>2, TypeCorrect, PTL DEF Spec

\* Under TR_PER_MINUTE no two bursts fall into one minute, however long a minute
\* is and whatever is toggled, stopped or started between them.
THEOREM OnceAMinute == Spec => OncePerMinute
<1>1. TypeOK /\ TimesInOrder /\ [Next]_vars
      => [run'.bursts > run.bursts /\ perMinute => MinuteOf(gen.prevTime) # flagged]_vars
  <2> SUFFICES ASSUME TypeOK, TimesInOrder, Next, run'.bursts > run.bursts, perMinute
               PROVE  MinuteOf(gen.prevTime) # flagged
    OBVIOUS
  <2>1. CASE BeginBurst
    <3>1. gen.prevMin # MinuteOf(gen.prevTime)
      BY <2>1 DEF BeginBurst, Sends, Gated
    <3>2. MinuteOf(gen.prevTime) \in Nat
      BY Minutes DEF TypeOK
    <3> QED
      BY <3>1, <3>2 DEF TypeOK, TimesInOrder
  <2>2. CASE ~BeginBurst
    <3>1. run' = run \/ run'.bursts = 0
      <4>1. CASE TakeControl
        BY <4>1 DEF TakeControl
      <4>2. ASSUME NEW k \in Consoles, Operator(k) PROVE run' = run
        BY <4>2 DEF Operator, ChangePlan, TogglePerMinute, StartCopiesPlan, StartQueued,
                    StopQueued, UnitTest
      <4>3. CASE Clock \/ Wake \/ CarryOn \/ Pass \/ NothingToSend \/ SendCommand \/ EndBurst
        BY <4>3 DEF Clock, Wake, CarryOn, Pass, NothingToSend, SendCommand, EndBurst
      <4> QED
        BY <2>2, <4>1, <4>2, <4>3 DEF Next, Generator, Burst
    <3> QED
      BY <3>1 DEF TypeOK
  <2> QED
    BY <2>1, <2>2
<1> QED
  BY <1>1, TimesHold, PTL DEF Spec, OncePerMinute

-----------------------------------------------------------------------------
(* The status. *)

LEMMA TimesTell == Spec => [](TypeOK /\ TimesTellCommand)
<1>1. Init => TimesTellCommand
  BY DEF Init, TimesTellCommand
<1>2. TypeOK /\ TimesInOrder /\ TimesTellCommand /\ [Next]_vars => TimesTellCommand'
  <2> SUFFICES ASSUME TypeOK, TimesInOrder, TimesTellCommand, [Next]_vars
               PROVE  TimesTellCommand'
    OBVIOUS
  <2>1. CASE TakeControl
    <3>1. now \in Nat /\ now # 0 /\ property.start <= now
      BY MinuteAssumption DEF TypeOK, TimesInOrder
    <3>2. CASE Head(queue).cmd = "START"
      <4>1. property'.cmd = "START" /\ property'.start = now /\ property'.stop = 0
        BY <2>1, <3>2 DEF TakeControl, Apply
      <4> QED
        BY <3>1, <4>1 DEF TimesTellCommand
    <3>3. CASE Head(queue).cmd # "START"
      <4>1. /\ property'.cmd = "STOP" /\ property'.stop = now
            /\ property'.start = property.start
        BY <2>1, <3>3 DEF TakeControl, Apply, TypeOK
      <4> QED
        BY <3>1, <4>1 DEF TimesTellCommand
    <3> QED
      BY <3>2, <3>3
  <2>2. CASE EndBurst
    <3>1. /\ property'.cmd = property.cmd /\ property'.start = property.start
          /\ property'.stop = property.stop
      BY <2>2 DEF EndBurst, TypeOK
    <3> QED
      BY <3>1 DEF TimesTellCommand
  <2>3. CASE property' = property
    BY <2>3 DEF TimesTellCommand
  <2>4. \/ TakeControl \/ EndBurst \/ property' = property
    BY DEF Next, Generator, Burst, Operator, vars, Clock, Wake, CarryOn, Pass,
           NothingToSend, BeginBurst, SendCommand, ChangePlan, TogglePerMinute,
           StartCopiesPlan, StartQueued, StopQueued, UnitTest
  <2> QED
    BY <2>1, <2>2, <2>3, <2>4
<1> QED
  BY <1>1, <1>2, TimesHold, PTL DEF Spec

\* With a clock that never steps back, the status the console computes from two
\* times is the command the generator executes.
THEOREM StatusRight == Spec => []StatusTruthful
<1>1. TypeOK /\ TimesTellCommand => StatusTruthful
  <2> SUFFICES ASSUME TypeOK, TimesTellCommand
               PROVE  Status = "started" <=> property.cmd = "START"
    BY DEF StatusTruthful
  <2>1. /\ property.cmd \in {"START", "STOP"}
        /\ property.start \in Nat /\ property.stop \in Nat
    BY DEF TypeOK
  <2> QED
    BY <2>1 DEF TimesTellCommand, Status
<1> QED
  BY <1>1, TimesTell, PTL

-----------------------------------------------------------------------------
(* The count of a timed run. *)

LEMMA ActsNext ==
  ASSUME TypeOK, ActsOnCurrent, [Next]_vars
  PROVE  ActsOnCurrent'
<1>1. CASE Wake \/ Pass \/ NothingToSend \/ EndBurst
  <2>1. gen'.pc \notin {"act", "burst"}
    BY <1>1 DEF Wake, Pass, NothingToSend, EndBurst, TypeOK
  <2> QED
    BY <2>1 DEF ActsOnCurrent
<1>2. CASE TakeControl
  <2>1. Head(queue).cmd \in {"START", "STOP"}
    <3>1. Head(queue) \in Controls
      BY <1>2 DEF TakeControl, TypeOK
    <3> QED
      BY <3>1 DEF Controls
  <2>2. gen'.pc = "act" /\ gen'.cmd = Head(queue).cmd
    BY <1>2 DEF TakeControl, ActOn, TypeOK
  <2>3. property'.cmd = Head(queue).cmd
    BY <1>2, <2>1 DEF TakeControl, Apply, TypeOK
  <2> QED
    BY <2>2, <2>3 DEF ActsOnCurrent
<1>3. CASE CarryOn
  <2>1. gen'.pc = "act" /\ gen'.cmd = property.cmd /\ property' = property
    BY <1>3 DEF CarryOn, ActOn, TypeOK
  <2> QED
    BY <2>1 DEF ActsOnCurrent
<1>4. CASE BeginBurst
  <2>1. /\ gen.pc = "act" /\ gen.cmd = "START" /\ gen'.cmd = gen.cmd
        /\ property' = property
    BY <1>4 DEF BeginBurst, Sends, TypeOK
  <2> QED
    BY <2>1 DEF ActsOnCurrent
<1>5. CASE SendCommand
  <2>1. gen'.pc = gen.pc /\ gen'.cmd = gen.cmd /\ property' = property
    BY <1>5 DEF SendCommand, TypeOK
  <2> QED
    BY <2>1 DEF ActsOnCurrent
<1>6. CASE gen' = gen /\ property' = property
  BY <1>6 DEF ActsOnCurrent
<1>7. ASSUME NEW k \in Consoles, Operator(k) PROVE gen' = gen /\ property' = property
  BY <1>7 DEF Operator, ChangePlan, TogglePerMinute, StartCopiesPlan, StartQueued,
              StopQueued, UnitTest
<1>8. CASE Clock \/ UNCHANGED vars
  BY <1>6, <1>8 DEF Clock, vars
<1> QED
  BY <1>1, <1>2, <1>3, <1>4, <1>5, <1>6, <1>7, <1>8 DEF Next, Generator, Burst

LEMMA ActsHold == Spec => [](TypeOK /\ ActsOnCurrent)
<1>1. Init => ActsOnCurrent
  BY DEF Init, ActsOnCurrent
<1>2. TypeOK /\ ActsOnCurrent /\ [Next]_vars => ActsOnCurrent'
  BY ActsNext
<1> QED
  BY <1>1, <1>2, TypeCorrect, PTL DEF Spec

LEMMA CountNext ==
  ASSUME TypeOK, ActsOnCurrent, CountKept, [Next]_vars
  PROVE  CountKept'
<1>0. /\ property.turns \in Nat /\ run.bursts \in Nat /\ run.duration \in Nat
      /\ gen.pc \in {"sleep", "check", "act", "burst"}
  BY DEF TypeOK
<1>1. CASE TakeControl
  <2>1. gen'.pc = "act"
    BY <1>1 DEF TakeControl, ActOn, TypeOK
  <2>2. CASE Head(queue).cmd = "START"
    <3>1. Head(queue).option \in Nat
      <4>1. Head(queue) \in Controls
        BY <1>1 DEF TakeControl, TypeOK
      <4> QED
        BY <4>1 DEF Controls
    <3>2. /\ property'.turns = Head(queue).option
          /\ run'.bursts = 0 /\ run'.duration = Head(queue).option
      BY <1>1, <2>2 DEF TakeControl, Apply
    <3> QED
      BY <2>1, <3>1, <3>2 DEF CountKept, Timed
  <2>3. CASE Head(queue).cmd # "START"
    <3>1. property'.cmd = "STOP"
      BY <1>1, <2>3 DEF TakeControl, Apply, TypeOK
    <3> QED
      BY <3>1 DEF CountKept, Timed
  <2> QED
    BY <2>2, <2>3
<1>2. CASE CarryOn
  <2>1. /\ property' = property /\ run' = run /\ queue = <<>>
        /\ gen.pc = "check" /\ gen'.pc = "act"
    BY <1>2 DEF CarryOn, ActOn, TypeOK
  <2> QED
    BY <1>0, <2>1 DEF CountKept, Timed
<1>3. CASE Pass \/ NothingToSend
  <2>1. /\ property' = property /\ run' = run
        /\ gen.pc = "act" /\ gen'.pc = "sleep"
    BY <1>3 DEF Pass, NothingToSend, Sends, TypeOK
  <2> QED
    BY <1>0, <2>1 DEF CountKept, Timed
<1>4. CASE BeginBurst
  <2>1. /\ property' = property /\ run'.duration = run.duration
        /\ run'.bursts = run.bursts + 1
        /\ gen.pc = "act" /\ gen'.pc = "burst"
    BY <1>4 DEF BeginBurst, Sends, TypeOK
  <2> QED
    BY <1>0, <2>1 DEF CountKept, Timed
<1>5. CASE EndBurst
  <2>1. /\ run' = run /\ gen.pc = "burst" /\ gen'.pc = "sleep"
        /\ property'.cmd = property.cmd /\ property'.turns = TurnsAfterBurst
        /\ queue' = QueueAfterBurst
    BY <1>5 DEF EndBurst, TypeOK
  <2>2. CASE property.turns = 1
    <3>1. queue' # <<>>
      BY <2>1, <2>2 DEF QueueAfterBurst, TypeOK
    <3> QED
      BY <1>0, <2>1, <2>2, <3>1 DEF CountKept, Timed, TurnsAfterBurst
  <2>3. CASE property.turns # 1
    <3>1. Timed' <=> Timed
      BY <2>1 DEF Timed
    <3>2. CASE Timed
      <4>1. property.turns # 0 /\ run.bursts + property.turns = run.duration + 1
        BY <2>1, <3>2 DEF CountKept
      <4>2. property'.turns = property.turns - 1 /\ property'.turns # 0
        BY <1>0, <2>1, <2>3, <4>1 DEF TurnsAfterBurst
      <4>3. run'.bursts + property'.turns = run'.duration
        BY <1>0, <2>1, <4>1, <4>2
      <4> QED
        BY <2>1, <4>2, <4>3 DEF CountKept
    <3> QED
      BY <3>1, <3>2 DEF CountKept
  <2> QED
    BY <2>2, <2>3
<1>6. CASE property' = property /\ run' = run /\ gen'.pc = gen.pc
           /\ (queue # <<>> => queue' # <<>>)
  BY <1>6 DEF CountKept, Timed
<1>7. CASE Wake
  <2>1. /\ property' = property /\ run' = run /\ queue' = queue
        /\ gen.pc = "sleep" /\ gen'.pc = "check"
    BY <1>7 DEF Wake, TypeOK
  <2> QED
    BY <2>1 DEF CountKept, Timed
<1>8. CASE SendCommand
  <2>1. gen'.pc = gen.pc
    BY <1>8 DEF SendCommand, TypeOK
  <2> QED
    BY <1>6, <1>8, <2>1 DEF SendCommand
<1>9. ASSUME NEW k \in Consoles, Operator(k)
      PROVE  property' = property /\ run' = run /\ gen' = gen
  BY <1>9 DEF Operator, ChangePlan, TogglePerMinute, StartCopiesPlan, StartQueued,
              StopQueued, UnitTest
<1>10. ASSUME NEW k \in Consoles, Operator(k), queue # <<>>
       PROVE  queue' # <<>>
  <2>1. CASE StartQueued(k) \/ StopQueued(k)
    BY <2>1 DEF StartQueued, StopQueued, TypeOK
  <2>2. CASE ~(StartQueued(k) \/ StopQueued(k))
    BY <1>10, <2>2 DEF Operator, ChangePlan, TogglePerMinute, StartCopiesPlan, UnitTest
  <2> QED
    BY <2>1, <2>2
<1>11. CASE Clock \/ UNCHANGED vars
  BY <1>6, <1>11 DEF Clock, vars
<1> QED
  BY <1>1, <1>2, <1>3, <1>4, <1>5, <1>6, <1>7, <1>8, <1>9, <1>10, <1>11
     DEF Next, Generator, Burst

LEMMA CountHolds == Spec => [](TypeOK /\ CountKept)
<1>1. Init => CountKept
  BY DEF Init, CountKept, Timed
<1>2. TypeOK /\ ActsOnCurrent /\ CountKept /\ [Next]_vars => CountKept'
  BY CountNext
<1> QED
  BY <1>1, <1>2, ActsHold, PTL DEF Spec

\* A run started with a DURATION never sends more bursts than that, whatever else
\* is given, queued or changed while it lasts.
THEOREM RunsBounded == Spec => []TimedRunBounded
<1>1. TypeOK /\ CountKept => TimedRunBounded
  <2> SUFFICES ASSUME TypeOK, CountKept, Timed
               PROVE  run.bursts <= run.duration
    BY DEF TimedRunBounded, Timed
  <2>1. property.turns \in Nat /\ run.bursts \in Nat /\ run.duration \in Nat
    BY DEF TypeOK
  <2> QED
    BY <2>1 DEF CountKept
<1> QED
  BY <1>1, CountHolds, PTL

-----------------------------------------------------------------------------
(* The shares of a plan. *)

\* While every entry of a plan of one or two is in its first round, its share is
\* what its turns have been used up for; a new entry is not charged for its first.
FirstRound ==
    IF gen.visit.entry = 1
    THEN /\ burst.shares[1] + gen.visit.left = loaded[1].turn
         /\ burst.shares[1] + gen.cps = burst.cps
         /\ Len(loaded) = 2 => burst.shares[2] = 0
    ELSE /\ burst.shares[1] = loaded[1].turn
         /\ burst.shares[2] + gen.visit.left = loaded[2].turn + 1
         /\ burst.shares[1] + burst.shares[2] + gen.cps = burst.cps

SharesCounted ==
    gen.pc = "burst" =>
        /\ DOMAIN burst = {"plan", "cps", "shares"}
        /\ burst.plan = loaded
        /\ burst.cps \in Nat
        /\ burst.shares \in [DOMAIN loaded -> Nat]
        /\ Len(loaded) <= 2 /\ burst.cps <= PlannedRate(loaded) => FirstRound

LEMMA ShortRates ==
  ASSUME NEW list \in Plans, Len(list) \in {1, 2}
  PROVE  PlannedRate(list) = IF Len(list) = 1 THEN list[1].turn
                             ELSE list[1].turn + list[2].turn
<1> DEFINE After(f) == [i \in 0..Len(list) |-> IF i = 0 THEN 0 ELSE f[i - 1] + list[i].turn]
           total == CHOOSE f : f = After(f)
           first == list[1].turn
           sums == [i \in 0..Len(list) |->
                      IF i = 0 THEN 0 ELSE IF i = 1 THEN first ELSE first + list[2].turn]
<1>1. first \in Nat
  BY PlanEntries
<1>2. sums = After(sums)
  <2>1. ASSUME NEW i \in 0..Len(list), i # 0
        PROVE  sums[i - 1] + list[i].turn = sums[i]
    BY <1>1, <2>1
  <2> QED
    BY <2>1
<1>3. total = After(total)
  BY <1>2
<1>4. PlannedRate(list) = total[Len(list)]
  BY DEF PlannedRate
<1> HIDE DEF total
<1>5. total[0] = 0
  BY <1>3
<1>6. total[1] = first
  BY <1>1, <1>3, <1>5
<1>7. Len(list) = 2 => total[2] = first + list[2].turn
  BY <1>3, <1>6
<1> QED
  BY <1>4, <1>6, <1>7

LEMMA ShortPlans ==
  ASSUME NEW list \in Plans, list # <<>>, Len(list) <= 2
  PROVE  /\ Len(list) \in {1, 2} /\ DOMAIN list = 1..Len(list)
         /\ list[1].turn \in Nat
         /\ Len(list) = 2 => list[2].turn \in Nat
<1>1. Len(list) \in Nat /\ DOMAIN list = 1..Len(list)
  BY PlanEntries
<1>2. Len(list) # 0
  BY PlansAssumption
<1>3. Len(list) \in {1, 2} /\ 1 \in DOMAIN list /\ (Len(list) = 2 => 2 \in DOMAIN list)
  BY <1>1, <1>2
<1> QED
  BY <1>1, <1>3, PlanEntries

LEMMA SharesBegin ==
  ASSUME Typed, BeginBurst
  PROVE  SharesCounted'
<1>1. /\ loaded \in Plans /\ loaded # <<>> /\ gen.cps \in Nat /\ loaded' = loaded
      /\ gen'.visit = Visit(loaded, 1) /\ gen'.cps = gen.cps
      /\ burst' = [plan |-> loaded, cps |-> gen.cps, shares |-> [i \in DOMAIN loaded |-> 0]]
  BY DEF BeginBurst, Typed, TypeOK
<1>2. Len(loaded) \in Nat /\ DOMAIN loaded = 1..Len(loaded) /\ Len(loaded) # 0
  BY <1>1, PlanEntries DEF Typed
<1>3. loaded[1].turn \in Nat
  BY <1>1, <1>2, PlanEntries
<1>4. FirstRound'
  BY <1>1, <1>2, <1>3 DEF FirstRound, Visit
<1> QED
  BY <1>1, <1>4 DEF SharesCounted

LEMMA SharesSend ==
  ASSUME Typed, SharesCounted, SendCommand
  PROVE  SharesCounted'
<1> DEFINE v == gen.visit
           next == Advance(loaded, v)
<1>1. /\ loaded \in Plans /\ loaded # <<>> /\ loaded' = loaded
      /\ v \in [entry : DOMAIN loaded, left : Nat]
      /\ gen.cps \in Nat \ {0} /\ gen'.cps = gen.cps - 1 /\ gen'.visit = next
      /\ burst' = [burst EXCEPT !.shares[next.entry] = @ + 1]
  BY DEF SendCommand, Typed, TypeOK, Walking
<1>2. /\ DOMAIN burst = {"plan", "cps", "shares"} /\ burst.plan = loaded
      /\ burst.cps \in Nat /\ burst.shares \in [DOMAIN loaded -> Nat]
  BY DEF SharesCounted, SendCommand
<1>3. next \in [entry : DOMAIN loaded, left : Nat]
  BY <1>1, AdvanceInside
<1>4. /\ DOMAIN burst' = {"plan", "cps", "shares"} /\ burst'.plan = loaded
      /\ burst'.cps = burst.cps
      /\ burst'.shares = [burst.shares EXCEPT ![next.entry] = @ + 1]
  BY <1>1, <1>2
<1>5. burst'.shares \in [DOMAIN loaded -> Nat]
  BY <1>2, <1>3, <1>4
<1>6. ASSUME Len(loaded) <= 2, burst.cps <= PlannedRate(loaded)
      PROVE  FirstRound'
  <2>1. /\ Len(loaded) \in {1, 2} /\ DOMAIN loaded = 1..Len(loaded)
        /\ loaded[1].turn \in Nat /\ (Len(loaded) = 2 => loaded[2].turn \in Nat)
    BY <1>1, <1>6, ShortPlans
  <2>2. PlannedRate(loaded) = IF Len(loaded) = 1 THEN loaded[1].turn
                              ELSE loaded[1].turn + loaded[2].turn
    BY <1>1, <2>1, ShortRates
  <2>3. FirstRound
    BY <1>6 DEF SharesCounted, SendCommand
  <2>4. v.entry \in DOMAIN loaded /\ v.left \in Nat
    BY <1>1
  <2>5. CASE v.left # 0
    <3>1. next.entry = v.entry /\ next.left = v.left - 1
      BY <1>1, <2>5 DEF Advance
    <3>2. gen.cps \in Nat /\ gen'.cps = gen.cps - 1 /\ gen'.visit = next /\ loaded' = loaded
      BY <1>1
    <3>3. CASE v.entry = 1
      <4>1. /\ burst'.shares[1] = burst.shares[1] + 1 /\ burst.shares[1] \in Nat
            /\ Len(loaded) = 2 => burst'.shares[2] = burst.shares[2]
        BY <1>2, <1>4, <2>1, <3>1, <3>3
      <4>2. /\ burst.shares[1] + v.left = loaded[1].turn
            /\ burst.shares[1] + gen.cps = burst.cps
            /\ Len(loaded) = 2 => burst.shares[2] = 0
        BY <2>3, <3>3 DEF FirstRound
      <4> HIDE DEF v, next
      <4>3. /\ burst'.shares[1] + next.left = loaded[1].turn
            /\ burst'.shares[1] + gen'.cps = burst.cps
            /\ Len(loaded) = 2 => burst'.shares[2] = 0
        BY <1>2, <2>4, <3>1, <3>2, <4>1, <4>2
      <4> QED
        BY <1>4, <3>1, <3>2, <3>3, <4>3 DEF FirstRound
    <3>4. CASE v.entry # 1
      <4>1. Len(loaded) = 2 /\ v.entry = 2
        BY <2>1, <2>4, <3>4
      <4>2. /\ burst'.shares[2] = burst.shares[2] + 1 /\ burst.shares[2] \in Nat
            /\ burst'.shares[1] = burst.shares[1] /\ burst.shares[1] \in Nat
        BY <1>2, <1>4, <2>1, <3>1, <4>1
      <4>3. /\ burst.shares[1] = loaded[1].turn
            /\ burst.shares[2] + v.left = loaded[2].turn + 1
            /\ burst.shares[1] + burst.shares[2] + gen.cps = burst.cps
        BY <2>3, <3>4 DEF FirstRound
      <4> HIDE DEF v, next
      <4>4. /\ burst'.shares[1] = loaded[1].turn
            /\ burst'.shares[2] + next.left = loaded[2].turn + 1
            /\ burst'.shares[1] + burst'.shares[2] + gen'.cps = burst.cps
        BY <1>2, <2>4, <3>1, <3>2, <4>2, <4>3
      <4> QED
        BY <1>4, <3>1, <3>2, <3>4, <4>4 DEF FirstRound
    <3> QED
      BY <3>3, <3>4
  <2>6. CASE v.left = 0
    <3>1. v.entry = 1 /\ Len(loaded) = 2
      BY <1>1, <1>2, <1>6, <2>1, <2>2, <2>3, <2>4, <2>6, SMTT(30) DEF FirstRound
    <3>2. next.entry = 2 /\ next.left = loaded[2].turn
      BY <2>6, <3>1 DEF Advance, NextEntry, Visit
    <3> QED
      BY <1>1, <1>2, <1>4, <2>1, <2>3, <2>6, <3>1, <3>2 DEF FirstRound
  <2> QED
    BY <2>5, <2>6
<1> QED
  BY <1>1, <1>2, <1>4, <1>5, <1>6 DEF SharesCounted

LEMMA SharesWithin ==
  Typed /\ SharesCounted /\ gen.pc = "burst" => TwoEntrySharesHonoured
<1> SUFFICES ASSUME Typed, SharesCounted, gen.pc = "burst",
                    Len(burst.plan) <= 2, burst.cps <= PlannedRate(burst.plan),
                    NEW i \in DOMAIN burst.plan
             PROVE  burst.shares[i] <= burst.plan[i].turn
  BY DEF TwoEntrySharesHonoured
<1>1. /\ loaded \in Plans /\ loaded # <<>> /\ gen.visit \in [entry : DOMAIN loaded, left : Nat]
      /\ burst.plan = loaded /\ burst.cps \in Nat /\ burst.shares \in [DOMAIN loaded -> Nat]
      /\ gen.cps \in Nat /\ FirstRound
  BY DEF Typed, TypeOK, Walking, SharesCounted
<1>2. /\ Len(loaded) \in {1, 2} /\ DOMAIN loaded = 1..Len(loaded)
      /\ loaded[1].turn \in Nat /\ (Len(loaded) = 2 => loaded[2].turn \in Nat)
  BY <1>1, ShortPlans
<1>3. PlannedRate(loaded) = IF Len(loaded) = 1 THEN loaded[1].turn
                            ELSE loaded[1].turn + loaded[2].turn
  BY <1>1, <1>2, ShortRates
<1>4. gen.visit.entry \in DOMAIN loaded /\ gen.visit.left \in Nat
  BY <1>1
<1>5. CASE gen.visit.entry = 1
  <2>1. /\ burst.shares[1] + gen.visit.left = loaded[1].turn /\ burst.shares[1] \in Nat
        /\ Len(loaded) = 2 => burst.shares[2] = 0
    BY <1>1, <1>2, <1>5 DEF FirstRound
  <2>2. burst.shares[1] <= loaded[1].turn
    BY <1>2, <1>4, <2>1
  <2> QED
    BY <1>1, <1>2, <2>1, <2>2
<1>6. CASE gen.visit.entry # 1
  <2>1. Len(loaded) = 2
    BY <1>2, <1>4, <1>6
  <2>2. /\ burst.shares[1] = loaded[1].turn
        /\ burst.shares[1] + burst.shares[2] + gen.cps = burst.cps
        /\ burst.shares[2] \in Nat
    BY <1>1, <1>2, <1>6, <2>1 DEF FirstRound
  <2>3. burst.cps <= loaded[1].turn + loaded[2].turn
    BY <1>1, <1>3, <2>1
  <2>4. burst.shares[2] <= loaded[2].turn
    BY <1>1, <1>2, <2>1, <2>2, <2>3
  <2> QED
    BY <1>1, <1>2, <2>1, <2>2, <2>4
<1> QED
  BY <1>5, <1>6

\* As long as a plan of one or two entries is not asked for more than it adds up
\* to, no entry gets more than its turns, although the loop charges entries for
\* their turns unequally.
THEOREM SharesHonoured == Spec => []TwoEntrySharesHonoured
<1> DEFINE Kept == SharesCounted /\ TwoEntrySharesHonoured
<1>1. Init => Kept
  BY DEF Init, SharesCounted, TwoEntrySharesHonoured
<1>2. (Typed /\ SharesCounted /\ gen.pc = "burst" => TwoEntrySharesHonoured)'
  BY SharesWithin, PTL
<1>3. Typed /\ Typed' /\ Kept /\ [Next]_vars => Kept'
  <2> SUFFICES ASSUME Typed, Typed', Kept, [Next]_vars
               PROVE  Kept'
    OBVIOUS
  <2>1. CASE BeginBurst \/ SendCommand
    <3>1. SharesCounted'
      BY <2>1, SharesBegin, SharesSend
    <3>2. gen'.pc = "burst"
      BY <2>1 DEF BeginBurst, SendCommand, Typed, TypeOK
    <3> QED
      BY <1>2, <3>1, <3>2
  <2>2. CASE burst' = burst /\ gen'.pc # "burst"
    BY <2>2 DEF SharesCounted, TwoEntrySharesHonoured
  <2>3. CASE burst' = burst /\ gen' = gen /\ (gen.pc = "burst" => loaded' = loaded)
    BY <2>3 DEF SharesCounted, FirstRound, TwoEntrySharesHonoured
  <2>4. CASE Wake \/ TakeControl \/ CarryOn \/ Pass \/ NothingToSend \/ EndBurst
    <3>1. burst' = burst /\ gen'.pc # "burst"
      BY <2>4 DEF Wake, TakeControl, CarryOn, ActOn, Pass, NothingToSend, EndBurst, Typed, TypeOK
    <3> QED
      BY <2>2, <3>1
  <2>5. ASSUME NEW k \in Consoles, Operator(k)
        PROVE  burst' = burst /\ gen' = gen /\ (gen.pc = "burst" => loaded' = loaded)
    BY <2>5 DEF Operator, ChangePlan, TogglePerMinute, StartCopiesPlan, StartQueued,
                StopQueued, UnitTest
  <2>6. CASE Clock \/ UNCHANGED vars
    BY <2>3, <2>6 DEF Clock, vars
  <2> QED
    BY <2>1, <2>3, <2>4, <2>5, <2>6 DEF Next, Generator, Burst
<1> QED
  BY <1>1, <1>3, TypedHolds, PTL DEF Spec

=============================================================================
