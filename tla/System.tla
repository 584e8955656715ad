-------------------------------- MODULE System --------------------------------
(***************************************************************************)
(* The load generator at work: LoadGenerator feeds LoadSession.  They share  *)
(* one call, InterfaceHub::ExecThread (main/interface_hub.cpp:111), which    *)
(* queues a load command for the thread pool and returns: the generator      *)
(* never learns what became of a command.  ACT-LOAD-GEN:ONCE makes the same   *)
(* call from the console's thread.                                           *)
(*                                                                         *)
(* Every variable is declared once here; each component is an instance over *)
(* its share, and a step is a step of one of them, or of both at that call.  *)
(***************************************************************************)
EXTENDS Integers, Sequences, FiniteSets

CONSTANTS
    Workers, Slots, Sids, Mids, MidModulus, MaxLoad, MidsReused, AttachMayFail, \* LoadSession
    Consoles, Plans, Rates, Durations, Minute, MaxTime, MaxCommands, \* LoadGenerator
    None

ASSUME MaxLoadAssumption == MaxLoad \in Nat

\* Bound: load commands a behaviour may submit.  They are alike, and are
\* submitted in the order of their numbers.
Commands == 1..MaxLoad

\* No client connects in these behaviours.
Requests == {}

ASSUME SlotsAssumption == IsFiniteSet(Slots)

\* A member identifier as a reply brings it back (LoadSession).
Unpacked(k) == k % MidModulus

ASSUME MidsAssumption ==
    /\ MidModulus \in Nat \ {0}
    /\ Mids \subseteq Nat
    /\ \A k \in Mids : Unpacked(k) # 0

ASSUME NoneAssumption ==
    None \notin Workers \cup Slots \cup Sids \cup Mids \cup {Unpacked(k) : k \in Mids} \cup Commands

ASSUME FlagsAssumption == MidsReused \in BOOLEAN /\ AttachMayFail \in BOOLEAN

ASSUME PlansAssumption ==
    Plans \subseteq Seq([scenario : {"API1", "API2"}, turn : Nat \ {0}])

ASSUME NumbersAssumption ==
    /\ Rates \subseteq Nat \ {0} /\ Durations \subseteq Nat
    /\ Minute \in Nat \ {0} /\ MaxCommands \in Nat

VARIABLES
    unsent, inbox, worker, ih, lock, tu, running, wire, answers, stat,
    plan, loaded, queue, property, gen, perMinute, now, console, issued, run, burst,
    flagged,
    quota      \* auxiliary: load commands the runs begun so far may submit

Engine == INSTANCE LoadSession
Control == INSTANCE LoadGenerator

engineVars == <<unsent, inbox, worker, ih, lock, tu, running, wire, answers, stat>>

controlVars == <<plan, loaded, queue, property, gen, perMinute, now, console, issued, run,
                 burst, flagged>>

vars == <<engineVars, controlVars, quota>>

Init == Engine!Init /\ Control!Init /\ ~perMinute /\ quota = 0

-----------------------------------------------------------------------------
\* The next load command, in the hands of InterfaceHub::ExecThread.
ExecThread ==
    \E c \in unsent : (\A d \in unsent : c <= d) /\ Engine!Submit(c)

GeneratorSubmits == Control!SendCommand /\ ExecThread /\ UNCHANGED quota

ConsoleSubmits ==
    \E k \in Consoles : Control!UnitTest(k) /\ ExecThread /\ quota' = quota + 1

\* A START with a DURATION may submit its rate that many times, one without it
\* all there is.
Allowance(ctrl) ==
    IF ctrl.cmd # "START" THEN 0
    ELSE IF ctrl.option = 0 THEN MaxLoad ELSE ctrl.cps * ctrl.option

TakeControl ==
    /\ Control!TakeControl
    /\ quota' = quota + Allowance(Head(queue))
    /\ UNCHANGED engineVars

\* The generator's other steps, those a tick takes whatever the consoles do.
Tick ==
    /\ \/ Control!Wake \/ Control!CarryOn \/ Control!Pass \/ Control!NothingToSend
       \/ Control!BeginBurst \/ Control!EndBurst
    /\ UNCHANGED <<engineVars, quota>>

Clock == Control!Clock /\ UNCHANGED <<engineVars, quota>>

\* The plan and TR_PER_MINUTE are set before the run (LoadGenerator on its own
\* has them changed at any time).
Operate ==
    /\ \E k \in Consoles :
         \/ \E rate \in Rates, option \in Durations : Control!StartCopiesPlan(k, rate, option)
         \/ Control!StartQueued(k)
         \/ Control!StopQueued(k)
    /\ UNCHANGED <<engineVars, quota>>

Network ==
    /\ \E x \in wire : Engine!Respond(x) \/ Engine!Lose(x)
    /\ UNCHANGED <<controlVars, quota>>

Timer == Engine!TimerThread /\ UNCHANGED <<controlVars, quota>>

Work(w) == Engine!Work(w) /\ UNCHANGED <<controlVars, quota>>

Generator == GeneratorSubmits \/ TakeControl \/ Tick

Next ==
    \/ Generator \/ Clock \/ Operate \/ ConsoleSubmits
    \/ Network \/ Timer \/ \E w \in Workers : Work(w)

\* The generator's thread, the threads of the pool, the timer thread and the
\* clock go on; nobody has to give a command, and no server has to answer.
Fairness ==
    /\ WF_vars(Generator)
    /\ WF_vars(Clock)
    /\ WF_vars(Timer)
    /\ \A w \in Workers : WF_vars(Work(w))

Spec == Init /\ [][Next]_vars /\ Fairness

-----------------------------------------------------------------------------
(* Correctness. *)

\* However the consoles cut into each other's runs, no more requests leave than
\* the timed runs that were begun and the single tests add up to.
QuotaKept == stat.sent <= quota

Stopped == property.cmd = "STOP" /\ gen.pc # "burst"

AtRest ==
    /\ inbox = {} /\ running = {}
    /\ \A w \in Workers : worker[w] = Engine!WorkerIdle
    /\ \A o \in Slots : ih[o] = Engine!IhIdle /\ tu[o] = Engine!TuIdle

\* CANC-LOAD-GEN, or the end of a timed run, is the end of the load: once the
\* generator has stopped for good the sessions it opened all end and both pools
\* are full again, whether or not any server answers.
StopDrains == <>[]Stopped => <>[]AtRest

=============================================================================
