---------------------------- MODULE LoadGenerator ----------------------------
(***************************************************************************)
(* ih::LoadGenerator (main/load_generator.cpp): the thread that turns a     *)
(* load plan into load commands, once a second, under the control of the    *)
(* command line (act_load_gen, chg_load_gen, canc_load_gen of               *)
(* main/cli.cpp).                                                           *)
(*                                                                         *)
(* Commands reach the thread through a queue of which it takes one entry a  *)
(* second; the plan does not travel in the queue.  Giving START is two      *)
(* critical sections (copy the plan, queue the command).  A tick of the     *)
(* generator sees a new second, takes a command and, if it is to send, walks *)
(* through the plan under load_test_lock_, one load command per step.  All   *)
(* these steps interleave.                                                  *)
(***************************************************************************)
EXTENDS Integers, Sequences, FiniteSets

CONSTANTS
    Consoles,    \* command line sessions
    Plans,       \* the plans CHG-LOAD-GEN may set
    Rates,       \* values of TPS
    Durations,   \* values of DURATION; 0 is "no DURATION given"
    Minute,      \* seconds in a minute (60 in the code)
    MaxTime,     \* bound: the clock stops there
    MaxCommands, \* bound: commands given on the consoles
    None         \* no value

ASSUME MinuteAssumption == Minute \in Nat \ {0}

ASSUME RatesAssumption == Rates \subseteq Nat \ {0}

ASSUME DurationsAssumption == Durations \subseteq Nat

ASSUME MaxCommandsAssumption == MaxCommands \in Nat

Scenarios == {"API1", "API2"}

\* ParseLoadScenario drops entries with an unknown scenario or a zero turn.
ASSUME PlansAssumption == Plans \subseteq Seq([scenario : Scenarios, turn : Nat \ {0}])

VARIABLES
    plan,      \* Property::load_scenario_list_, what CHG-LOAD-GEN set
    loaded,    \* LoadGenerator::load_scenario_list_, what START copied
    queue,     \* next_control_commands_
    property,  \* current_loadcmd_, cps_, trun_count_, start_time_, stop_time_
    gen,       \* the thread: pc, its locals, prev_time and prev_min
    perMinute, \* test flag TR_PER_MINUTE
    now,       \* time(NULL)
    console,   \* [Consoles -> the control a START still has to queue]
    issued,    \* commands given so far
    run,       \* auxiliary: DURATION of the current run, bursts it has sent
    burst,     \* auxiliary: the last burst
    flagged    \* auxiliary: minute of the last burst sent under the flag

vars == <<plan, loaded, queue, property, gen, perMinute, now, console, issued,
          run, burst, flagged>>

-----------------------------------------------------------------------------
(* The turns of the plan (load_generator.cpp:198-213). *)

\* The plan entry being served, and the turns it has left.
Visit(list, i) == [entry |-> i, left |-> list[i].turn]

NextEntry(list, i) == IF i = Len(list) THEN 1 ELSE i + 1

\* Mutation: an entry is left one turn too late.
AdvanceLate(list, v) ==
    IF v.left < 0 THEN Visit(list, NextEntry(list, v.entry)) ELSE [v EXCEPT !.left = @ - 1]

\* One iteration of the loop: a new entry is not charged for its first turn.
Advance(list, v) ==
    IF v.left = 0 THEN Visit(list, NextEntry(list, v.entry)) ELSE [v EXCEPT !.left = @ - 1]

\* The rate the plan adds up to.
PlannedRate(list) ==
    LET total[i \in 0..Len(list)] == IF i = 0 THEN 0 ELSE total[i - 1] + list[i].turn
    IN  total[Len(list)]

-----------------------------------------------------------------------------
\* "by" is auxiliary: the console, or the generator itself, that queued it.
Control(cmd, rate, option, by) ==
    [cmd |-> cmd, cps |-> rate, option |-> option, by |-> by]

Init ==
    /\ plan \in Plans
    /\ loaded = <<>>
    /\ queue = <<>>
    /\ property = [cmd |-> "STOP", cps |-> 0, turns |-> 0, start |-> 0, stop |-> 0]
    /\ gen = [pc |-> "sleep", cmd |-> "NONE", cps |-> 0, prevTime |-> Minute, prevMin |-> 0,
              visit |-> None]
    /\ perMinute \in BOOLEAN
    /\ now = Minute
    /\ console = [k \in Consoles |-> None]
    /\ issued = 0
    /\ run = [duration |-> 0, bursts |-> 0]
    /\ burst = None
    /\ flagged = 0

-----------------------------------------------------------------------------
(* The command line. *)

Issue(k) ==
    /\ console[k] = None
    /\ issued < MaxCommands
    /\ issued' = issued + 1

\* CHG-LOAD-GEN: ParseLoadScenario, then SetLoadScenario unless it is empty.
ChangePlan(k, p) ==
    /\ Issue(k)
    /\ p # <<>>
    /\ plan' = p
    /\ UNCHANGED <<loaded, queue, property, gen, perMinute, now, console, run, burst, flagged>>

\* CHG-TST-CFG:TOGGLE:TR_PER_MINUTE.
TogglePerMinute(k) ==
    /\ Issue(k)
    /\ perMinute' = ~perMinute
    /\ UNCHANGED <<plan, loaded, queue, property, gen, now, console, run, burst, flagged>>

\* Mutation: the plan is copied without load_test_lock_.
StartCopiesUnlocked(k, rate, option) ==
    /\ Issue(k)
    /\ loaded' = plan
    /\ console' = [console EXCEPT ![k] = Control("START", rate, option, "console")]
    /\ UNCHANGED <<plan, queue, property, gen, perMinute, now, run, burst, flagged>>

\* ACT-LOAD-GEN:LONG, under load_test_lock_: the plan is copied at once, but
\* not while the generator holds the lock to walk through the plan.
StartCopiesPlan(k, rate, option) ==
    /\ Issue(k)
    /\ gen.pc # "burst"
    /\ loaded' = plan
    /\ console' = [console EXCEPT ![k] = Control("START", rate, option, "console")]
    /\ UNCHANGED <<plan, queue, property, gen, perMinute, now, run, burst, flagged>>

\* The second half of START, under load_property_.lock_.
StartQueued(k) ==
    /\ console[k] # None
    /\ queue' = Append(queue, console[k])
    /\ console' = [console EXCEPT ![k] = None]
    /\ UNCHANGED <<plan, loaded, property, gen, perMinute, now, issued, run, burst, flagged>>

\* CANC-LOAD-GEN.
StopQueued(k) ==
    /\ Issue(k)
    /\ queue' = Append(queue, Control("STOP", 0, 0, "console"))
    /\ UNCHANGED <<plan, loaded, property, gen, perMinute, now, console, run, burst, flagged>>

\* ACT-LOAD-GEN:ONCE: the console submits one load command itself.
UnitTest(k) ==
    /\ Issue(k)
    /\ UNCHANGED <<plan, loaded, queue, property, gen, perMinute, now, console, run,
                   burst, flagged>>

-----------------------------------------------------------------------------
(* The generator thread. *)

Clock ==
    /\ now < MaxTime
    /\ now' = now + 1
    /\ UNCHANGED <<plan, loaded, queue, property, gen, perMinute, console, issued,
                   run, burst, flagged>>

\* Mutation: STOP does not record its time.
ApplyStopUntimed(ctrl) ==
    property' = IF ctrl.cmd = "START"
                THEN [cmd |-> "START", cps |-> ctrl.cps, turns |-> ctrl.option,
                      start |-> now, stop |-> 0]
                ELSE [property EXCEPT !.cmd = "STOP"]

\* What CheckCommand does to the property with the control it took.
Apply(ctrl) ==
    property' = IF ctrl.cmd = "START"
                THEN [cmd |-> "START", cps |-> ctrl.cps, turns |-> ctrl.option,
                      start |-> now, stop |-> 0]
                ELSE [property EXCEPT !.cmd = "STOP", !.stop = now]

\* A second the thread has not seen.  CheckCommand reads the clock again.
Wake ==
    /\ gen.pc = "sleep"
    /\ gen.prevTime # now
    /\ gen' = [gen EXCEPT !.pc = "check", !.prevTime = now]
    /\ UNCHANGED <<plan, loaded, queue, property, perMinute, now, console, issued,
                   run, burst, flagged>>

ActOn(cmd, rate) ==
    /\ gen.pc = "check"
    /\ gen' = [gen EXCEPT !.pc = "act", !.cmd = cmd, !.cps = rate]

\* CheckCommand takes one control, the oldest.
TakeControl ==
    LET ctrl == Head(queue) IN
    /\ queue # <<>>
    /\ ActOn(ctrl.cmd, ctrl.cps)
    /\ queue' = Tail(queue)
    /\ Apply(ctrl)
    /\ run' = IF ctrl.cmd = "START" THEN [duration |-> ctrl.option, bursts |-> 0] ELSE run
    /\ UNCHANGED <<plan, loaded, perMinute, now, console, issued, burst, flagged>>

\* CheckCommand finds no control and goes on with the current command.
CarryOn ==
    /\ queue = <<>>
    /\ ActOn(property.cmd, property.cps)
    /\ UNCHANGED <<plan, loaded, queue, property, perMinute, now, console, issued,
                   run, burst, flagged>>

MinuteOf(t) == t - (t % Minute)

\* TR_PER_MINUTE: this minute has had its tick.
Gated == perMinute /\ gen.prevMin = MinuteOf(gen.prevTime)

\* Mutation: prev_min is never recorded.
MinuteForgotten == gen.prevMin

\* The flag is read once a tick, and the minute kept only while it is on.
MinuteSeen == IF perMinute THEN MinuteOf(gen.prevTime) ELSE gen.prevMin

Pass ==
    /\ gen.pc = "act"
    /\ Gated \/ gen.cmd = "STOP"
    /\ gen' = [gen EXCEPT !.pc = "sleep", !.prevMin = MinuteSeen]
    /\ UNCHANGED <<plan, loaded, queue, property, perMinute, now, console, issued,
                   run, burst, flagged>>

Sends == gen.pc = "act" /\ gen.cmd = "START" /\ ~Gated

OwnStop == Control("STOP", 0, 0, "generator")

\* START with no plan: the generator tells itself to stop.
NothingToSend ==
    /\ Sends
    /\ loaded = <<>>
    /\ queue' = Append(queue, OwnStop)
    /\ gen' = [gen EXCEPT !.pc = "sleep", !.prevMin = MinuteSeen]
    /\ UNCHANGED <<plan, loaded, property, perMinute, now, console, issued,
                   run, burst, flagged>>

\* load_test_lock_ is taken and the walk begins at the first entry.
BeginBurst ==
    /\ Sends
    /\ loaded # <<>>
    /\ gen' = [gen EXCEPT !.pc = "burst", !.prevMin = MinuteSeen, !.visit = Visit(loaded, 1)]
    /\ burst' = [plan |-> loaded, cps |-> gen.cps, shares |-> [i \in DOMAIN loaded |-> 0]]
    /\ run' = [run EXCEPT !.bursts = @ + 1]
    /\ flagged' = IF perMinute THEN MinuteOf(gen.prevTime) ELSE flagged
    /\ UNCHANGED <<plan, loaded, queue, property, perMinute, now, console, issued>>

\* One load command, for the entry the walk has come to.
SendCommand ==
    LET visit == Advance(loaded, gen.visit) IN
    /\ gen.pc = "burst"
    /\ gen.cps # 0
    /\ gen' = [gen EXCEPT !.cps = @ - 1, !.visit = visit]
    /\ burst' = [burst EXCEPT !.shares[visit.entry] = @ + 1]
    /\ UNCHANGED <<plan, loaded, queue, property, perMinute, now, console, issued,
                   run, flagged>>

\* Mutation: the end of a timed run is not queued.
QueueAfterBurstEndless == queue

\* trun_count_ counts down; when it reaches zero a STOP goes to the back.
QueueAfterBurst == IF property.turns = 1 THEN Append(queue, OwnStop) ELSE queue

\* Mutation: the count is decremented without the test for zero.
TurnsAfterBurstUnguarded == property.turns - 1

TurnsAfterBurst == IF property.turns = 0 THEN 0 ELSE property.turns - 1

EndBurst ==
    /\ gen.pc = "burst"
    /\ gen.cps = 0
    /\ property' = [property EXCEPT !.turns = TurnsAfterBurst]
    /\ queue' = QueueAfterBurst
    /\ gen' = [gen EXCEPT !.pc = "sleep", !.visit = None]
    /\ UNCHANGED <<plan, loaded, perMinute, now, console, issued, run, burst, flagged>>

-----------------------------------------------------------------------------
Operator(k) ==
    \/ \E p \in Plans : ChangePlan(k, p)
    \/ TogglePerMinute(k)
    \/ \E rate \in Rates, option \in Durations : StartCopiesPlan(k, rate, option)
    \/ StartQueued(k)
    \/ StopQueued(k)
    \/ UnitTest(k)

Burst == BeginBurst \/ SendCommand \/ EndBurst

Generator == Wake \/ TakeControl \/ CarryOn \/ Pass \/ NothingToSend \/ Burst

Next == Clock \/ Generator \/ \E k \in Consoles : Operator(k)

Spec == Init /\ [][Next]_vars

-----------------------------------------------------------------------------
(* Correctness. *)

Controls == [cmd : {"START", "STOP"}, cps : Nat, option : Nat, by : {"console", "generator"}]

TypeOK ==
    /\ plan \in Plans
    /\ loaded \in Plans \cup {<<>>}
    /\ queue \in Seq(Controls)
    /\ property \in [cmd : {"START", "STOP"}, cps : Nat, turns : Nat, start : Nat, stop : Nat]
    /\ gen \in [pc : {"sleep", "check", "act", "burst"}, cmd : {"NONE", "START", "STOP"},
                cps : Nat, prevTime : Nat, prevMin : Nat,
                visit : [entry : Nat, left : Nat] \cup {None}]
    /\ perMinute \in BOOLEAN
    /\ now \in Nat
    /\ console \in [Consoles -> Controls \cup {None}]
    /\ issued \in 0..MaxCommands
    /\ run \in [duration : Nat, bursts : Nat]
    /\ flagged \in Nat

\* A run started with a DURATION sends at most that many bursts, although its
\* end is only one more command in the queue and the count, once at zero, means
\* "unlimited" (load_generator.cpp:225-233).
TimedRunBounded ==
    property.cmd = "START" /\ run.duration # 0 => run.bursts <= run.duration

\* "매분마다 1번씩만 실행" (load_generator.cpp:168): under TR_PER_MINUTE two
\* bursts never fall into one minute, whatever is toggled or restarted between.
OncePerMinute ==
    [][run'.bursts > run.bursts /\ perMinute => MinuteOf(gen.prevTime) # flagged]_vars

\* GetStatus (load_generator.cpp:252-263).
Status ==
    IF property.start # 0 /\ property.start > property.stop THEN "started"
    ELSE IF property.stop # 0 /\ property.start <= property.stop THEN "stopped"
    ELSE "idle"

\* The status the console shows, computed from two times, agrees with the
\* command the generator is executing, with a clock that never steps back.
StatusTruthful == Status = "started" <=> property.cmd = "START"

\* A burst the plan has room for gives no entry more than the plan asks, with
\* the two entries the help text shows (cli.cpp:782): the walk stays on the plan
\* it began with, whatever plans the consoles set and start meanwhile.
TwoEntrySharesHonoured ==
    burst # None /\ Len(burst.plan) <= 2 /\ burst.cps <= PlannedRate(burst.plan)
    => \A i \in DOMAIN burst.plan : burst.shares[i] <= burst.plan[i].turn

\* PLAN="<SCRIPT> <TPS>[,<SCRIPT> <TPS>]" (cli.cpp:782): run at the rate the
\* plan adds up to, every entry has got the rate the plan gives it by the end.
PlanHonoured ==
    burst # None /\ gen.pc # "burst" /\ burst.cps = PlannedRate(burst.plan)
    => \A i \in DOMAIN burst.plan : burst.shares[i] = burst.plan[i].turn

\* ACT-LOAD-GEN:LONG:TPS=10 runs "unlimited" (cli.cpp:755-756): a run without
\* DURATION, with a plan to send, is ended from the console only.
UnlimitedRunsOn ==
    [][property.cmd = "START" /\ run.duration = 0 /\ loaded # <<>> /\ property'.cmd = "STOP"
       => Head(queue).by = "console"]_vars

=============================================================================
