---------------------------- MODULE StartupProofs ----------------------------
(***************************************************************************)
(* Theorems about Startup: whom the pid file names, what it may be left     *)
(* behind by, and that the control script tells the truth, for any number   *)
(* of processes, operators, crashes and tries.                              *)
(***************************************************************************)
EXTENDS Startup, TLAPS

Leaving == {"terminating", "removed"}

Ended == {"dead", "foreign"}

\* A process listens from Bind to its end.
PortHeld == \A p \in Pids : stage[p] \in {"console", "hub", "removed"} \cup Up => port = p

\* The pid file is that of a process that is up, or was left behind.
FileKnown ==
    /\ \A p \in Pids : stage[p] = "removed" => pidFile = None
    /\ pidFile # None => stage[pidFile] \in Up \cup Ended
    /\ pidFile # None /\ stage[pidFile] \in Ended => pidFile \in abrupt

\* The pids a script knows are of processes that were up; one it has killed is
\* gone or on its way out, and is then the one it still looks at.
ScriptKnows(o) ==
    /\ ctl[o].pid # None => stage[ctl[o].pid] \in Up \cup Leaving \cup Ended
    /\ ctl[o].pc = "kill" => ctl[o].pid # None
    /\ ctl[o].pc = "stopPoll" =>
         /\ ctl[o].target # None
         /\ stage[ctl[o].target] \in Leaving \cup Ended
         /\ stage[ctl[o].target] \in Leaving => ctl[o].pid = ctl[o].target
    /\ ctl[o].pc # "done" => ctl[o].result = None
    /\ ctl[o].result = "stopped" => ctl[o].target # None /\ stage[ctl[o].target] \in Ended

ProcessInv == TypeOK /\ PortHeld /\ PidFileNamesServer /\ FileKnown

ScriptInv == \A o \in Operators : ScriptKnows(o)

Inv == ProcessInv /\ ScriptInv

-----------------------------------------------------------------------------
\* What the life of processes never undoes.
StagesForward ==
    \A p \in Pids :
        /\ stage[p] \in Up \cup Leaving \cup Ended => stage'[p] \in Up \cup Leaving \cup Ended
        /\ stage[p] \in Ended => stage'[p] \in Ended
        /\ stage[p] \in Leaving => stage'[p] \in Leaving \cup Ended

\* Processes that move on leave the scripts' knowledge true.
LEMMA ScriptKept ==
  ASSUME TypeOK, NEW o \in Operators, ScriptKnows(o), StagesForward, ctl'[o] = ctl[o]
  PROVE  ScriptKnows(o)'
<1>1. ctl[o].pid \in Pids \cup {None} /\ ctl[o].target \in Pids \cup {None}
  BY DEF TypeOK, Scripts
<1> QED
  BY <1>1 DEF ScriptKnows, StagesForward, Leaving, Ended

LEMMA InitInv == Init => Inv
<1> SUFFICES ASSUME Init PROVE Inv
  OBVIOUS
<1> USE NoneAssumption, BoundsAssumption DEF Init, Stages, Ours, Coming, Up, Leaving, Ended
<1>1. ScriptIdle \in Scripts
  BY DEF ScriptIdle, Scripts
<1>2. TypeOK
  BY <1>1 DEF TypeOK
<1>3. PortHeld /\ PidFileNamesServer /\ FileKnown
  BY DEF PortHeld, PidFileNamesServer, FileKnown
<1>4. ASSUME NEW o \in Operators PROVE ScriptKnows(o)
  <2>1. ctl[o] = ScriptIdle
    OBVIOUS
  <2>2. /\ ctl[o].pid = None /\ ctl[o].pc = "idle" /\ ctl[o].result = None
    BY <2>1 DEF ScriptIdle
  <2>3. None # "stopped"
    BY DEF Results
  <2> QED
    BY <2>2, <2>3 DEF ScriptKnows
<1> QED
  BY <1>2, <1>3, <1>4 DEF Inv, ProcessInv, ScriptInv

-----------------------------------------------------------------------------
(* The process. *)

LEMMA GoneKeeps ==
  ASSUME ProcessInv, NEW p \in Pids, Gone(p), stage[p] # "unused",
         abrupt' \in SUBSET Pids, abrupt \subseteq abrupt',
         pidFile' = pidFile, ctl' \in [Operators -> Scripts], commands' = commands, crashes' \in 0..MaxCrashes,
         stage[p] \in Up => p \in abrupt'
  PROVE  ProcessInv' /\ StagesForward
<1> USE NoneAssumption DEF ProcessInv, Gone, Stages, Ours, Coming, Up, Leaving, Ended
<1>1. TypeOK'
  BY DEF TypeOK
<1>2. PortHeld' /\ PidFileNamesServer'
  BY DEF TypeOK, PortHeld, PidFileNamesServer
<1>3. FileKnown'
  BY DEF TypeOK, FileKnown
<1>4. StagesForward
  BY DEF TypeOK, StagesForward
<1> QED
  BY <1>1, <1>2, <1>3, <1>4

\* SIGTERM, whoever sends it.
LEMMA TerminateKeeps ==
  ASSUME ProcessInv, NEW p \in Pids, Terminate(p), ctl' \in [Operators -> Scripts],
         UNCHANGED <<pidFile, commands, crashes>>
  PROVE  /\ ProcessInv' /\ StagesForward
         /\ stage[p] # "unused" /\ stage[p] \notin Coming => stage'[p] \in Leaving \cup Ended
<1> USE NoneAssumption DEF ProcessInv, Stages, Ours, Coming, Up, Leaving, Ended
<1>1. CASE stage[p] = "serving"
  <2> USE <1>1 DEF Terminate
  <2>1. TypeOK'
    BY DEF TypeOK
  <2>2. PortHeld' /\ PidFileNamesServer' /\ FileKnown'
    BY DEF TypeOK, PortHeld, PidFileNamesServer, FileKnown
  <2>3. StagesForward
    BY DEF TypeOK, StagesForward
  <2> QED
    BY <2>1, <2>2, <2>3 DEF TypeOK
<1>2. CASE stage[p] \in Coming \cup {"filed", "foreign"}
  <2>1. Gone(p) /\ abrupt' = abrupt \cup {p}
    BY <1>2 DEF Terminate
  <2>2. ProcessInv' /\ StagesForward
    BY <1>2, <2>1, GoneKeeps DEF TypeOK
  <2> QED
    BY <2>1, <2>2 DEF Gone, TypeOK
<1>3. CASE stage[p] \in {"terminating", "removed", "dead", "unused"}
  <2> USE <1>3 DEF Terminate
  <2>1. UNCHANGED <<stage, port, abrupt>>
    OBVIOUS
  <2> QED
    BY <2>1 DEF TypeOK, PortHeld, PidFileNamesServer, FileKnown, StagesForward
<1> QED
  BY <1>1, <1>2, <1>3 DEF TypeOK

\* A process that moves from one stage to the next, with the port or the file.
LEMMA MainKeeps ==
  ASSUME ProcessInv, NEW p \in Pids, Main(p) \/ Crash(p) \/ Reuse(p)
  PROVE  ProcessInv' /\ StagesForward /\ ctl' = ctl
<1> USE NoneAssumption, BoundsAssumption DEF Stages, Ours, Coming, Up, Leaving, Ended
<1>1. CASE OpenConsole(p)
  <2>1. CASE port = None
    <3> USE <1>1, <2>1 DEF ProcessInv, OpenConsole, Bind
    <3>1. TypeOK'
      BY DEF TypeOK
    <3>2. PortHeld' /\ PidFileNamesServer' /\ FileKnown'
      BY DEF TypeOK, PortHeld, PidFileNamesServer, FileKnown
    <3>3. StagesForward /\ ctl' = ctl
      BY DEF TypeOK, StagesForward
    <3> QED
      BY <3>1, <3>2, <3>3
  <2>2. CASE port # None
    BY <1>1, <2>2, GoneKeeps DEF OpenConsole, Bind, ProcessInv, TypeOK
  <2> QED
    BY <2>1, <2>2
<1>2. CASE FailToStart(p)
  BY <1>2, GoneKeeps DEF FailToStart, ProcessInv, TypeOK
<1>3. CASE OnceTooEarly(p)
  BY <1>3, GoneKeeps DEF OnceTooEarly, ProcessInv, TypeOK
<1>4. CASE StartHub(p) \/ SetHandlers(p)
  <2> USE <1>4 DEF ProcessInv, StartHub, SetHandlers
  <2>1. TypeOK'
    BY DEF TypeOK
  <2>2. PortHeld' /\ PidFileNamesServer' /\ FileKnown'
    BY DEF TypeOK, PortHeld, PidFileNamesServer, FileKnown
  <2>3. StagesForward /\ ctl' = ctl
    BY DEF TypeOK, StagesForward
  <2> QED
    BY <2>1, <2>2, <2>3
<1>5. CASE CreatePidFile(p)
  <2> USE <1>5 DEF ProcessInv, CreatePidFile
  <2>1. TypeOK'
    BY DEF TypeOK
  <2>2. PortHeld' /\ PidFileNamesServer' /\ FileKnown'
    BY DEF TypeOK, PortHeld, PidFileNamesServer, FileKnown
  <2>3. StagesForward /\ ctl' = ctl
    BY DEF TypeOK, StagesForward
  <2> QED
    BY <2>1, <2>2, <2>3
<1>6. CASE DeletePidFile(p)
  <2> USE <1>6 DEF ProcessInv, DeletePidFile
  <2>1. TypeOK'
    BY DEF TypeOK
  <2>2. PortHeld' /\ PidFileNamesServer' /\ FileKnown'
    BY DEF TypeOK, PortHeld, PidFileNamesServer, FileKnown
  <2>3. StagesForward /\ ctl' = ctl
    BY DEF TypeOK, StagesForward
  <2> QED
    BY <2>1, <2>2, <2>3
<1>7. CASE Exit(p)
  BY <1>7, GoneKeeps DEF Exit, ProcessInv, TypeOK
<1>8. CASE Shutdown(p)
  BY <1>8, TerminateKeeps DEF Shutdown, ProcessInv, TypeOK
<1>9. CASE Crash(p)
  <2>1. crashes' \in 0..MaxCrashes
    BY <1>9 DEF Crash, ProcessInv, TypeOK
  <2> QED
    BY <1>9, <2>1, GoneKeeps DEF Crash, ProcessInv, TypeOK
<1>10. CASE Reuse(p)
  <2> USE <1>10 DEF ProcessInv, Reuse
  <2>1. TypeOK'
    BY DEF TypeOK
  <2>2. PortHeld' /\ PidFileNamesServer' /\ FileKnown'
    BY DEF TypeOK, PortHeld, PidFileNamesServer, FileKnown
  <2>3. StagesForward /\ ctl' = ctl
    BY DEF TypeOK, StagesForward
  <2> QED
    BY <2>1, <2>2, <2>3
<1> QED
  BY <1>1, <1>2, <1>3, <1>4, <1>5, <1>6, <1>7, <1>8, <1>9, <1>10 DEF Main

-----------------------------------------------------------------------------
(* The control script. *)

\* The process the script looks at was up once, and, while one that was sent
\* SIGTERM is on its way out, it is that one.
LEMMA CurrentKnown ==
  ASSUME ProcessInv, NEW o \in Operators, ScriptKnows(o)
  PROVE  /\ Current(o) \in Pids \cup {None}
         /\ Current(o) # None => stage[Current(o)] \in Up \cup Leaving \cup Ended
         /\ ctl[o].pc = "stopPoll" /\ stage[ctl[o].target] \in Leaving =>
              Current(o) = ctl[o].target
<1>1. ctl[o].pid \in Pids \cup {None} /\ ctl[o].target \in Pids \cup {None}
  BY DEF ProcessInv, TypeOK, Scripts
<1>2. Current(o) \in Pids \cup {None}
  BY <1>1 DEF Current, ProcessInv, TypeOK
<1>3. Current(o) # None => stage[Current(o)] \in Up \cup Leaving \cup Ended
  BY DEF Current, ProcessInv, FileKnown, ScriptKnows
<1>4. ASSUME ctl[o].pc = "stopPoll", stage[ctl[o].target] \in Leaving
      PROVE  Current(o) = ctl[o].target
  <2>1. ctl[o].target \in Pids /\ ctl[o].pid = ctl[o].target
    BY <1>1, <1>4 DEF ScriptKnows
  <2>2. CASE stage[ctl[o].target] = "terminating"
    BY <2>1, <2>2 DEF Current, ProcessInv, PidFileNamesServer, Up
  <2>3. CASE stage[ctl[o].target] = "removed"
    BY <2>1, <2>3 DEF Current, ProcessInv, FileKnown
  <2> QED
    BY <1>4, <2>2, <2>3 DEF Leaving
<1> QED
  BY <1>2, <1>3, <1>4

\* A step of one script that moves no process.
LEMMA ScriptMoves ==
  ASSUME Inv, NEW o \in Operators, NEW s \in Scripts, ctl' = [ctl EXCEPT ![o] = s],
         UNCHANGED <<stage, port, pidFile, crashes, abrupt>>, commands' \in 0..MaxCommands,
         ScriptKnows(o)'
  PROVE  Inv'
<1> USE DEF Inv, ProcessInv
<1>1. TypeOK' /\ StagesForward
  BY DEF TypeOK, StagesForward
<1>2. PortHeld' /\ PidFileNamesServer' /\ FileKnown'
  BY DEF PortHeld, PidFileNamesServer, FileKnown
<1>3. ASSUME NEW q \in Operators, q # o PROVE ScriptKnows(q)'
  <2>1. ctl'[q] = ctl[q]
    BY <1>3 DEF TypeOK
  <2> QED
    BY <1>1, <2>1, ScriptKept DEF ScriptInv
<1> QED
  BY <1>1, <1>2, <1>3 DEF ScriptInv

LEMMA CommandKeeps ==
  ASSUME Inv, NEW o \in Operators, NEW cmd \in {"start", "stop"}, Command(o, cmd)
  PROVE  Inv'
<1> DEFINE s == [ScriptIdle EXCEPT !.pc = cmd, !.cmd = cmd]
<1>1. /\ s \in Scripts
      /\ s.pc = cmd /\ s.pid = None /\ s.target = None /\ s.result = None
  BY DEF ScriptIdle, Scripts
<1>2. ctl' = [ctl EXCEPT ![o] = s] /\ ctl'[o] = s
  BY DEF Command, Inv, ProcessInv, TypeOK
<1>3. commands' \in 0..MaxCommands
  BY BoundsAssumption DEF Command, Inv, ProcessInv, TypeOK
<1> HIDE DEF s
<1>4. ScriptKnows(o)'
  BY <1>1, <1>2, NoneAssumption DEF ScriptKnows, Results
<1> QED
  BY <1>1, <1>2, <1>3, <1>4, ScriptMoves DEF Command

\* The script knows no more of its process than before, and says nothing false of it.
LEMMA DecisionKeeps ==
  ASSUME Inv, NEW o \in Operators, NEW s \in Scripts, ctl' = [ctl EXCEPT ![o] = s],
         UNCHANGED <<stage, port, pidFile, commands, crashes, abrupt>>,
         s.pid = ctl[o].pid, s.target = ctl[o].target,
         s.pc = "kill" => Running(o),
         s.pc = "stopPoll" => ctl[o].pc = "stopPoll",
         s.pc # "done" => s.result = None,
         s.result = "stopped" => ctl[o].pc = "stopPoll" /\ ~Running(o)
  PROVE  Inv'
<1>1. ScriptKnows(o) /\ ctl'[o] = s
  BY DEF Inv, ProcessInv, ScriptInv, TypeOK
<1>2. s.result = "stopped" => s.target # None /\ stage[s.target] \in Ended
  BY <1>1 DEF ScriptKnows, Running, Alive, Leaving, Ours, Up
<1>3. Running(o) => ctl[o].pid # None
  BY DEF Running
<1>4. ScriptKnows(o)'
  BY <1>1, <1>2, <1>3 DEF ScriptKnows
<1>5. commands' \in 0..MaxCommands
  BY DEF Inv, ProcessInv, TypeOK
<1> QED
  BY <1>4, <1>5, ScriptMoves

LEMMA SayKeeps ==
  ASSUME Inv, NEW o \in Operators, NEW result \in Results, Say(o, result),
         result = "stopped" => ctl[o].pc = "stopPoll" /\ ~Running(o),
         UNCHANGED <<stage, port, pidFile, commands, crashes, abrupt>>
  PROVE  Inv'
<1> DEFINE s == [ctl[o] EXCEPT !.pc = "done", !.looked = FALSE, !.running = FALSE,
                               !.tries = 0, !.result = result]
<1>1. ctl[o] \in Scripts
  BY DEF Inv, ProcessInv, TypeOK
<1>2. /\ s \in Scripts
      /\ s.pc = "done" /\ s.pid = ctl[o].pid /\ s.target = ctl[o].target /\ s.result = result
  BY <1>1 DEF Scripts
<1>3. ctl' = [ctl EXCEPT ![o] = s]
  BY DEF Say, Inv, ProcessInv, TypeOK
<1> HIDE DEF s
<1> QED
  BY <1>2, <1>3, DecisionKeeps

\* The file is read again: while the target of a stop is on its way out, the script
\* goes on looking at it, whether the file is still there or not.
LEMMA LookKeeps == ASSUME Inv, NEW o \in Operators, Look(o) PROVE Inv'
<1> DEFINE s == [ctl[o] EXCEPT !.pid = Current(o), !.looked = TRUE]
<1>1. ScriptKnows(o) /\ ctl[o] \in Scripts
  BY DEF Inv, ProcessInv, ScriptInv, TypeOK
<1>2. /\ Current(o) \in Pids \cup {None}
      /\ Current(o) # None => stage[Current(o)] \in Up \cup Leaving \cup Ended
      /\ ctl[o].pc = "stopPoll" /\ stage[ctl[o].target] \in Leaving =>
           Current(o) = ctl[o].target
  BY <1>1, CurrentKnown DEF Inv
<1>3. /\ s \in Scripts
      /\ s.pc = ctl[o].pc /\ s.pid = Current(o) /\ s.target = ctl[o].target
      /\ s.result = ctl[o].result /\ s.pc # "kill"
  BY <1>1, <1>2 DEF Look, Scripts
<1>4. ctl' = [ctl EXCEPT ![o] = s] /\ ctl'[o] = s
  BY DEF Look, Inv, ProcessInv, TypeOK
<1>5. UNCHANGED <<stage, port, pidFile, commands, crashes, abrupt>>
  BY DEF Look
<1> HIDE DEF s
<1>6. ScriptKnows(o)'
  BY <1>1, <1>2, <1>3, <1>4, <1>5 DEF ScriptKnows
<1>7. commands' \in 0..MaxCommands
  BY <1>5 DEF Inv, ProcessInv, TypeOK
<1> QED
  BY <1>3, <1>4, <1>5, <1>6, <1>7, ScriptMoves

LEMMA StartPollKeeps == ASSUME Inv, NEW o \in Operators, StartPoll(o) PROVE Inv'
<1>1. ctl[o] \in Scripts /\ ctl \in [Operators -> Scripts]
  BY DEF Inv, ProcessInv, TypeOK
<1>2. CASE Say(o, "started")
  BY <1>2, SayKeeps DEF StartPoll, Results
<1>3. CASE Say(o, "not started")
  BY <1>3, SayKeeps DEF StartPoll, Results
<1>4. CASE ctl[o].tries > 1 /\ ctl' = [ctl EXCEPT ![o].tries = @ - 1, ![o].looked = FALSE]
  <2> DEFINE s == [ctl[o] EXCEPT !.tries = @ - 1, !.looked = FALSE]
  <2>1. ctl[o].tries - 1 \in Nat /\ ctl[o].pc = "startPoll"
    <3>1. ctl[o].tries \in Nat
      BY <1>1 DEF Scripts
    <3>2. ctl[o].tries - 1 \in Nat
      BY <1>4, <3>1
    <3> QED
      BY <3>2 DEF StartPoll, LookedAt
  <2>2. /\ s \in Scripts /\ s.pid = ctl[o].pid /\ s.target = ctl[o].target
        /\ s.pc = "startPoll" /\ s.result = ctl[o].result
    BY <1>1, <2>1 DEF Scripts
  <2>3. s.result = None
    BY <2>1, <2>2 DEF Inv, ScriptInv, ScriptKnows
  <2>4. ctl' = [ctl EXCEPT ![o] = s]
    BY <1>1, <1>4
  <2>5. None # "stopped"
    BY NoneAssumption DEF Results
  <2> HIDE DEF s
  <2> QED
    BY <2>2, <2>3, <2>4, <2>5, DecisionKeeps DEF StartPoll
<1> QED
  BY <1>2, <1>3, <1>4 DEF StartPoll

LEMMA StopCheckKeeps == ASSUME Inv, NEW o \in Operators, StopCheck(o) PROVE Inv'
<1>1. ctl[o] \in Scripts /\ ctl \in [Operators -> Scripts]
  BY DEF Inv, ProcessInv, TypeOK
<1>2. CASE Say(o, "not running")
  BY <1>2, SayKeeps DEF StopCheck, Results
<1>3. CASE Running(o) /\ ctl' = [ctl EXCEPT ![o].pc = "kill", ![o].looked = FALSE]
  <2> DEFINE s == [ctl[o] EXCEPT !.pc = "kill", !.looked = FALSE]
  <2>1. /\ s \in Scripts /\ s.pid = ctl[o].pid /\ s.target = ctl[o].target
        /\ s.pc = "kill" /\ s.result = ctl[o].result
    BY <1>1 DEF Scripts
  <2>2. s.result = None
    BY <2>1 DEF StopCheck, LookedAt, Inv, ScriptInv, ScriptKnows
  <2>3. ctl' = [ctl EXCEPT ![o] = s]
    BY <1>1, <1>3
  <2>4. None # "stopped"
    BY NoneAssumption DEF Results
  <2> HIDE DEF s
  <2> QED
    BY <1>3, <2>1, <2>2, <2>3, <2>4, DecisionKeeps DEF StopCheck
<1> QED
  BY <1>2, <1>3 DEF StopCheck

LEMMA StopPollKeeps == ASSUME Inv, NEW o \in Operators, StopPoll(o) PROVE Inv'
<1> DEFINE s == [ctl[o] EXCEPT !.tries = @ - 1, !.looked = FALSE, !.running = Running(o)]
<1>1. ctl[o] \in Scripts /\ ctl \in [Operators -> Scripts]
  BY DEF Inv, ProcessInv, TypeOK
<1>2. Running(o) \in BOOLEAN /\ ctl[o].tries - 1 \in Nat /\ ctl[o].pc = "stopPoll"
  BY <1>1 DEF Running, Alive, StopPoll, LookedAt, Scripts
<1>3. /\ s \in Scripts /\ s.pid = ctl[o].pid /\ s.target = ctl[o].target
      /\ s.pc = "stopPoll" /\ s.result = ctl[o].result
  BY <1>1, <1>2 DEF Scripts
<1>4. s.result = None
  BY <1>2, <1>3 DEF Inv, ScriptInv, ScriptKnows
<1>5. ctl' = [ctl EXCEPT ![o] = s]
  BY <1>1 DEF StopPoll
<1>6. None # "stopped"
  BY NoneAssumption DEF Results
<1> HIDE DEF s
<1> QED
  BY <1>2, <1>3, <1>4, <1>5, <1>6, DecisionKeeps DEF StopPoll

\* A script sends SIGTERM to a process that was up, and goes on watching it.
LEMMA KillKeeps == ASSUME Inv, NEW o \in Operators, Kill(o) PROVE Inv'
<1> DEFINE p == ctl[o].pid
           s == [ctl[o] EXCEPT !.pc = "stopPoll", !.tries = StopTries, !.running = TRUE,
                               !.target = p]
<1>1. /\ ctl[o] \in Scripts /\ ctl \in [Operators -> Scripts]
      /\ ScriptKnows(o) /\ ctl[o].pc = "kill"
  BY DEF Kill, Inv, ProcessInv, ScriptInv, TypeOK
<1>2. /\ p \in Pids /\ p # None /\ ctl[o].result = None
      /\ stage[p] \in Up \cup Leaving \cup Ended
  BY <1>1 DEF ScriptKnows, Scripts
<1>3. /\ s \in Scripts
      /\ s.pc = "stopPoll" /\ s.pid = p /\ s.target = p /\ s.result = None
  BY <1>1, <1>2, TriesAssumption DEF Scripts
<1>4. ctl' = [ctl EXCEPT ![o] = s] /\ ctl'[o] = s /\ ctl' \in [Operators -> Scripts]
  BY <1>1, <1>3 DEF Kill
<1>5. stage[p] # "unused" /\ stage[p] \notin Coming
  BY <1>2 DEF Up, Leaving, Ended, Coming
<1>6. Terminate(p) /\ UNCHANGED <<pidFile, commands, crashes>>
  BY DEF Kill
<1> HIDE DEF p, s
<1>7. ProcessInv' /\ StagesForward /\ stage'[p] \in Leaving \cup Ended
  BY <1>2, <1>4, <1>5, <1>6, TerminateKeeps DEF Inv
<1>8. ScriptKnows(o)'
  BY <1>2, <1>3, <1>4, <1>7, NoneAssumption DEF ScriptKnows, Results
<1>9. ASSUME NEW q \in Operators, q # o PROVE ScriptKnows(q)'
  <2>1. ctl'[q] = ctl[q]
    BY <1>1, <1>4, <1>9
  <2> QED
    BY <1>7, <2>1, ScriptKept DEF Inv, ProcessInv, ScriptInv
<1> QED
  BY <1>7, <1>8, <1>9 DEF Inv, ScriptInv

LEMMA LaunchKeeps == ASSUME Inv, NEW o \in Operators, NEW p \in Pids, Launch(o, p) PROVE Inv'
<1> DEFINE s == [ctl[o] EXCEPT !.pc = "startPoll", !.looked = FALSE, !.tries = StartTries]
<1>1. /\ ctl[o] \in Scripts /\ ctl \in [Operators -> Scripts]
      /\ ScriptKnows(o) /\ ctl[o].pc = "start" /\ TypeOK
  BY DEF Launch, LookedAt, Inv, ProcessInv, ScriptInv, TypeOK
<1>2. ctl[o].pid \in Pids \cup {None}
  BY <1>1 DEF Scripts
<1>3. /\ s \in Scripts
      /\ s.pc = "startPoll" /\ s.pid = ctl[o].pid /\ s.result = ctl[o].result
  BY <1>1, TriesAssumption DEF Scripts
<1>4. ctl' = [ctl EXCEPT ![o] = s] /\ ctl'[o] = s /\ ctl' \in [Operators -> Scripts]
  BY <1>1, <1>3 DEF Launch
<1>5. /\ stage[p] = "unused" /\ stage' = [stage EXCEPT ![p] = "loading"]
      /\ UNCHANGED <<port, pidFile, commands, crashes, abrupt>>
  BY DEF Launch
<1> HIDE DEF s
<1> USE DEF Stages, Ours, Coming, Up, Leaving, Ended
<1>6. TypeOK' /\ StagesForward
  BY <1>1, <1>4, <1>5 DEF TypeOK, StagesForward
<1>7. PortHeld' /\ PidFileNamesServer' /\ FileKnown'
  BY <1>1, <1>5 DEF Inv, ProcessInv, TypeOK, PortHeld, PidFileNamesServer, FileKnown
<1>8. ScriptKnows(o)'
  BY <1>1, <1>2, <1>3, <1>4, <1>6, NoneAssumption DEF ScriptKnows, Results, StagesForward
<1>9. ASSUME NEW q \in Operators, q # o PROVE ScriptKnows(q)'
  <2>1. ctl'[q] = ctl[q]
    BY <1>1, <1>4, <1>9
  <2> QED
    BY <1>1, <1>6, <2>1, ScriptKept DEF Inv, ScriptInv
<1> QED
  BY <1>6, <1>7, <1>8, <1>9 DEF Inv, ProcessInv, ScriptInv

-----------------------------------------------------------------------------
LEMMA NextInv == Inv /\ [Next]_vars => Inv'
<1> SUFFICES ASSUME Inv, [Next]_vars PROVE Inv'
  OBVIOUS
<1>1. CASE \E p \in Pids : Main(p) \/ Crash(p) \/ Reuse(p)
  <2>1. ProcessInv' /\ StagesForward /\ ctl' = ctl
    BY <1>1, MainKeeps DEF Inv
  <2>2. ASSUME NEW o \in Operators PROVE ScriptKnows(o)'
    BY <2>1, ScriptKept DEF Inv, ProcessInv, ScriptInv
  <2> QED
    BY <2>1, <2>2 DEF Inv, ScriptInv
<1>2. ASSUME NEW o \in Operators, NEW cmd \in {"start", "stop"}, Command(o, cmd) PROVE Inv'
  BY <1>2, CommandKeeps
<1>3. ASSUME NEW o \in Operators, Script(o) PROVE Inv'
  <2>1. CASE StartRefused(o)
    BY <2>1, SayKeeps DEF StartRefused, Results
  <2>2. CASE \E p \in Pids : Launch(o, p)
    BY <2>2, LaunchKeeps
  <2>3. CASE StartPoll(o)
    BY <2>3, StartPollKeeps
  <2>4. CASE StopCheck(o)
    BY <2>4, StopCheckKeeps
  <2>5. CASE Kill(o)
    BY <2>5, KillKeeps
  <2>6. CASE StopPoll(o)
    BY <2>6, StopPollKeeps
  <2>7. CASE StopEnd(o)
    <3>1. CASE Running(o)
      BY <2>7, <3>1, SayKeeps DEF StopEnd, LookedAt, Results
    <3>2. CASE ~Running(o)
      BY <2>7, <3>2, SayKeeps DEF StopEnd, LookedAt, Results
    <3> QED
      BY <3>1, <3>2
  <2>8. CASE Look(o)
    BY <2>8, LookKeeps
  <2> QED
    BY <1>3, <2>1, <2>2, <2>3, <2>4, <2>5, <2>6, <2>7, <2>8 DEF Script
<1>4. CASE UNCHANGED vars
  BY <1>4 DEF vars, Inv, ProcessInv, ScriptInv, TypeOK, PortHeld, PidFileNamesServer, FileKnown,
              ScriptKnows, Current, Alive
<1> QED
  BY <1>1, <1>2, <1>3, <1>4 DEF Next

\* Every reachable state satisfies the invariant the theorems below rest on.
LEMMA InvHolds == Spec => []Inv
<1> QED
  BY InitInv, NextInv, PTL DEF Spec

-----------------------------------------------------------------------------
\* The stages, the port, the pid file and the scripts keep to their types, and
\* only a process that has bound the console's port holds it.
THEOREM TypeCorrect == Spec => []TypeOK
<1>1. Inv => TypeOK
  BY DEF Inv, ProcessInv
<1> QED
  BY <1>1, InvHolds, PTL

\* However many processes are brought up at once, and however they die, the pid
\* file names the one that serves or is being terminated (main, sig_core_handler).
THEOREM ServerNamed == Spec => []PidFileNamesServer
<1>1. Inv => PidFileNamesServer
  BY DEF Inv, ProcessInv
<1> QED
  BY <1>1, InvHolds, PTL

\* A pid file that names no process was left by one that died without its handler.
THEOREM StaleExplained == Spec => []StaleOnlyAfterCrash
<1>1. Inv => StaleOnlyAfterCrash
  BY DEF Inv, ProcessInv, FileKnown, StaleOnlyAfterCrash, Ended
<1> QED
  BY <1>1, InvHolds, PTL

\* "stopped" is the truth, although the file is deleted before the process ends:
\* the script keeps the pid it has read (stop_process, get_process_pid).
THEOREM StopTruthful == Spec => []StoppedIsGone
<1>1. Inv => StoppedIsGone
  BY DEF Inv, ScriptInv, ScriptKnows, StoppedIsGone, Ended
<1> QED
  BY <1>1, InvHolds, PTL

\* "started" is said only of a process that wrote the pid file and has not ended,
\* or of another program that was given its pid, although the file may be gone by
\* the time the script asks for the process (start_process, is_process_running).
THEOREM StartTruthful == Spec => StartedIsUp
<1> DEFINE Honest ==
      \A o \in Operators :
        ctl'[o].result = "started" /\ ctl[o].pc # "done" =>
            stage[ctl'[o].pid] \in Up \cup {"removed", "foreign"}
<1>1. Inv /\ [Next]_vars => [Honest]_vars
  <2> SUFFICES ASSUME Inv, Next, NEW o \in Operators,
                      ctl'[o].result = "started", ctl[o].pc # "done"
               PROVE  stage[ctl'[o].pid] \in Up \cup {"removed", "foreign"}
    BY DEF vars
  <2>1. ctl[o].result # "started"
    BY NoneAssumption DEF Inv, ScriptInv, ScriptKnows, Results
  <2>2. ctl'[o] # ctl[o]
    BY <2>1
  <2>3. ctl[o] \in Scripts /\ ctl \in [Operators -> Scripts] /\ ScriptKnows(o)
    BY DEF Inv, ProcessInv, ScriptInv, TypeOK
  <2>4. StartPoll(o)
    <3>1. ASSUME NEW p \in Pids, Main(p) \/ Crash(p) \/ Reuse(p) PROVE FALSE
      BY <2>2, <3>1, MainKeeps DEF Inv
    <3>2. ASSUME NEW q \in Operators, NEW cmd \in {"start", "stop"}, Command(q, cmd) PROVE FALSE
      <4>1. ctl'[o] = [ScriptIdle EXCEPT !.pc = cmd, !.cmd = cmd]
        BY <2>2, <2>3, <3>2 DEF Command
      <4>2. ctl'[o].result = None
        BY <4>1 DEF ScriptIdle
      <4> QED
        BY <4>2, NoneAssumption DEF Results
    <3>3. ASSUME NEW q \in Operators, Script(q), q # o PROVE FALSE
      <4>1. CASE StartRefused(q) \/ StartPoll(q) \/ StopCheck(q) \/ StopPoll(q) \/ StopEnd(q)
        BY <2>2, <2>3, <3>3, <4>1 DEF StartRefused, StartPoll, StopCheck, StopPoll, StopEnd, Say
      <4>2. CASE (\E p \in Pids : Launch(q, p)) \/ Kill(q) \/ Look(q)
        BY <2>2, <2>3, <3>3, <4>2 DEF Launch, Kill, Look
      <4> QED
        BY <3>3, <4>1, <4>2 DEF Script
    <3>4. CASE StartRefused(o) \/ StopCheck(o) \/ StopEnd(o)
      <4>1. ASSUME NEW result \in Results, Say(o, result), result # "started"
            PROVE  FALSE
        BY <2>3, <4>1 DEF Say
      <4>2. ~ ctl' = [ctl EXCEPT ![o].pc = "kill", ![o].looked = FALSE]
        BY <2>1, <2>3 DEF Scripts
      <4> QED
        BY <3>4, <4>1, <4>2 DEF StartRefused, StopCheck, StopEnd, Results
    <3>5. CASE (\E p \in Pids : Launch(o, p)) \/ Kill(o) \/ StopPoll(o) \/ Look(o)
      <4>1. ASSUME NEW p \in Pids, Launch(o, p) PROVE ctl'[o].result = ctl[o].result
        BY <2>3, <4>1 DEF Launch, Scripts
      <4>2. Kill(o) \/ Look(o) => ctl'[o].result = ctl[o].result
        BY <2>3 DEF Kill, Look, Scripts
      <4>3. StopPoll(o) => ctl'[o].result = ctl[o].result
        BY <2>3 DEF StopPoll, Scripts
      <4> QED
        BY <2>1, <3>5, <4>1, <4>2, <4>3
    <3>6. PICK q \in Operators : Script(q) \/ \E cmd \in {"start", "stop"} : Command(q, cmd)
      BY <3>1 DEF Next
    <3>7. Script(q) /\ q = o
      BY <3>2, <3>3, <3>6
    <3> QED
      BY <3>4, <3>5, <3>7 DEF Script
  <2>5. Running(o) /\ ctl'[o].pid = ctl[o].pid
    <3>1. ~Say(o, "not started")
      <4> SUFFICES ASSUME Say(o, "not started") PROVE FALSE
        OBVIOUS
      <4>1. ctl'[o].result = "not started"
        BY <2>3 DEF Say, Scripts
      <4> QED
        BY <4>1
    <3>2. ctl' = [ctl EXCEPT ![o].tries = @ - 1, ![o].looked = FALSE] => ctl'[o].result = ctl[o].result
      BY <2>3
    <3>3. Running(o) /\ Say(o, "started")
      BY <2>1, <2>4, <3>1, <3>2 DEF StartPoll
    <3> QED
      BY <2>3, <3>3 DEF Say, Scripts
  <2> QED
    BY <2>3, <2>5 DEF Running, Alive, ScriptKnows, Ours, Coming, Up, Leaving, Ended
<1> QED
  BY <1>1, InvHolds, PTL DEF StartedIsUp, Spec
=============================================================================
