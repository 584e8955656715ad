------------------------------- MODULE Startup -------------------------------
(***************************************************************************)
(* The life of the process: main (main/main.cpp) brings the components up   *)
(* in order and writes a pid file, SIGTERM takes it down, and the control   *)
(* script (bin/ctl.template.sh) starts and stops it through the pid file.   *)
(*                                                                         *)
(* Several operators may run the script at once, so that several processes  *)
(* may be coming up; nothing tells them of each other but the console's     *)
(* port and the pid file.  A process may die without its handler at any     *)
(* time, and the system may give its identifier to another program.        *)
(***************************************************************************)
EXTENDS Integers, FiniteSets

CONSTANTS
    Pids,        \* process identifiers
    Operators,   \* those who run the control script
    StartTries,  \* how often start looks for the process (5 in the script)
    StopTries,   \* how often stop looks whether it is gone (10 in the script)
    PidsReused,  \* a pid may be given to another program
    MaxCommands, \* bound: runs of the script
    MaxCrashes,  \* bound: crashes
    None         \* no value

ASSUME TriesAssumption == StartTries \in Nat \ {0} /\ StopTries \in Nat \ {0}

ASSUME BoundsAssumption == MaxCommands \in Nat /\ MaxCrashes \in Nat

ASSUME FlagAssumption == PidsReused \in BOOLEAN

\* What the script may say at its end.
Results == {"already running", "started", "not started", "not running", "stopped", "not stopped"}

ASSUME NoneAssumption == None \notin Pids \cup Results

VARIABLES
    stage,    \* how far each process has come
    port,     \* the process that listens on the console's port
    pidFile,  \* the pid in the pid file
    ctl,      \* the script each operator runs
    commands, \* runs of the script so far
    crashes,  \* crashes so far
    abrupt    \* auxiliary: processes that died without their SIGTERM handler

vars == <<stage, port, pidFile, ctl, commands, crashes, abrupt>>

-----------------------------------------------------------------------------
(* The stages of a process: the configuration is read, the pools are made;  *)
(* the console listens; the hub has its threads; the pid file is written;   *)
(* the handlers are set; SIGTERM is being handled; the pid file is deleted. *)
Coming == {"loading", "console", "hub"}

Up == {"filed", "serving", "terminating"}

Ours == Coming \cup Up \cup {"removed"}

Stages == Ours \cup {"unused", "dead", "foreign"}

Alive(p) == stage[p] \in Ours \cup {"foreign"}

ScriptIdle == [pc |-> "idle", cmd |-> None, pid |-> None, looked |-> FALSE, tries |-> 0,
               running |-> FALSE, target |-> None, result |-> None]

Scripts ==
    [pc : {"idle", "start", "startPoll", "stop", "kill", "stopPoll", "done"},
     cmd : {None, "start", "stop"}, pid : Pids \cup {None}, looked : BOOLEAN, tries : Nat,
     running : BOOLEAN, target : Pids \cup {None}, result : Results \cup {None}]

TypeOK ==
    /\ stage \in [Pids -> Stages]
    /\ port \in Pids \cup {None}
    /\ pidFile \in Pids \cup {None}
    /\ ctl \in [Operators -> Scripts]
    /\ commands \in 0..MaxCommands
    /\ crashes \in 0..MaxCrashes
    /\ abrupt \subseteq Pids
    /\ port # None => stage[port] \in {"console", "hub", "removed"} \cup Up

Init ==
    /\ stage = [p \in Pids |-> "unused"]
    /\ port = None
    /\ pidFile = None
    /\ ctl = [o \in Operators |-> ScriptIdle]
    /\ commands = 0
    /\ crashes = 0
    /\ abrupt = {}

-----------------------------------------------------------------------------
(* The process. *)

\* Mutation: a child of the process keeps its port open.
GoneHoldingPort(p) ==
    /\ stage' = [stage EXCEPT ![p] = "dead"]
    /\ port' = port

\* The process ends; the system closes its port.
Gone(p) ==
    /\ stage' = [stage EXCEPT ![p] = "dead"]
    /\ port' = IF port = p THEN None ELSE port

\* Mutation: the result of Start is not looked at.
BindUnchecked(p) ==
    /\ stage' = [stage EXCEPT ![p] = "console"]
    /\ port' = IF port = None THEN p ELSE port

\* Bind succeeds for one process at a time, the others end.
Bind(p) ==
    IF port = None
    THEN stage' = [stage EXCEPT ![p] = "console"] /\ port' = p
    ELSE Gone(p)

\* Cli::Initialize: from here on operators can log in.
OpenConsole(p) ==
    /\ stage[p] = "loading"
    /\ Bind(p)
    /\ UNCHANGED <<pidFile, ctl, commands, crashes, abrupt>>

\* The configuration, the pools or the hub cannot be initialised: _EXIT(1).
FailToStart(p) ==
    /\ stage[p] \in {"loading", "console"}
    /\ Gone(p)
    /\ UNCHANGED <<pidFile, ctl, commands, crashes, abrupt>>

\* ACT-LOAD-GEN:ONCE calls InterfaceHub::ExecThread, which has no thread pool
\* before InterfaceHub::Initialize: a call through a null pointer.
OnceTooEarly(p) ==
    /\ stage[p] = "console"
    /\ Gone(p)
    /\ abrupt' = abrupt \cup {p}
    /\ UNCHANGED <<pidFile, ctl, commands, crashes>>

StartHub(p) ==
    /\ stage[p] = "console"
    /\ stage' = [stage EXCEPT ![p] = "hub"]
    /\ UNCHANGED <<port, pidFile, ctl, commands, crashes, abrupt>>

CreatePidFile(p) ==
    /\ stage[p] = "hub"
    /\ stage' = [stage EXCEPT ![p] = "filed"]
    /\ pidFile' = p
    /\ UNCHANGED <<port, ctl, commands, crashes, abrupt>>

SetHandlers(p) ==
    /\ stage[p] = "filed"
    /\ stage' = [stage EXCEPT ![p] = "serving"]
    /\ UNCHANGED <<port, pidFile, ctl, commands, crashes, abrupt>>

\* Mutation: the process leaves the file behind.
DeletePidFileSkipped(p) ==
    /\ stage[p] \in {"terminating", "removed"}
    /\ stage' = [stage EXCEPT ![p] = "removed"]
    /\ UNCHANGED <<port, pidFile, ctl, commands, crashes, abrupt>>

\* sig_core_handler, 200 ms after the signal: the file is deleted, whatever it
\* says.  A second SIGTERM may be handled by another thread, which deletes the
\* file again.
DeletePidFile(p) ==
    /\ stage[p] \in {"terminating", "removed"}
    /\ stage' = [stage EXCEPT ![p] = "removed"]
    /\ pidFile' = None
    /\ UNCHANGED <<port, ctl, commands, crashes, abrupt>>

\* sig_core_handler goes on to exit(0), for which nothing is registered.
Exit(p) ==
    /\ stage[p] = "removed"
    /\ Gone(p)
    /\ UNCHANGED <<pidFile, ctl, commands, crashes, abrupt>>

\* SIGKILL, a fault, or one of the signals that sig_core_handler passes on to
\* the former handler, which is SIG_DFL, a null pointer.
Crash(p) ==
    /\ stage[p] \in Ours
    /\ crashes < MaxCrashes
    /\ crashes' = crashes + 1
    /\ Gone(p)
    /\ abrupt' = abrupt \cup {p}
    /\ UNCHANGED <<pidFile, ctl, commands>>

\* The system gives the pid of a dead process to another program.
Reuse(p) ==
    /\ PidsReused
    /\ stage[p] = "dead"
    /\ stage' = [stage EXCEPT ![p] = "foreign"]
    /\ UNCHANGED <<port, pidFile, ctl, commands, crashes, abrupt>>

\* What SIGTERM does: it is handled, or the default action ends the process; when
\* it is being handled already, another thread may run the handler, to no other
\* end than the first.
Terminate(p) ==
    \/ /\ stage[p] = "serving"
       /\ stage' = [stage EXCEPT ![p] = "terminating"]
       /\ UNCHANGED <<port, abrupt>>
    \/ /\ stage[p] \in Coming \cup {"filed", "foreign"}
       /\ Gone(p)
       /\ abrupt' = abrupt \cup {p}
    \/ /\ stage[p] \in {"terminating", "removed", "dead", "unused"}
       /\ UNCHANGED <<stage, port, abrupt>>

\* SHUTDOWN on the console raises SIGTERM.
Shutdown(p) ==
    /\ stage[p] \in {"console", "hub"} \cup Up
    /\ Terminate(p)
    /\ UNCHANGED <<pidFile, ctl, commands, crashes>>

-----------------------------------------------------------------------------
(* The control script. *)

\* Mutation: PROCESS_PID is cleared when there is no file.
CurrentCleared(o) == pidFile

\* get_process_pid: PROCESS_PID keeps its value while there is no file.
Current(o) == IF pidFile = None THEN ctl[o].pid ELSE pidFile

\* is_process_running looks into the file first, and then asks for the process.
Look(o) ==
    /\ ctl[o].pc \in {"start", "startPoll", "stop", "stopPoll"}
    /\ ~ctl[o].looked
    /\ ctl' = [ctl EXCEPT ![o].pid = Current(o), ![o].looked = TRUE]
    /\ UNCHANGED <<stage, port, pidFile, commands, crashes, abrupt>>

LookedAt(o, pc) == ctl[o].pc = pc /\ ctl[o].looked

\* is_service_running: kill -0 of the pid the script has read.
Running(o) == ctl[o].pid # None /\ Alive(ctl[o].pid)

Command(o, cmd) ==
    /\ ctl[o].pc \in {"idle", "done"}
    /\ commands < MaxCommands
    /\ commands' = commands + 1
    /\ ctl' = [ctl EXCEPT ![o] = [ScriptIdle EXCEPT !.pc = cmd, !.cmd = cmd]]
    /\ UNCHANGED <<stage, port, pidFile, crashes, abrupt>>

\* The script ends with what it says.
Say(o, result) ==
    ctl' = [ctl EXCEPT ![o].pc = "done", ![o].looked = FALSE, ![o].running = FALSE,
                       ![o].tries = 0, ![o].result = result]

\* start refuses if there is a process.
StartRefused(o) ==
    /\ LookedAt(o, "start")
    /\ Running(o)
    /\ Say(o, "already running")
    /\ UNCHANGED <<stage, port, pidFile, commands, crashes, abrupt>>

\* Mutation: the process writes the file before anything else.
LaunchFiled(o, p) ==
    /\ LookedAt(o, "start")
    /\ ~Running(o)
    /\ stage[p] = "unused"
    /\ stage' = [stage EXCEPT ![p] = "loading"]
    /\ pidFile' = p
    /\ ctl' = [ctl EXCEPT ![o].pc = "startPoll", ![o].looked = FALSE, ![o].tries = StartTries]
    /\ UNCHANGED <<port, commands, crashes, abrupt>>

Launch(o, p) ==
    /\ LookedAt(o, "start")
    /\ ~Running(o)
    /\ stage[p] = "unused"
    /\ stage' = [stage EXCEPT ![p] = "loading"]
    /\ ctl' = [ctl EXCEPT ![o].pc = "startPoll", ![o].looked = FALSE, ![o].tries = StartTries]
    /\ UNCHANGED <<port, pidFile, commands, crashes, abrupt>>

\* One turn of start's loop, and what is said after the last.
StartPoll(o) ==
    /\ LookedAt(o, "startPoll")
    /\ \/ Running(o) /\ Say(o, "started")
       \/ ~Running(o) /\ ctl[o].tries = 1 /\ Say(o, "not started")
       \/ /\ ~Running(o) /\ ctl[o].tries > 1
          /\ ctl' = [ctl EXCEPT ![o].tries = @ - 1, ![o].looked = FALSE]
    /\ UNCHANGED <<stage, port, pidFile, commands, crashes, abrupt>>

StopCheck(o) ==
    /\ LookedAt(o, "stop")
    /\ \/ ~Running(o) /\ Say(o, "not running")
       \/ Running(o) /\ ctl' = [ctl EXCEPT ![o].pc = "kill", ![o].looked = FALSE]
    /\ UNCHANGED <<stage, port, pidFile, commands, crashes, abrupt>>

Kill(o) ==
    /\ ctl[o].pc = "kill"
    /\ Terminate(ctl[o].pid)
    /\ ctl' = [ctl EXCEPT ![o].pc = "stopPoll", ![o].tries = StopTries, ![o].running = TRUE,
                          ![o].target = ctl[o].pid]
    /\ UNCHANGED <<pidFile, commands, crashes>>

\* One turn of stop's loop.
StopPoll(o) ==
    /\ LookedAt(o, "stopPoll")
    /\ ctl[o].running /\ ctl[o].tries > 0
    /\ ctl' = [ctl EXCEPT ![o].tries = @ - 1, ![o].looked = FALSE, ![o].running = Running(o)]
    /\ UNCHANGED <<stage, port, pidFile, commands, crashes, abrupt>>

\* After the loop the script looks once more.
StopEnd(o) ==
    /\ LookedAt(o, "stopPoll")
    /\ ~ctl[o].running \/ ctl[o].tries = 0
    /\ Say(o, IF Running(o) THEN "not stopped" ELSE "stopped")
    /\ UNCHANGED <<stage, port, pidFile, commands, crashes, abrupt>>

-----------------------------------------------------------------------------
Main(p) ==
    \/ OpenConsole(p) \/ FailToStart(p) \/ OnceTooEarly(p) \/ StartHub(p)
    \/ CreatePidFile(p) \/ SetHandlers(p) \/ Shutdown(p) \/ DeletePidFile(p) \/ Exit(p)

Script(o) ==
    \/ Look(o)
    \/ StartRefused(o) \/ \E p \in Pids : Launch(o, p)
    \/ StartPoll(o) \/ StopCheck(o) \/ Kill(o) \/ StopPoll(o) \/ StopEnd(o)

Next ==
    \/ \E p \in Pids : Main(p) \/ Crash(p) \/ Reuse(p)
    \/ \E o \in Operators : Script(o) \/ \E cmd \in {"start", "stop"} : Command(o, cmd)

Spec == Init /\ [][Next]_vars

-----------------------------------------------------------------------------
(* What an operator relies on. *)

\* While a process serves, or is on its way out, the pid file names it,
\* whatever other processes came up and failed meanwhile (main's order of
\* binding the port before writing the file, sig_core_handler's of deleting it
\* before the port is released).
PidFileNamesServer == \A p \in Pids : stage[p] \in Up => pidFile = p

\* A pid file that names no process is left only by one that died without its
\* handler (sig_core_handler).
StaleOnlyAfterCrash == pidFile # None /\ stage[pidFile] = "dead" => pidFile \in abrupt

\* "stopped" is said only when the process that was sent SIGTERM is gone, not
\* when its pid file is (stop_process: the handler deletes the file first).
StoppedIsGone ==
    \A o \in Operators : ctl[o].result = "stopped" => stage[ctl[o].target] \in {"dead", "foreign"}

\* "started" is said only of a process that has come all the way up and is still
\* there, or of another program that has got its pid; it may be on its way out, its
\* file read before its handler deleted it (start_process, is_process_running).
StartedIsUp ==
    [][\A o \in Operators :
         ctl'[o].result = "started" /\ ctl[o].pc # "done" =>
             stage[ctl'[o].pid] \in Up \cup {"removed", "foreign"}]_vars
=============================================================================
