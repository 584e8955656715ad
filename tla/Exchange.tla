------------------------------- MODULE Exchange ------------------------------
(***************************************************************************)
(* What the session engine promises about the load commands it is given,   *)
(* whatever the threads, the timers and the network do: each command is     *)
(* turned into at most one request, a reply is counted only after its      *)
(* request was, and only once, and every command ends.                      *)
(***************************************************************************)
EXTENDS Naturals

CONSTANT Commands

VARIABLES
    phase,    \* [Commands -> Phases]
    sent,     \* requests counted
    received  \* replies counted

vars == <<phase, sent, received>>

Phases == {"new", "queued", "scheduled", "requesting", "waiting", "ended"}

Init ==
    /\ phase = [c \in Commands |-> "new"]
    /\ sent = 0
    /\ received = 0

Move(c, from, to) == phase[c] = from /\ phase' = [phase EXCEPT ![c] = to]

\* The command is queued for the thread pool.
Submit(c) == Move(c, "new", "queued") /\ UNCHANGED <<sent, received>>

\* A session is opened for it and waits for its trigger.
Schedule(c) == Move(c, "queued", "scheduled") /\ UNCHANGED <<sent, received>>

\* Its request leaves, and is counted before anything else happens to it.
Request(c) == Move(c, "scheduled", "requesting") /\ UNCHANGED <<sent, received>>
Count(c) == Move(c, "requesting", "waiting") /\ sent' = sent + 1 /\ UNCHANGED received

\* The reply ends it.
Reply(c) == Move(c, "waiting", "ended") /\ received' = received + 1 /\ UNCHANGED sent

\* A command may be dropped in any phase but while its request is being sent.
GiveUp(c) ==
    /\ \E p \in {"queued", "scheduled", "waiting"} : Move(c, p, "ended")
    /\ UNCHANGED <<sent, received>>

Progress(c) == Schedule(c) \/ Request(c) \/ Count(c) \/ Reply(c) \/ GiveUp(c)

Next == \E c \in Commands : Submit(c) \/ Progress(c)

Spec == Init /\ [][Next]_vars /\ \A c \in Commands : WF_vars(Progress(c))

=============================================================================
