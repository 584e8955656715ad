----------------------------- MODULE LoadSession -----------------------------
(***************************************************************************)
(* The session engine of the load generator: what happens to a message    *)
(* from the moment it is queued for the thread pool until the session it   *)
(* opened is back in the pool.  It composes                                 *)
(*                                                                         *)
(*   ih::InterfaceHub  (main/interface_hub.cpp)  routing, replies           *)
(*   ih::Session       (main/session.cpp)        the locked container       *)
(*   ih::RpPool        (main/rp_pool.cpp)        the two object pools       *)
(*   ih::RpTimer       (main/rp_timer.cpp)       timers                     *)
(*   ih::Http1Api      (main/http1_api.cpp)      the HTTP side              *)
(*   tu::Manager, tu::Session, tu::Fsm*  (tum/)  the transaction            *)
(*                                                                         *)
(* One step of a worker thread is one critical section of the code: the    *)
(* pool lookup (which takes no session lock), then the handler, which runs  *)
(* entirely under the lock of the ih::Session.  The one handler another     *)
(* thread can observe half-way, SendRequest (the reply may arrive before    *)
(* the sender has counted its request), is two steps and holds the lock    *)
(* between them; a timer that a handler starts and stops again may have     *)
(* expired in between (MayHaveExpired).                                     *)
(***************************************************************************)
EXTENDS Integers, FiniteSets

CONSTANTS
    Workers,      \* threads of InterfaceHub::thread_pool_ (interface_hub.cpp:52)
    Slots,        \* objects of each pool: RpPool pushes as many ih as tu sessions
    Sids,         \* session identifiers the pool hands out
    Mids,         \* member identifiers Attach hands out (numbers)
    MidModulus,   \* a reply brings a member identifier back modulo this, 2^16
    Commands,     \* LOAD_COMMAND messages submitted to the pool
    Requests,     \* HTTP requests that arrive from outside
    MidsReused,   \* may Attach give an identifier that something still carries?
    AttachMayFail,\* may Attach return 0?
    None          \* NULL, 0, "no value"

ASSUME SlotsAssumption == IsFiniteSet(Slots)

\* Http1Api::OnReceive reads 16 bits of the member identifier that Send packed
\* whole (http1_api.cpp:97, :121-123).
Unpacked(k) == k % MidModulus

\* The identifiers a message may name.
MemberIds == Mids \cup {Unpacked(k) : k \in Mids}

\* A zero identifier means "no member"; the reply to one cut to zero would be
\* handed to tu::Manager, which is not modelled.
ASSUME MidsAssumption ==
    /\ MidModulus \in Nat \ {0}
    /\ Mids \subseteq Nat
    /\ \A k \in Mids : Unpacked(k) # 0

ASSUME NoneAssumption ==
    None \notin Workers \cup Slots \cup Sids \cup MemberIds \cup Commands \cup Requests

ASSUME OwnersAssumption == Commands \cap Requests = {}

ASSUME FlagsAssumption == MidsReused \in BOOLEAN /\ AttachMayFail \in BOOLEAN

\* A message that opens a session names everything the session leaves behind:
\* its timers, its request and the reply carry that name (an auxiliary value;
\* no guard of the code reads it).
Owners == Commands \cup Requests

Timers == {"SESSION_INACTIVITY_TIMEOUT", "TRIGGER_SCENARIO", "HTTP_RESPONSE_TIMEOUT"}

Steps == {"NONE", "S1_SEND_REQUEST", "S2_WAIT_REPLY", "COMPLETE"}

VARIABLES
    unsent,    \* owners whose opening message was not yet submitted
    inbox,     \* messages queued in, or on their way to, the thread pool
    worker,    \* [Workers -> what the thread is doing]
    ih,        \* [Slots -> ih::Session objects]
    lock,      \* [Slots -> who holds ih::Session::lock_ across a step]
    tu,        \* [Slots -> tu::Session objects]
    running,   \* timers running in xi::rp::Timer
    wire,      \* requests handed to xi::h1::Api whose reply may still come
    answers,   \* [Requests -> the statuses answered to the client]
    stat       \* Statistics: requests sent and replies received (API01)

vars == <<unsent, inbox, worker, ih, lock, tu, running, wire, answers, stat>>

-----------------------------------------------------------------------------
(* The shapes of the state. *)

Message ==
    [type  : {"LOAD_COMMAND", "HTTP_REQUEST", "HTTP_RESPONSE", "TIMER_EVENT"},
     sid   : Sids \cup {None},
     mid   : MemberIds \cup {None},
     timer : Timers \cup {None},
     owner : Owners]

OpeningMessage(c) ==
    [type  |-> IF c \in Commands THEN "LOAD_COMMAND" ELSE "HTTP_REQUEST",
     sid |-> None, mid |-> None, timer |-> None, owner |-> c]

\* xi::rp::Timer keeps the identifiers it will hand to OnTimeout.
TimerRecord == [owner : Owners, type : Timers, sid : Sids, mid : Mids]

TimeoutMessage(x) ==
    [type |-> "TIMER_EVENT", sid |-> x.sid, mid |-> x.mid, timer |-> x.type,
     owner |-> x.owner]

\* The user parameter of a request is (mid << 32 | sid); the reply brings it
\* back, and of the member identifier what Unpacked leaves.
WireRecord == [owner : Owners, sid : Sids, mid : Mids]

ResponseMessage(x) ==
    [type |-> "HTTP_RESPONSE", sid |-> x.sid, mid |-> Unpacked(x.mid), timer |-> None,
     owner |-> x.owner]

\* An ih::Session in the pool has no session id; attached, it has one member.
IhSession == [sid : Sids \cup {None}, mid : Mids \cup {None}, tu : Slots \cup {None}]
IhIdle == [sid |-> None, mid |-> None, tu |-> None]

\* armed: the timers whose timer_table_ entry is non-zero.  A transaction
\* starts each timer at most once, so <<owner, type>> stands for the timer id.
TuSession == [owner : Owners \cup {None}, parent : Slots \cup {None},
              fsm : {"IDLE", "API"}, step : Steps, armed : SUBSET Timers]
TuIdle == [owner |-> None, parent |-> None, fsm |-> "IDLE", step |-> "NONE",
           armed |-> {}]

WorkerIdle == [pc |-> "idle", msg |-> None, ih |-> None]

Init ==
    /\ unsent = Owners
    /\ inbox = {}
    /\ worker = [w \in Workers |-> WorkerIdle]
    /\ ih = [o \in Slots |-> IhIdle]
    /\ lock = [o \in Slots |-> None]
    /\ tu = [t \in Slots |-> TuIdle]
    /\ running = {}
    /\ wire = {}
    /\ answers = [r \in Requests |-> {}]
    /\ stat = [sent |-> 0, received |-> 0]

-----------------------------------------------------------------------------
(* The environment: the operator and the generator submit commands, clients *)
(* connect, timers expire, the server under test answers or does not.       *)

\* ExecThread of a LOAD_COMMAND (the generator's tick or ACT-LOAD-GEN:ONCE),
\* or a request Http1Api::OnReceive hands to Handle.
Submit(c) ==
    /\ c \in unsent
    /\ unsent' = unsent \ {c}
    /\ inbox' = inbox \cup {OpeningMessage(c)}
    /\ UNCHANGED <<worker, ih, lock, tu, running, wire, answers, stat>>

\* RpTimer::OnTimeout: the timer is gone before its event is handled.
Expire(x) ==
    /\ x \in running
    /\ running' = running \ {x}
    /\ inbox' = inbox \cup {TimeoutMessage(x)}
    /\ UNCHANGED <<unsent, worker, ih, lock, tu, wire, answers, stat>>

\* Http1Api::OnReceive(response): sid and mid are unpacked from the parameter.
Respond(x) ==
    /\ x \in wire
    /\ wire' = wire \ {x}
    /\ inbox' = inbox \cup {ResponseMessage(x)}
    /\ UNCHANGED <<unsent, worker, ih, lock, tu, running, answers, stat>>

\* No reply, or a late failure: OnSendFail only logs, the session is not told.
Lose(x) ==
    /\ x \in wire
    /\ wire' = wire \ {x}
    /\ UNCHANGED <<unsent, inbox, worker, ih, lock, tu, running,
                   answers, stat>>

-----------------------------------------------------------------------------
(* InterfaceHub::Handle: find or obtain the session; no lock is held when   *)
(* the worker goes on with the pointer it got.                              *)

Route(w, m, o) == worker' = [worker EXCEPT ![w] = [pc |-> "routed", msg |-> m, ih |-> o]]

Dequeue(w, m) ==
    /\ worker[w].pc = "idle"
    /\ m \in inbox
    /\ inbox' = inbox \ {m}

Find(w, m, o) ==
    /\ Dequeue(w, m)
    /\ m.sid # None
    /\ ih[o].sid = m.sid
    /\ Route(w, m, o)
    /\ UNCHANGED <<unsent, ih, lock, tu, running, wire, answers, stat>>

\* ReplyForNotFound: neither a timeout nor a response is answered.
FindFails(w, m) ==
    /\ Dequeue(w, m)
    /\ m.sid # None
    /\ \A o \in Slots : ih[o].sid # m.sid
    /\ UNCHANGED <<unsent, worker, ih, lock, tu, running, wire, answers, stat>>

FreeSids == Sids \ {ih[o].sid : o \in Slots}

Obtain(w, m, o, s) ==
    /\ Dequeue(w, m)
    /\ m.sid = None
    /\ ih[o].sid = None
    /\ s \in FreeSids
    /\ ih' = [ih EXCEPT ![o].sid = s]
    /\ Route(w, m, o)
    /\ UNCHANGED <<unsent, lock, tu, running, wire, answers, stat>>

Answer(m, status) ==
    IF m.type = "HTTP_REQUEST"
    THEN answers' = [answers EXCEPT ![m.owner] = @ \cup {status}]
    ELSE UNCHANGED answers

\* Mutation: ReplyForNotFound is called without its status argument.
ObtainFailsDefaultStatus(w, m) ==
    /\ Dequeue(w, m)
    /\ m.sid = None
    /\ \A o \in Slots : ih[o].sid # None
    /\ Answer(m, 404)
    /\ UNCHANGED <<unsent, worker, ih, lock, tu, running, wire, stat>>

\* Mutation: the message is discarded without a reply.
ObtainFailsSilently(w, m) ==
    /\ Dequeue(w, m)
    /\ m.sid = None
    /\ \A o \in Slots : ih[o].sid # None
    /\ UNCHANGED <<unsent, worker, ih, lock, tu, running, wire, answers, stat>>

ObtainFails(w, m) ==
    /\ Dequeue(w, m)
    /\ m.sid = None
    /\ \A o \in Slots : ih[o].sid # None
    /\ Answer(m, 500)
    /\ UNCHANGED <<unsent, worker, ih, lock, tu, running, wire, stat>>

-----------------------------------------------------------------------------
(* ih::Session::OnReceive, under the session lock. *)

\* Mutation: OnReceive without the ScopedLock.
EnterUnlocked(w) == worker[w].pc = "routed"

Enter(w) ==
    /\ worker[w].pc = "routed"
    /\ lock[worker[w].ih] = None

Leave(w) == worker' = [worker EXCEPT ![w] = WorkerIdle]

FreeTus == {t \in Slots : tu[t].owner = None}

\* Mutation: TimerAllStop is left out of Clear.
ReleaseLeavesTimers(o, t, cleared) ==
    /\ tu' = [tu EXCEPT ![t] = TuIdle]
    /\ ih' = [ih EXCEPT ![o] = IhIdle]
    /\ UNCHANGED running

\* Mutation: the ih::Session ignores DO_RELEASE.
ReleaseKeepsSession(o, t, cleared) ==
    /\ running' = {x \in running :
                     ~(x.owner = tu[t].owner /\ x.type \in tu[t].armed \ cleared)}
    /\ tu' = [tu EXCEPT ![t] = TuIdle]
    /\ ih' = [ih EXCEPT ![o].mid = None, ![o].tu = None]

\* Mutation: the tu::Session is cleared but not detached.
ReleaseKeepsMember(o, t, cleared) ==
    /\ running' = {x \in running :
                     ~(x.owner = tu[t].owner /\ x.type \in tu[t].armed \ cleared)}
    /\ tu' = [tu EXCEPT ![t] = TuIdle]
    /\ ih' = [ih EXCEPT ![o].sid = None]

\* Mutation: the tu::Session is detached but not given back to its pool.
ReleaseStrandsMember(o, t, cleared) ==
    /\ running' = {x \in running :
                     ~(x.owner = tu[t].owner /\ x.type \in tu[t].armed \ cleared)}
    /\ tu' = [tu EXCEPT ![t] = [TuIdle EXCEPT !.owner = tu[t].owner]]
    /\ ih' = [ih EXCEPT ![o] = IhIdle]

\* tu::Session::Release (TimerAllStop, Clear, Detach), then ih::Session Release.
\* The entries in "cleared" were zeroed first: TimerAllStop does not see them.
Release(o, t, cleared) ==
    /\ running' = {x \in running :
                     ~(x.owner = tu[t].owner /\ x.type \in tu[t].armed \ cleared)}
    /\ tu' = [tu EXCEPT ![t] = TuIdle]
    /\ ih' = [ih EXCEPT ![o] = IhIdle]

\* The member identifiers something in the program still carries: a message
\* queued or held by a worker, a timer, a request or an attached session.
MidsCarried ==
    {m.mid : m \in inbox} \cup {worker[w].msg.mid : w \in {v \in Workers : worker[v].pc = "routed"}}
    \cup {x.mid : x \in running \cup wire} \cup {ih[o].mid : o \in Slots}

\* Mutation: identifiers are told apart by more bits than a reply brings back.
AttachableWhole == IF MidsReused THEN Mids ELSE Mids \ MidsCarried

\* What Attach may hand out.  Unless MidsReused, an identifier comes again only
\* when nothing carries one that is equal to it in what a reply brings back.
AttachableMids ==
    {k \in Mids : MidsReused \/ \A j \in MidsCarried \ {None} : Unpacked(j) # Unpacked(k)}

\* tu::Manager::OnReceive fails before a transaction exists: Obtain returns
\* NULL, or Attach returns 0 and the tu::Session it was given stays taken.
ManagerFails(w) ==
    LET m == worker[w].msg
        o == worker[w].ih
    IN  /\ Enter(w)
        /\ m.mid = None
        /\ \/ FreeTus = {} /\ UNCHANGED tu
           \/ /\ AttachMayFail
              /\ \E t \in FreeTus : tu' = [tu EXCEPT ![t].owner = m.owner]
        /\ ih' = [ih EXCEPT ![o] = IhIdle]
        /\ Leave(w)
        /\ UNCHANGED <<unsent, inbox, lock, running, wire, answers, stat>>

Attach(o, t, k) == [ih EXCEPT ![o] = [sid |-> @.sid, mid |-> k, tu |-> t]]

\* Mutation: the inactivity timer is not started.
TriggerOnly == {"TRIGGER_SCENARIO"}

\* The timers FsmIdle::ProcessLoadCommand starts.
FirstTimers == {"SESSION_INACTIVITY_TIMEOUT", "TRIGGER_SCENARIO"}

\* Mutation: the transaction stays in FsmIdle.
NoChangeFsm == "IDLE"

\* FsmApi1 and FsmApi2 handle the same messages in the same way.
ScenarioFsm == "API"

\* FsmIdle::ProcessLoadCommand with both timers started.
StartScenario(w, t, k) ==
    LET m == worker[w].msg
        o == worker[w].ih
    IN  /\ Enter(w)
        /\ m.type = "LOAD_COMMAND"
        /\ t \in FreeTus
        /\ k \in AttachableMids
        /\ ih' = Attach(o, t, k)
        /\ tu' = [tu EXCEPT ![t] = [owner |-> m.owner, parent |-> o, fsm |-> ScenarioFsm,
                                    step |-> "NONE", armed |-> FirstTimers]]
        /\ running' = running \cup
               {[owner |-> m.owner, type |-> e, sid |-> ih[o].sid, mid |-> k] : e \in FirstTimers}
        /\ Leave(w)
        /\ UNCHANGED <<unsent, inbox, lock, wire, answers, stat>>

\* A timer x that was started and stopped in one critical section is gone, but
\* it may have expired in between.
MayHaveExpired(x) == inbox' \in {inbox, inbox \cup {TimeoutMessage(x)}}

\* FsmIdle::ProcessLoadCommand gives up (StartTimer returned 0, or a scenario
\* no FSM serves), or FsmIdle::ProcessHttpRequest answers 200: the session is
\* attached and released in one critical section, with every timer stopped.
OpenAndRelease(w, t, k) ==
    LET m == worker[w].msg
        o == worker[w].ih
    IN  /\ Enter(w)
        /\ m.mid = None
        /\ t \in FreeTus
        /\ k \in AttachableMids
        /\ ih' = [ih EXCEPT ![o] = IhIdle]
        /\ Answer(m, 200)
        /\ IF m.type = "LOAD_COMMAND"
           THEN MayHaveExpired([owner |-> m.owner, type |-> "SESSION_INACTIVITY_TIMEOUT",
                                sid |-> ih[o].sid, mid |-> k])
           ELSE UNCHANGED inbox
        /\ Leave(w)
        /\ UNCHANGED <<unsent, lock, tu, running, wire, stat>>

-----------------------------------------------------------------------------
(* Messages for a member: Session::Find(mid), then the transaction's FSM.   *)

\* The session was released, perhaps obtained again, since the hub found it.
MemberNotFound(w) ==
    LET m == worker[w].msg IN
    /\ Enter(w)
    /\ m.mid # None
    /\ ih[worker[w].ih].mid # m.mid
    /\ Leave(w)
    /\ UNCHANGED <<unsent, inbox, ih, lock, tu, running, wire, answers, stat>>

Deliver(w, type) ==
    /\ Enter(w)
    /\ worker[w].msg.type = type
    /\ ih[worker[w].ih].mid = worker[w].msg.mid

Target(w) == ih[worker[w].ih].tu

\* Fsm::OnReceive: TimerClear found the entry already zero.
TimeoutIgnored(w) ==
    /\ Deliver(w, "TIMER_EVENT")
    /\ worker[w].msg.timer \notin tu[Target(w)].armed
    /\ Leave(w)
    /\ UNCHANGED <<unsent, inbox, ih, lock, tu, running, wire, answers, stat>>

\* ProcessTimeout, SESSION_INACTIVITY_TIMEOUT and HTTP_RESPONSE_TIMEOUT.
\* TimerClear zeroes the entry without comparing timer ids.
GiveUp(w) ==
    LET t == Target(w)
        e == worker[w].msg.timer
    IN  /\ Deliver(w, "TIMER_EVENT")
        /\ tu[t].fsm = "API"
        /\ e \in tu[t].armed \ {"TRIGGER_SCENARIO"}
        /\ Release(worker[w].ih, t, {e})
        /\ Leave(w)
        /\ UNCHANGED <<unsent, inbox, lock, wire, answers, stat>>

\* api01step::next saturates at the last value of the enum.
NextStep(s) ==
    CASE s = "NONE" -> "S1_SEND_REQUEST"
      [] s = "S1_SEND_REQUEST" -> "S2_WAIT_REPLY"
      [] OTHER -> "COMPLETE"

Triggered(w) ==
    /\ Deliver(w, "TIMER_EVENT")
    /\ tu[Target(w)].fsm = "API"
    /\ worker[w].msg.timer = "TRIGGER_SCENARIO"
    /\ "TRIGGER_SCENARIO" \in tu[Target(w)].armed

\* Mutation: the response timer is not started.
AwaitingUnguarded(transaction) ==
    [owner |-> transaction.owner, parent |-> transaction.parent, fsm |-> transaction.fsm,
     step |-> "S1_SEND_REQUEST", armed |-> transaction.armed \ {"TRIGGER_SCENARIO"}]

\* A transaction whose trigger has fired and whose response timer is started.
Awaiting(transaction) ==
    [owner |-> transaction.owner, parent |-> transaction.parent, fsm |-> transaction.fsm,
     step |-> "S1_SEND_REQUEST",
     armed |-> (transaction.armed \ {"TRIGGER_SCENARIO"}) \cup {"HTTP_RESPONSE_TIMEOUT"}]

\* SendRequest up to Http1Api::Send: the response timer is (re)started, then
\* the request leaves.  The lock stays held until the request is counted.
SendRequest(w) ==
    LET o == worker[w].ih
        t == Target(w)
        c == tu[t].owner
        e == "HTTP_RESPONSE_TIMEOUT"
    IN  /\ Triggered(w)
        /\ NextStep(tu[t].step) = "S1_SEND_REQUEST"
        /\ tu' = [tu EXCEPT ![t] = Awaiting(tu[t])]
        /\ running' = {x \in running : ~(x.owner = c /\ x.type = e /\ e \in tu[t].armed)}
                      \cup {[owner |-> c, type |-> e, sid |-> ih[o].sid, mid |-> ih[o].mid]}
        /\ wire' = wire \cup {[owner |-> c, sid |-> ih[o].sid, mid |-> ih[o].mid]}
        /\ lock' = [lock EXCEPT ![o] = w]
        /\ worker' = [worker EXCEPT ![w].pc = "sent"]
        /\ UNCHANGED <<unsent, inbox, ih, answers, stat>>

\* StatService(send), after the request has left; then the lock is released.
CountSent(w) ==
    /\ worker[w].pc = "sent"
    /\ stat' = [stat EXCEPT !.sent = @ + 1]
    /\ lock' = [lock EXCEPT ![worker[w].ih] = None]
    /\ Leave(w)
    /\ UNCHANGED <<unsent, inbox, ih, tu, running, wire, answers>>

\* DoNextStep ends the scenario: no data to send, StartTimer or Send failed, or
\* the step that follows is not S1_SEND_REQUEST.  When Send failed the response
\* timer had been started.
EndScenario(w) ==
    LET o == worker[w].ih
        t == Target(w)
    IN  /\ Triggered(w)
        /\ Release(o, t, {"TRIGGER_SCENARIO"})
        /\ IF NextStep(tu[t].step) = "S1_SEND_REQUEST"
           THEN MayHaveExpired([owner |-> tu[t].owner, type |-> "HTTP_RESPONSE_TIMEOUT",
                                sid |-> ih[o].sid, mid |-> ih[o].mid])
           ELSE UNCHANGED inbox
        /\ Leave(w)
        /\ UNCHANGED <<unsent, lock, wire, answers, stat>>

\* Mutation: the reply does not end the session (the code's commented-out path).
ReceiveAndGoOn(w) ==
    /\ Deliver(w, "HTTP_RESPONSE")
    /\ tu[Target(w)].fsm = "API"
    /\ stat' = [stat EXCEPT !.received = @ + 1]
    /\ Leave(w)
    /\ UNCHANGED <<unsent, inbox, ih, lock, tu, running, wire, answers>>

\* ProcessHttpResponse: whatever the step, the reply is counted and ends it.
ReceiveResponse(w) ==
    /\ Deliver(w, "HTTP_RESPONSE")
    /\ tu[Target(w)].fsm = "API"
    /\ stat' = [stat EXCEPT !.received = @ + 1]
    /\ Release(worker[w].ih, Target(w), {})
    /\ Leave(w)
    /\ UNCHANGED <<unsent, inbox, lock, wire, answers>>

-----------------------------------------------------------------------------
Routing(w) ==
    \E m \in inbox :
        \/ \E o \in Slots : Find(w, m, o)
        \/ FindFails(w, m)
        \/ \E o \in Slots, s \in Sids : Obtain(w, m, o, s)
        \/ ObtainFails(w, m)

Opening(w) ==
    \/ ManagerFails(w)
    \/ \E t \in Slots, k \in Mids : StartScenario(w, t, k) \/ OpenAndRelease(w, t, k)

Delivering(w) ==
    \/ MemberNotFound(w)
    \/ TimeoutIgnored(w)
    \/ GiveUp(w)
    \/ SendRequest(w)
    \/ EndScenario(w)
    \/ ReceiveResponse(w)

Work(w) == Routing(w) \/ Opening(w) \/ Delivering(w) \/ CountSent(w)

TimerThread == \E x \in running : Expire(x)

Next ==
    \/ \E c \in Owners : Submit(c)
    \/ TimerThread
    \/ \E x \in wire : Respond(x) \/ Lose(x)
    \/ \E w \in Workers : Work(w)

\* The threads of the pool and the timer thread keep running.  Nothing is
\* assumed of the operator, of the clients or of the server under test.
Fairness == (\A w \in Workers : WF_vars(Work(w))) /\ WF_vars(TimerThread)

Spec == Init /\ [][Next]_vars /\ Fairness

-----------------------------------------------------------------------------
(* Correctness. *)

TypeOK ==
    /\ unsent \subseteq Owners
    /\ inbox \subseteq Message
    /\ worker \in [Workers -> [pc : {"idle", "routed", "sent"},
                               msg : Message \cup {None}, ih : Slots \cup {None}]]
    /\ ih \in [Slots -> IhSession]
    /\ lock \in [Slots -> Workers \cup {None}]
    /\ tu \in [Slots -> TuSession]
    /\ running \subseteq TimerRecord
    /\ wire \subseteq WireRecord
    /\ answers \in [Requests -> SUBSET {200, 500}]
    /\ stat \in [sent : Nat, received : Nat]

Attached(t) == tu[t].parent # None

Routed(w) == worker[w].pc = "routed"

\* Worker w has obtained session o and not yet opened it.
Opens(w, o) == Routed(w) /\ worker[w].ih = o /\ worker[w].msg.mid = None

\* The pool of containers is conserved: parent and member point at each other,
\* distinct busy sessions have distinct ids, and an ih::Session that is out of its
\* pool without a member is in the hands of exactly the worker that obtained it;
\* otherwise some path of OnReceive (session.cpp:45-63) forgot to Release it.  Of
\* the pool of transactions it says nothing: a failed Attach loses one of them.
PoolConservation ==
    /\ \A t \in Slots : Attached(t) => ih[tu[t].parent].tu = t
    /\ \A o \in Slots : ih[o].tu # None => tu[ih[o].tu].parent = o
    /\ \A o, p \in Slots : ih[o].sid = ih[p].sid /\ ih[o].sid # None => o = p
    /\ \A o \in Slots : ih[o].sid # None /\ ih[o].mid = None => \E w \in Workers : Opens(w, o)
    /\ \A o \in Slots, w, v \in Workers : Opens(w, o) /\ Opens(v, o) => w = v

\* A worker that obtained an ih::Session always finds a free tu::Session: the
\* pools have one size and every release returns both (rp_pool.cpp:39-49), so
\* the RESOURCE_OBTAIN_FAIL of tum/manager.cpp:33 cannot occur.
TuAvailable ==
    \A w \in Workers, o \in Slots : Opens(w, o) => FreeTus # {}

\* The timeout of timer e will still reach the transaction: the timer runs, or
\* its event is queued, or a worker holds it for this very session.
WillFire(t, e) ==
    LET o == tu[t].parent
        x == [owner |-> tu[t].owner, type |-> e, sid |-> ih[o].sid, mid |-> ih[o].mid]
        m == TimeoutMessage(x)
    IN  /\ e \in tu[t].armed
        /\ \/ x \in running
           \/ m \in inbox
           \/ \E w \in Workers : Routed(w) /\ worker[w].ih = o /\ worker[w].msg = m

\* No session can be forgotten: a live transaction always has its inactivity
\* timeout coming, one that has not sent its trigger, one that has sent its
\* response timeout, whatever was lost, late or delivered to the wrong session.
GuardedSessions ==
    \A t \in Slots : Attached(t) =>
        /\ WillFire(t, "SESSION_INACTIVITY_TIMEOUT")
        /\ tu[t].step = "NONE" => WillFire(t, "TRIGGER_SCENARIO")
        /\ tu[t].step = "S1_SEND_REQUEST" => WillFire(t, "HTTP_RESPONSE_TIMEOUT")

\* Release leaves no timer behind: every timer that runs belongs to a live
\* transaction which knows it, and carries its session's current ids.  It holds
\* where no identifier is handed out that equals, in the bits a reply brings back,
\* one something still carries (~MidsReused).
NoOrphanTimers ==
    \A x \in running : \E t \in Slots :
        /\ Attached(t)
        /\ tu[t].owner = x.owner
        /\ x.type \in tu[t].armed
        /\ ih[tu[t].parent].sid = x.sid
        /\ ih[tu[t].parent].mid = x.mid

\* A message that passes Session::Find reaches the transaction it was meant for,
\* although the session may have been released and obtained again between the
\* hub's lookup (interface_hub.cpp:125) and the lock (session.cpp:32).  A reply
\* names its member by 16 bits (http1_api.cpp:97), so it holds where no identifier
\* is handed out that equals in them one something still carries (~MidsReused).
DeliveryAddressed ==
    \A w \in Workers :
        Routed(w) /\ worker[w].msg.mid # None /\ ih[worker[w].ih].mid = worker[w].msg.mid
        => tu[Target(w)].owner = worker[w].msg.owner

\* A message for a member never meets an FSM that has no handler for it: the
\* INVALID_STATE handlers of tum/fsm.cpp:71-100 are never called.
NeverInvalidState ==
    \A w \in Workers :
        Routed(w) /\ worker[w].msg.mid # None /\ ih[worker[w].ih].mid = worker[w].msg.mid
        => tu[Target(w)].fsm = "API"

\* The statistics never show more replies than requests, although the reply may
\* arrive before its request is counted (fsm_api_1.cpp:143-148).
CountsOrdered == stat.received <= stat.sent

\* While a worker is inside OnReceive no other thread touches that session, its
\* transaction, or the timers the transaction has running, but to let one expire.
LockProtects ==
    [][\A o \in Slots : lock[o] # None /\ lock'[o] = lock[o] =>
         /\ ih'[o] = ih[o]
         /\ tu'[ih[o].tu] = tu[ih[o].tu]
         /\ \A x \in running \ running' :
              x.owner = tu[ih[o].tu].owner => inbox' = inbox \cup {TimeoutMessage(x)}]_vars

\* A tu::Session a failed Attach left taken (manager.cpp:39-42): it has an owner
\* and no session, and nobody will give it back.
Stranded(t) == tu[t].owner # None /\ ~Attached(t)

\* A client that sent a request is answered, 200 or, with the pool exhausted,
\* 500, unless an Attach fails: session.cpp:60-63 only releases.  Every request
\* left without an answer has cost the pool a transaction, or met a pool that
\* lost one that way.
EveryRequestAnswered ==
    \A r \in Requests :
        r \notin unsent ~> answers[r] # {} \/ \E t \in Slots : Stranded(t)

\* Every ih::Session taken from the pool comes back, even if no server answers.
SessionsReturn == \A o \in Slots : ih[o].sid # None ~> ih[o].sid = None

-----------------------------------------------------------------------------
(* The abstract specification the engine implements. *)

Phase(c) ==
    LET opening == OpeningMessage(c)
        Live(t) == tu[t].owner = c /\ Attached(t)
    IN  CASE c \in unsent -> "new"
          [] \/ opening \in inbox
             \/ \E w \in Workers : Routed(w) /\ worker[w].msg = opening -> "queued"
          [] \E t \in Slots : Live(t) /\ tu[t].step = "NONE" -> "scheduled"
          [] \E t \in Slots : Live(t) /\ lock[tu[t].parent] # None -> "requesting"
          [] \E t \in Slots : Live(t) /\ lock[tu[t].parent] = None
                                      /\ tu[t].step # "NONE" -> "waiting"
          [] OTHER -> "ended"

Promise == INSTANCE Exchange WITH
    phase    <- [c \in Commands |-> Phase(c)],
    sent     <- stat.sent,
    received <- stat.received

\* The safety half of Exchange: every step of the engine is one of its steps or
\* leaves it alone, with several sessions at a time, where no identifier is handed
\* out that equals, in the bits a reply brings back, one something still carries.
PromiseSafe == Promise!Init /\ [][Promise!Next]_(Promise!vars)

\* Every load command gets through the phases of Exchange: at most one request,
\* a reply counted at most once and after its request, and an end in any case
\* (under the condition of PromiseSafe).
PromiseKept == Promise!Spec

=============================================================================
