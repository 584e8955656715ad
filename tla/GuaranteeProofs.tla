--------------------------- MODULE GuaranteeProofs ---------------------------
(***************************************************************************)
(* What the engine guarantees of a session, from the invariants of its      *)
(* messages: a lock protects what it covers, a live session always has a     *)
(* timeout coming, a released one leaves no timer behind, and a session that *)
(* is being opened finds a free transaction.                                *)
(***************************************************************************)
EXTENDS LoadSessionProofs

\* GiveUp, EndScenario and ReceiveResponse: a message is handled by a release.
Releasing(w, type, cleared) ==
    /\ Deliver(w, type) /\ Release(worker[w].ih, Target(w), cleared) /\ Leave(w)
    /\ UNCHANGED <<unsent, lock, wire, answers>>
    /\ \/ UNCHANGED inbox
       \/ /\ type = "TIMER_EVENT" /\ tu[Target(w)].step = "NONE"
          /\ inbox' = inbox \cup {TimeoutMessage(Requested(w))}
    /\ cleared = IF type = "TIMER_EVENT" THEN {worker[w].msg.timer} ELSE {}

LEMMA ReleasingStep ==
  ASSUME NEW w \in Workers, GiveUp(w) \/ EndScenario(w) \/ ReceiveResponse(w)
  PROVE  \E type \in {"TIMER_EVENT", "HTTP_RESPONSE"} : \E cleared : Releasing(w, type, cleared)
<1>1. CASE GiveUp(w)
  <2>1. Releasing(w, "TIMER_EVENT", {worker[w].msg.timer})
    BY <1>1 DEF GiveUp, Releasing
  <2> QED
    BY <2>1
<1>2. CASE EndScenario(w)
  <2>1. Releasing(w, "TIMER_EVENT", {worker[w].msg.timer})
    BY <1>2, EndScenarioStep DEF Releasing
  <2> QED
    BY <2>1
<1>3. CASE ReceiveResponse(w)
  <2>1. Releasing(w, "HTTP_RESPONSE", {})
    BY <1>3 DEF ReceiveResponse, Releasing
  <2> QED
    BY <2>1
<1> QED
  BY <1>1, <1>2, <1>3

LEMMA ReleasingLeaves ==
  ASSUME Inv, LifeInv, NEW w \in Workers, NEW type \in {"TIMER_EVENT", "HTTP_RESPONSE"},
         NEW cleared, Releasing(w, type, cleared)
  PROVE  /\ Routed(w) /\ Target(w) \in Slots /\ Attached(Target(w))
         /\ tu[Target(w)].parent = worker[w].ih /\ worker[w].ih \in Slots
         /\ lock[worker[w].ih] = None
         /\ TransactionsKept /\ LockedKept
         /\ tu'[Target(w)] = TuIdle
         /\ \A t \in Slots : t # Target(w) => tu'[t] = tu[t]
         /\ running' = running \ Stopped(Target(w), cleared)
         /\ LeavesTimeouts({worker[w].msg}
                           \cup {TimeoutMessage(x) : x \in Stopped(Target(w), cleared)})
<1> DEFINE u == Target(w)
           stopped == {TimeoutMessage(x) : x \in Stopped(u, cleared)}
<1>1. /\ Deliver(w, type) /\ Release(worker[w].ih, u, cleared) /\ Leave(w)
      /\ UNCHANGED <<unsent, lock, wire>>
      /\ \/ UNCHANGED inbox
         \/ /\ type = "TIMER_EVENT" /\ tu[Target(w)].step = "NONE"
            /\ inbox' = inbox \cup {TimeoutMessage(Requested(w))}
  BY DEF Releasing
<1>2. /\ Routed(w) /\ u \in Slots /\ tu[u].parent = worker[w].ih /\ worker[w].ih \in Slots
      /\ lock[worker[w].ih] = None
  BY <1>1, Delivered, Entered
<1>3. Attached(u)
  BY <1>2, NoneAssumption DEF Attached
<1>4. running' = running \ Stopped(u, cleared)
  BY <1>1 DEF Release, Stopped
<1>5. /\ TransactionsKept /\ LockedKept
      /\ tu'[u] = TuIdle
      /\ \A t \in Slots : t # u => tu'[t] = tu[t]
      /\ Due' = Due \ stopped
  BY <1>1, ReleaseKeeps
<1>6. stopped \subseteq Due
  BY DueIn DEF Stopped
<1>7. /\ stopped \cap inbox = {} /\ stopped \cap Held = {}
      /\ worker[w].msg \notin Due /\ worker[w].msg \notin inbox
  BY <1>2, <1>6 DEF LifeInv, Placed, Held
<1>8. ASSUME inbox' = inbox
      PROVE  LeavesTimeouts({worker[w].msg} \cup stopped)
  <2>1. Held' = Held \ {worker[w].msg}
    BY <1>1, <1>2, <1>5, <1>8, LeaveMessages DEF LifeInv
  <2> HIDE DEF stopped
  <2>2. Messages' = (Messages \ ({worker[w].msg} \cup stopped)) \cup {}
    BY <1>5, <1>7, <1>8, <2>1 DEF Messages
  <2> QED
    BY <2>2 DEF LeavesTimeouts
<1>9. ASSUME type = "TIMER_EVENT", tu[Target(w)].step = "NONE",
             inbox' = inbox \cup {TimeoutMessage(Requested(w))}
      PROVE  LeavesTimeouts({worker[w].msg} \cup stopped)
  <2> DEFINE late == TimeoutMessage(Requested(w))
  <2>1. Messages' = Due' \cup (inbox \cup {late}) \cup (Held \ {worker[w].msg})
    BY <1>1, <1>9, LateReleaseLife
  <2>2. late.type = "TIMER_EVENT"
    BY DEF TimeoutMessage
  <2> HIDE DEF stopped, late
  <2>3. Messages' = (Messages \ ({worker[w].msg} \cup stopped)) \cup {late}
    BY <1>5, <1>7, <2>1 DEF Messages
  <2> QED
    BY <2>2, <2>3 DEF LeavesTimeouts
<1>10. LeavesTimeouts({worker[w].msg} \cup stopped)
  BY <1>1, <1>8, <1>9
<1> QED
  BY <1>2, <1>3, <1>4, <1>5, <1>10 DEF u

-----------------------------------------------------------------------------
(* The lock. *)

\* What LockProtects says of one step.
LockStep ==
    \A o \in Slots : lock[o] # None /\ lock'[o] = lock[o] =>
         /\ ih'[o] = ih[o]
         /\ tu'[ih[o].tu] = tu[ih[o].tu]
         /\ \A x \in running \ running' :
              x.owner = tu[ih[o].tu].owner => inbox' = inbox \cup {TimeoutMessage(x)}

LEMMA TimersGrow ==
  ASSUME LockedKept, running \subseteq running'
  PROVE  LockStep
BY DEF LockedKept, LockStep

LEMMA RoutingLock ==
  ASSUME Inv, NEW w \in Workers, Routing(w)
  PROVE  LockStep
<1> PICK m \in inbox : \/ \E o \in Slots : Find(w, m, o)
                       \/ FindFails(w, m)
                       \/ \E o \in Slots, s \in Sids : Obtain(w, m, o, s)
                       \/ ObtainFails(w, m)
  BY DEF Routing
<1>1. ASSUME NEW o \in Slots, Find(w, m, o) PROVE LockStep
  BY <1>1, TimersGrow DEF Find, LockedKept
<1>2. CASE FindFails(w, m) \/ ObtainFails(w, m)
  BY <1>2, TimersGrow DEF FindFails, ObtainFails, LockedKept
<1>3. ASSUME NEW o \in Slots, NEW s \in Sids, Obtain(w, m, o, s) PROVE LockStep
  <2>1. /\ ih[o].sid = None /\ ih' = [ih EXCEPT ![o].sid = s]
        /\ UNCHANGED <<lock, tu, running>>
    BY <1>3 DEF Obtain
  <2>2. \A p \in Slots : lock[p] # None => p # o
    BY <2>1, NoneAssumption DEF Inv, PoolInv, LocksHeld, MembersShaped
  <2>3. \A p \in Slots : p # o => ih'[p] = ih[p]
    BY <2>1 DEF Inv, TypeOK
  <2> QED
    BY <2>1, <2>2, <2>3, TimersGrow DEF LockedKept
<1> QED
  BY <1>1, <1>2, <1>3

LEMMA ReleasingLock ==
  ASSUME Inv, LifeInv, NEW w \in Workers, GiveUp(w) \/ EndScenario(w) \/ ReceiveResponse(w)
  PROVE  LockStep
<1> PICK type \in {"TIMER_EVENT", "HTTP_RESPONSE"} : \E cleared : Releasing(w, type, cleared)
  BY ReleasingStep
<1> PICK cleared : Releasing(w, type, cleared)
  OBVIOUS
<1> DEFINE u == Target(w)
<1>1. /\ u \in Slots /\ Attached(u) /\ tu[u].parent = worker[w].ih
      /\ lock[worker[w].ih] = None /\ LockedKept
      /\ running' = running \ Stopped(u, cleared)
  BY ReleasingLeaves
<1> HIDE DEF u
<1> SUFFICES ASSUME NEW p \in Slots, lock[p] # None, NEW x \in running \ running'
             PROVE  x.owner # tu[ih[p].tu].owner
  BY <1>1 DEF LockStep, LockedKept
<1>2. x.owner = tu[u].owner
  BY <1>1 DEF Stopped
<1>3. ih[p].tu \in Slots /\ tu[ih[p].tu].parent = p
  BY LockedAttached
<1>4. ih[p].tu # u /\ Attached(ih[p].tu)
  BY <1>1, <1>3, NoneAssumption DEF Attached
<1> QED
  BY <1>1, <1>2, <1>3, <1>4 DEF LifeInv, OwnersDistinct

LEMMA NextLock ==
  ASSUME Inv, LifeInv, [Next]_vars
  PROVE  LockStep
<1>1. ASSUME NEW c \in Owners, Submit(c) PROVE LockStep
  BY <1>1, TimersGrow DEF Submit, LockedKept
<1>2. ASSUME NEW x \in running, Expire(x) PROVE LockStep
  BY <1>2 DEF Expire, LockStep
<1>3. ASSUME NEW x \in wire, Respond(x) \/ Lose(x) PROVE LockStep
  BY <1>3, TimersGrow DEF Respond, Lose, LockedKept
<1>4. ASSUME NEW w \in Workers, Opening(w) PROVE LockStep
  <2>1. CASE ManagerFails(w) \/ \E t \in Slots, k \in Mids : OpenAndRelease(w, t, k)
    BY <2>1, UnopenedStep, TimersGrow
  <2>2. ASSUME NEW t \in Slots, NEW k \in Mids, StartScenario(w, t, k) PROVE LockStep
    <3>1. LockedKept
      BY <2>2, StartScenarioLife
    <3>2. running \subseteq running'
      BY <2>2 DEF StartScenario
    <3> QED
      BY <3>1, <3>2, TimersGrow
  <2> QED
    BY <1>4, <2>1, <2>2 DEF Opening
<1>5. ASSUME NEW w \in Workers, Delivering(w) PROVE LockStep
  <2>1. CASE MemberNotFound(w) \/ TimeoutIgnored(w)
    BY <2>1, IgnoreLife, TimersGrow DEF MemberNotFound, TimeoutIgnored
  <2>2. CASE SendRequest(w)
    BY <2>2, SendRequestLife, SendRequestStep, TimersGrow
  <2> QED
    BY <1>5, <2>1, <2>2, ReleasingLock DEF Delivering
<1>6. ASSUME NEW w \in Workers, CountSent(w) PROVE LockStep
  BY <1>6, CountSentStep, TimersGrow DEF LockedKept
<1>7. CASE UNCHANGED vars
  BY <1>7 DEF vars, LockStep
<1> QED
  BY <1>1, <1>2, <1>3, <1>4, <1>5, <1>6, <1>7, RoutingLock DEF Next, TimerThread, Work

\* While a worker is inside OnReceive no other thread touches that session, its
\* transaction, or the timers the transaction has running, but to let one expire.
THEOREM LocksProtect == Spec => LockProtects
<1>1. Inv /\ LifeInv /\ [Next]_vars => [LockStep]_vars
  BY NextLock
<1> QED
  BY <1>1, LifeInvariance, PTL DEF Spec, LockProtects, LockStep

-----------------------------------------------------------------------------
(* Every live session has a timeout coming. *)

\* The timeout e of transaction t, as a message.
Guard(t, e) ==
    TimeoutMessage([owner |-> tu[t].owner, type |-> e,
                    sid |-> ih[tu[t].parent].sid, mid |-> ih[tu[t].parent].mid])

Guarded(t, e) == e \in tu[t].armed /\ Guard(t, e) \in Messages

Guards ==
    \A t \in Slots : Attached(t) =>
        /\ Guarded(t, "SESSION_INACTIVITY_TIMEOUT")
        /\ tu[t].step = "NONE" => Guarded(t, "TRIGGER_SCENARIO")
        /\ tu[t].step = "S1_SEND_REQUEST" => Guarded(t, "HTTP_RESPONSE_TIMEOUT")

LEMMA GuardFields ==
  ASSUME NEW t, NEW e
  PROVE  /\ Guard(t, e).type = "TIMER_EVENT" /\ Guard(t, e).timer = e
         /\ Guard(t, e).owner = tu[t].owner
         /\ Guard(t, e).sid = ih[tu[t].parent].sid /\ Guard(t, e).mid = ih[tu[t].parent].mid
BY DEF Guard, TimeoutMessage

\* Transaction t is as it was, and so are the messages that guard it.
Watched(t) ==
    /\ Attached(t) /\ tu'[t] = tu[t] /\ ih'[tu[t].parent] = ih[tu[t].parent]
    /\ \A e \in tu[t].armed : Guard(t, e) \in Messages => Guard(t, e) \in Messages'

LEMMA WatchedGuards ==
  ASSUME Guards, NEW t \in Slots, Watched(t)
  PROVE  /\ Guarded(t, "SESSION_INACTIVITY_TIMEOUT")'
         /\ tu'[t].step = "NONE" => Guarded(t, "TRIGGER_SCENARIO")'
         /\ tu'[t].step = "S1_SEND_REQUEST" => Guarded(t, "HTTP_RESPONSE_TIMEOUT")'
<1>1. /\ Guarded(t, "SESSION_INACTIVITY_TIMEOUT")
      /\ tu[t].step = "NONE" => Guarded(t, "TRIGGER_SCENARIO")
      /\ tu[t].step = "S1_SEND_REQUEST" => Guarded(t, "HTTP_RESPONSE_TIMEOUT")
  BY DEF Guards, Watched
<1>2. \A e : Guarded(t, e) => Guarded(t, e)'
  <2> SUFFICES ASSUME NEW e, Guarded(t, e) PROVE Guarded(t, e)'
    OBVIOUS
  <2>1. Guard(t, e)' = Guard(t, e)
    BY DEF Watched, Guard, TimeoutMessage
  <2> QED
    BY <2>1 DEF Watched, Guarded
<1>3. tu'[t].step = tu[t].step
  BY DEF Watched
<1> QED
  BY <1>1, <1>2, <1>3

LEMMA AllWatched ==
  ASSUME Guards, \A t \in Slots : Attached(t)' => Watched(t)
  PROVE  Guards'
BY WatchedGuards DEF Guards

\* No session changes; a message that is dropped guards nobody.
LEMMA UnguardedDrop ==
  ASSUME Guards, UNCHANGED tu, NEW m, Messages \ {m} \subseteq Messages',
         \A t \in Slots : Attached(t) => ih'[tu[t].parent] = ih[tu[t].parent],
         \A t \in Slots : Attached(t) => \A e \in tu[t].armed : Guard(t, e) # m
  PROVE  Guards'
<1>1. \A t \in Slots : Attached(t)' => Watched(t)
  BY DEF Watched, Attached
<1> QED
  BY <1>1, AllWatched

LEMMA SameMessages ==
  ASSUME Guards, UNCHANGED tu, Messages' = Messages,
         \A t \in Slots : Attached(t) => ih'[tu[t].parent] = ih[tu[t].parent]
  PROVE  Guards'
<1>1. \A t \in Slots : Attached(t)' => Watched(t)
  BY DEF Watched, Attached
<1> QED
  BY <1>1, AllWatched

\* A message that is delivered moves; a lost one was a reply.
LEMMA EnvironmentMessages ==
  ASSUME NEW m \in Due, Due' = Due \ {m}, UNCHANGED worker
  PROVE  /\ inbox' = inbox \cup {m} => Messages' = Messages
         /\ inbox' = inbox => Messages \ {m} \subseteq Messages'
<1>1. Held' = Held
  BY DEF Held, Routed
<1> QED
  BY <1>1 DEF Messages

LEMMA EnvironmentGuards ==
  ASSUME Inv, LifeInv, Guards,
         \/ \E c \in Owners : Submit(c)
         \/ TimerThread
         \/ \E x \in wire : Respond(x) \/ Lose(x)
  PROVE  Guards'
<1>1. ASSUME NEW c \in Owners, Submit(c) PROVE Guards'
  BY <1>1, SubmitDue, EnvironmentMessages, SameMessages DEF Submit
<1>2. ASSUME NEW x \in running, Expire(x) PROVE Guards'
  BY <1>2, ExpireDue, EnvironmentMessages, SameMessages DEF Expire
<1>3. ASSUME NEW x \in wire, Respond(x) PROVE Guards'
  BY <1>3, WireDue, EnvironmentMessages, SameMessages DEF Respond
<1>4. ASSUME NEW x \in wire, Lose(x) PROVE Guards'
  <2>1. Messages \ {ResponseMessage(x)} \subseteq Messages' /\ UNCHANGED <<tu, ih>>
    BY <1>4, WireDue, EnvironmentMessages DEF Lose
  <2>2. \A t, e : Guard(t, e) # ResponseMessage(x)
    BY GuardFields DEF ResponseMessage
  <2> QED
    BY <2>1, <2>2, UnguardedDrop
<1> QED
  BY <1>1, <1>2, <1>3, <1>4 DEF TimerThread

LEMMA RoutingGuards ==
  ASSUME Inv, LifeInv, Guards, NEW w \in Workers, Routing(w)
  PROVE  Guards'
<1> PICK m \in inbox : \/ \E o \in Slots : Find(w, m, o)
                       \/ FindFails(w, m)
                       \/ \E o \in Slots, s \in Sids : Obtain(w, m, o, s)
                       \/ ObtainFails(w, m)
  BY DEF Routing
<1>1. ASSUME NEW o \in Slots, Find(w, m, o) PROVE Guards'
  BY <1>1, FindLife, SameMessages DEF Find
<1>2. ASSUME NEW o \in Slots, NEW s \in Sids, Obtain(w, m, o, s) PROVE Guards'
  <2>1. /\ Messages' = Messages
        /\ ih[o].sid = None /\ ih' = [ih EXCEPT ![o].sid = s] /\ UNCHANGED tu
    BY <1>2, ObtainLife DEF Obtain
  <2>2. \A t \in Slots : Attached(t) => tu[t].parent \in Slots /\ tu[t].parent # o
    BY <2>1, AttachedTyped, NoneAssumption
  <2>3. \A p \in Slots : p # o => ih'[p] = ih[p]
    BY <2>1 DEF Inv, TypeOK
  <2> QED
    BY <2>1, <2>2, <2>3, SameMessages
<1>3. CASE FindFails(w, m)
  <2>1. /\ Messages' = Messages \ {m} /\ UNCHANGED <<tu, ih>>
        /\ \A o \in Slots : ih[o].sid # m.sid
    BY <1>3, DropLife DEF FindFails
  <2>2. \A t \in Slots : Attached(t) => \A e \in tu[t].armed : Guard(t, e) # m
    BY <2>1, AttachedTyped, GuardFields
  <2> QED
    BY <2>1, <2>2, UnguardedDrop
<1>4. CASE ObtainFails(w, m)
  <2>1. /\ Messages' = Messages \ {m} /\ UNCHANGED <<tu, ih>>
        /\ m.sid = None
    BY <1>4, DropLife DEF ObtainFails
  <2>2. \A t \in Slots : Attached(t) => \A e \in tu[t].armed : Guard(t, e) # m
    BY <2>1, AttachedTyped, GuardFields, NoneAssumption
  <2> QED
    BY <2>1, <2>2, UnguardedDrop
<1> QED
  BY <1>1, <1>2, <1>3, <1>4

\* A worker that holds a guard of t is at the session of t, and t is its target.
LEMMA GuardHeld ==
  ASSUME Inv, LifeInv, NEW w \in Workers, Routed(w), NEW t \in Slots, Attached(t),
         NEW e, worker[w].msg = Guard(t, e)
  PROVE  /\ worker[w].ih = tu[t].parent /\ Target(w) = t
         /\ worker[w].msg.mid = ih[worker[w].ih].mid /\ worker[w].msg.mid # None
         /\ worker[w].msg.timer = e
<1>1. worker[w].ih = tu[t].parent
  BY GuardFields DEF LifeInv, Bound
<1>2. Target(w) = t
  BY <1>1, AttachedTyped DEF Target
<1>3. worker[w].msg.mid \in Mids
  BY GuardFields, AttachedTyped
<1> QED
  BY <1>1, <1>2, <1>3, GuardFields, UnpackedIds

LEMMA OpeningGuards ==
  ASSUME Inv, LifeInv, Guards, NEW w \in Workers, Opening(w)
  PROVE  Guards'
<1>1. CASE ManagerFails(w) \/ \E t \in Slots, k \in Mids : OpenAndRelease(w, t, k)
  <2>1. /\ Routed(w) /\ worker[w].msg.mid = None /\ TransactionsKept
        /\ \A t \in Slots : Attached(t) => tu'[t] = tu[t]
        /\ Messages \ {worker[w].msg} \subseteq Messages'
    BY <1>1, UnopenedStep, UnopenedLife DEF LeavesTimeouts
  <2>2. \A t \in Slots : Attached(t) => \A e \in tu[t].armed : Guard(t, e) # worker[w].msg
    BY <2>1, GuardHeld
  <2>3. \A t \in Slots : Attached(t)' => Watched(t)
    BY <2>1, <2>2 DEF TransactionsKept, Watched
  <2> QED
    BY <2>3, AllWatched
<1>2. ASSUME NEW t \in Slots, NEW k \in Mids, StartScenario(w, t, k) PROVE Guards'
  <2> DEFINE o == worker[w].ih
             c == worker[w].msg.owner
  <2>1. /\ Routed(w) /\ worker[w].msg.mid = None /\ o \in Slots
        /\ ~Attached(t)
        /\ ih'[o] = [sid |-> ih[o].sid, mid |-> k, tu |-> t]
        /\ tu'[t] = [owner |-> c, parent |-> o, fsm |-> "API", step |-> "NONE",
                     armed |-> FirstTimers]
        /\ \A p \in Slots : p # o => ih'[p] = ih[p]
        /\ \A u \in Slots : u # t => tu'[u] = tu[u]
        /\ \A u \in Slots : Attached(u) => tu[u].parent # o
    BY <1>2, StartScenarioStep DEF Started
  <2>2. Messages' = (Messages \ {worker[w].msg}) \cup FirstTimeouts(c, ih[o].sid, k)
    BY <1>2, StartScenarioLife
  <2> HIDE DEF o, c
  <2>3. \A e \in FirstTimers : Guarded(t, e)'
    <3> SUFFICES ASSUME NEW e \in FirstTimers PROVE Guarded(t, e)'
      OBVIOUS
    <3>1. Guard(t, e)' = TimeoutMessage([owner |-> c, type |-> e, sid |-> ih[o].sid, mid |-> k])
      BY <2>1 DEF Guard, TimeoutMessage
    <3>2. Guard(t, e)' \in FirstTimeouts(c, ih[o].sid, k)
      BY <3>1 DEF FirstTimeouts
    <3> QED
      BY <2>1, <2>2, <3>2 DEF Guarded
  <2>4. \A u \in Slots : u # t /\ Attached(u)' => Watched(u)
    <3> SUFFICES ASSUME NEW u \in Slots, u # t, Attached(u)' PROVE Watched(u)
      OBVIOUS
    <3>1. Attached(u) /\ tu'[u] = tu[u]
      BY <2>1 DEF Attached
    <3>2. ih'[tu[u].parent] = ih[tu[u].parent]
      BY <2>1, <3>1, AttachedTyped
    <3>3. \A e \in tu[u].armed : Guard(u, e) # worker[w].msg
      BY <2>1, <3>1, GuardHeld
    <3> QED
      BY <2>2, <3>1, <3>2, <3>3 DEF Watched
  <2>5. tu'[t].step = "NONE"
    BY <2>1
  <2> QED
    BY <2>3, <2>4, <2>5, WatchedGuards DEF Guards, FirstTimers
<1> QED
  BY <1>1, <1>2 DEF Opening

LEMMA DeliveringGuards ==
  ASSUME Inv, LifeInv, Guards, NEW w \in Workers, Delivering(w)
  PROVE  Guards'
<1>1. CASE MemberNotFound(w) \/ TimeoutIgnored(w)
  <2>1. /\ Routed(w) /\ Messages' = Messages \ {worker[w].msg} /\ UNCHANGED <<tu, ih>>
        /\ \/ ih[worker[w].ih].mid # worker[w].msg.mid
           \/ worker[w].msg.timer \notin tu[Target(w)].armed
    BY <1>1, IgnoreLife DEF MemberNotFound, TimeoutIgnored, Deliver, Enter, Routed
  <2>2. \A t \in Slots : Attached(t) => \A e \in tu[t].armed : Guard(t, e) # worker[w].msg
    BY <2>1, GuardHeld
  <2> QED
    BY <2>1, <2>2, UnguardedDrop
<1>2. CASE GiveUp(w) \/ EndScenario(w) \/ ReceiveResponse(w)
  <2> PICK type \in {"TIMER_EVENT", "HTTP_RESPONSE"} : \E cleared : Releasing(w, type, cleared)
    BY <1>2, ReleasingStep
  <2> PICK cleared : Releasing(w, type, cleared)
    OBVIOUS
  <2> DEFINE u == Target(w)
             stopped == {TimeoutMessage(x) : x \in Stopped(u, cleared)}
  <2>1. /\ Routed(w) /\ u \in Slots /\ Attached(u) /\ TransactionsKept
        /\ tu'[u] = TuIdle
        /\ \A t \in Slots : t # u => tu'[t] = tu[t]
        /\ Messages \ ({worker[w].msg} \cup stopped) \subseteq Messages'
    BY ReleasingLeaves DEF LeavesTimeouts
  <2>2. \A m \in stopped : m.owner = tu[u].owner
    BY DEF Stopped, TimeoutMessage
  <2> HIDE DEF u, stopped
  <2>3. ASSUME NEW t \in Slots, Attached(t)' PROVE Watched(t)
    <3>1. t # u /\ Attached(t) /\ tu'[t] = tu[t] /\ ih'[tu[t].parent] = ih[tu[t].parent]
      BY <2>1, <2>3 DEF TransactionsKept, Attached, TuIdle
    <3>2. tu[t].owner # tu[u].owner
      BY <2>1, <3>1 DEF LifeInv, OwnersDistinct
    <3>3. \A e : Guard(t, e) \notin stopped
      BY <2>2, <3>2, GuardFields
    <3>4. \A e : Guard(t, e) # worker[w].msg
      BY <2>1, <3>1, GuardHeld DEF u
    <3> QED
      BY <2>1, <3>1, <3>3, <3>4 DEF Watched
  <2> QED
    BY <2>3, AllWatched
<1>3. CASE SendRequest(w)
  <2> PICK t \in Slots : t = Target(w)
    BY <1>3, SendRequestStep
  <2>1. /\ Routed(w) /\ worker[w].msg.timer = "TRIGGER_SCENARIO"
        /\ Attached(t)
        /\ tu'[t] = Awaiting(tu[t])
        /\ \A u \in Slots : u # t => tu'[u] = tu[u]
        /\ UNCHANGED ih
    BY <1>3, SendRequestStep
  <2>2. /\ Messages \ {worker[w].msg} \subseteq Messages'
        /\ Guard(t, "HTTP_RESPONSE_TIMEOUT") \in Messages'
    BY <1>3, <2>1, SendRequestLife DEF Others, Guard, ResponseTimer
  <2>3. /\ tu'[t].owner = tu[t].owner /\ tu'[t].parent = tu[t].parent
        /\ tu'[t].step = "S1_SEND_REQUEST"
        /\ tu'[t].armed = (tu[t].armed \ {"TRIGGER_SCENARIO"}) \cup {"HTTP_RESPONSE_TIMEOUT"}
    BY <2>1 DEF Awaiting
  <2>4. \A e : Guard(t, e)' = Guard(t, e)
    BY <2>1, <2>3 DEF Guard, TimeoutMessage
  <2>5. Guarded(t, "HTTP_RESPONSE_TIMEOUT")'
    BY <2>2, <2>3, <2>4 DEF Guarded
  <2>6. Guarded(t, "SESSION_INACTIVITY_TIMEOUT")'
    <3>1. Guarded(t, "SESSION_INACTIVITY_TIMEOUT")
      BY <2>1 DEF Guards
    <3>2. Guard(t, "SESSION_INACTIVITY_TIMEOUT") # worker[w].msg
      BY <2>1, GuardFields
    <3> QED
      BY <2>2, <2>3, <2>4, <3>1, <3>2 DEF Guarded
  <2>7. \A u \in Slots : u # t /\ Attached(u)' => Watched(u)
    <3> SUFFICES ASSUME NEW u \in Slots, u # t, Attached(u)' PROVE Watched(u)
      OBVIOUS
    <3>1. Attached(u) /\ tu'[u] = tu[u]
      BY <2>1 DEF Attached
    <3>2. \A e \in tu[u].armed : Guard(u, e) # worker[w].msg
      BY <2>1, <3>1, GuardHeld
    <3> QED
      BY <2>1, <2>2, <3>1, <3>2 DEF Watched
  <2> QED
    BY <2>3, <2>5, <2>6, <2>7, WatchedGuards DEF Guards
<1> QED
  BY <1>1, <1>2, <1>3 DEF Delivering

LEMMA NextGuards ==
  ASSUME Inv, LifeInv, Guards, [Next]_vars
  PROVE  Guards'
<1>1. ASSUME NEW w \in Workers, CountSent(w) PROVE Guards'
  BY <1>1, CountSentLife, SameMessages DEF CountSent
<1>2. CASE UNCHANGED vars
  <2>1. Messages' = Messages /\ UNCHANGED <<tu, ih>>
    BY <1>2 DEF vars, Messages, Due, Held, Routed
  <2> QED
    BY <2>1, SameMessages
<1> QED
  BY <1>1, <1>2, EnvironmentGuards, RoutingGuards, OpeningGuards, DeliveringGuards DEF Next, Work

\* A guard that is on the way will reach its session.
LEMMA GuardFires ==
  ASSUME Inv, LifeInv, NEW t \in Slots, Attached(t), NEW e, Guarded(t, e)
  PROVE  WillFire(t, e)
<1> DEFINE o == tu[t].parent
           x == [owner |-> tu[t].owner, type |-> e, sid |-> ih[o].sid, mid |-> ih[o].mid]
           m == TimeoutMessage(x)
<1>1. e \in tu[t].armed /\ m \in Messages /\ m = Guard(t, e)
  BY DEF Guarded, Guard
<1>2. m.type = "TIMER_EVENT"
  BY DEF TimeoutMessage
<1>3. e \in Timers /\ x \in TimerRecord
  <2>1. e \in Timers
    BY <1>1 DEF Inv, TypeOK, TuSession
  <2>2. tu[t].owner \in Owners
    BY DEF LifeInv, OwnersDistinct, Owners
  <2> QED
    BY <2>1, <2>2, AttachedTyped DEF TimerRecord
<1>4. CASE m \in Due
  <2>1. PICK y \in running : m = TimeoutMessage(y)
    <3>1. /\ \A c \in unsent : OpeningMessage(c).type # "TIMER_EVENT"
          /\ \A z \in wire : ResponseMessage(z).type # "TIMER_EVENT"
      BY DEF OpeningMessage, ResponseMessage
    <3> HIDE DEF m
    <3> QED
      BY <1>2, <1>4, <3>1 DEF Due
  <2>2. y \in TimerRecord
    BY DEF Inv, TypeOK
  <2>3. y.sid = x.sid /\ y.mid = x.mid /\ y.type = x.type /\ y.owner = x.owner
    BY <2>1 DEF TimeoutMessage
  <2>4. y = x
    <3> HIDE DEF x
    <3> QED
      BY <1>3, <2>2, <2>3 DEF TimerRecord
  <2> QED
    BY <1>1, <2>4 DEF WillFire
<1>5. CASE m \in inbox
  BY <1>1, <1>5 DEF WillFire
<1>6. CASE m \in Held
  <2>1. PICK w \in Workers : Routed(w) /\ worker[w].msg = m
    BY <1>6 DEF Held
  <2>2. worker[w].ih = o
    BY <1>1, <2>1, GuardHeld
  <2> QED
    BY <1>1, <2>1, <2>2 DEF WillFire
<1> QED
  BY <1>1, <1>4, <1>5, <1>6 DEF Messages

\* No session can be forgotten: a live transaction always has its inactivity
\* timeout coming, one that has not sent its trigger, one that has sent its
\* response timeout, even if identifiers are reused and late timeouts go astray.
THEOREM SessionsGuarded == Spec => []GuardedSessions
<1>1. Init => Guards
  BY DEF Init, Guards, Attached, TuIdle
<1>2. Inv /\ LifeInv /\ Guards /\ [Next]_vars => Guards'
  BY NextGuards
<1>3. Inv /\ LifeInv /\ Guards => GuardedSessions
  BY GuardFires DEF Guards, GuardedSessions
<1> QED
  BY <1>1, <1>2, <1>3, LifeInvariance, PTL DEF Spec

-----------------------------------------------------------------------------
(* No timer outlives its transaction. *)

\* Every timer that runs is known to a live transaction of its owner.
TimersKnown ==
    \A x \in running : \E t \in Slots :
        Attached(t) /\ tu[t].owner = x.owner /\ x.type \in tu[t].armed

LEMMA TransactionsStay ==
  ASSUME TimersKnown, running' \subseteq running,
         \A t \in Slots : Attached(t) => tu'[t] = tu[t]
  PROVE  TimersKnown'
BY DEF TimersKnown, Attached

\* A timer whose event a worker is handling does not run.
LEMMA DeliveredStopped ==
  ASSUME Inv, LifeInv, DeliveryAddressed, NEW w \in Workers, Deliver(w, "TIMER_EVENT"),
         NEW x \in running, x.owner = tu[Target(w)].owner
  PROVE  x.type # worker[w].msg.timer
<1>1. /\ Routed(w) /\ worker[w].msg.mid # None /\ worker[w].msg.type = "TIMER_EVENT"
      /\ ih[worker[w].ih].mid = worker[w].msg.mid
  BY Delivered, Entered DEF Deliver
<1>2. worker[w].msg.owner = x.owner
  BY <1>1 DEF DeliveryAddressed
<1>3. TimeoutMessage(x) \in Due /\ TimeoutMessage(x) \in Messages /\ worker[w].msg \in Messages
  BY <1>1, DueIn, HeldIn
<1>4. TimeoutMessage(x) # worker[w].msg
  BY <1>1, <1>3 DEF LifeInv, Placed
<1>5. ~SameKind(TimeoutMessage(x), worker[w].msg)
  BY <1>3, <1>4 DEF LifeInv, OneOfEach
<1> QED
  BY <1>1, <1>2, <1>5 DEF SameKind, TimeoutMessage

\* A release stops every timer of its transaction: the one whose entry was
\* cleared first is the one whose event is being handled.
LEMMA ReleasingTimers ==
  ASSUME Inv, LifeInv, DeliveryAddressed, TimersKnown, NEW w \in Workers,
         GiveUp(w) \/ EndScenario(w) \/ ReceiveResponse(w)
  PROVE  TimersKnown'
<1> PICK type \in {"TIMER_EVENT", "HTTP_RESPONSE"} : \E cleared : Releasing(w, type, cleared)
  BY ReleasingStep
<1> PICK cleared : Releasing(w, type, cleared)
  OBVIOUS
<1> DEFINE u == Target(w)
<1>1. /\ u \in Slots /\ Attached(u)
      /\ \A t \in Slots : t # u => tu'[t] = tu[t]
      /\ running' = running \ Stopped(u, cleared)
  BY ReleasingLeaves
<1>2. /\ Deliver(w, type)
      /\ cleared = IF type = "TIMER_EVENT" THEN {worker[w].msg.timer} ELSE {}
  BY DEF Releasing
<1>3. \A x \in running : x.owner = tu[u].owner => x.type \notin cleared
  BY <1>2, DeliveredStopped
<1> HIDE DEF u
<1> SUFFICES ASSUME NEW x \in running'
             PROVE  \E t \in Slots : Attached(t)' /\ tu'[t].owner = x.owner /\ x.type \in tu'[t].armed
  BY DEF TimersKnown
<1>4. x \in running /\ x \notin Stopped(u, cleared)
  BY <1>1
<1>5. PICK t \in Slots : Attached(t) /\ tu[t].owner = x.owner /\ x.type \in tu[t].armed
  BY <1>4 DEF TimersKnown
<1>6. t # u
  BY <1>3, <1>4, <1>5 DEF Stopped
<1> QED
  BY <1>1, <1>5, <1>6 DEF Attached

LEMMA SendRequestTimers ==
  ASSUME Inv, LifeInv, DeliveryAddressed, TimersKnown, NEW w \in Workers, SendRequest(w)
  PROVE  TimersKnown'
<1> PICK t \in Slots : t = Target(w)
  BY SendRequestStep
<1>1. /\ Deliver(w, "TIMER_EVENT") /\ worker[w].msg.timer = "TRIGGER_SCENARIO"
      /\ Attached(t)
      /\ tu'[t] = Awaiting(tu[t])
      /\ \A u \in Slots : u # t => tu'[u] = tu[u]
      /\ running' = running \cup {ResponseTimer(t)}
  BY SendRequestStep
<1>2. /\ tu'[t].owner = tu[t].owner /\ tu'[t].parent = tu[t].parent
      /\ tu'[t].armed = (tu[t].armed \ {"TRIGGER_SCENARIO"}) \cup {"HTTP_RESPONSE_TIMEOUT"}
  BY <1>1 DEF Awaiting
<1> SUFFICES ASSUME NEW x \in running'
             PROVE  \E u \in Slots : Attached(u)' /\ tu'[u].owner = x.owner /\ x.type \in tu'[u].armed
  BY DEF TimersKnown
<1>3. CASE x = ResponseTimer(t)
  BY <1>1, <1>2, <1>3 DEF ResponseTimer, Attached
<1>4. CASE x \in running
  <2>1. PICK u \in Slots : Attached(u) /\ tu[u].owner = x.owner /\ x.type \in tu[u].armed
    BY <1>4 DEF TimersKnown
  <2>2. CASE u = t
    <3>1. x.type # "TRIGGER_SCENARIO"
      BY <1>1, <1>4, <2>1, <2>2, DeliveredStopped
    <3> QED
      BY <1>2, <2>1, <2>2, <3>1 DEF Attached
  <2>3. CASE u # t
    BY <1>1, <2>1, <2>3 DEF Attached
  <2> QED
    BY <2>2, <2>3
<1> QED
  BY <1>1, <1>3, <1>4

LEMMA StartScenarioTimers ==
  ASSUME Inv, LifeInv, TimersKnown, NEW w \in Workers, NEW t \in Slots, NEW k \in Mids,
         StartScenario(w, t, k)
  PROVE  TimersKnown'
<1> DEFINE o == worker[w].ih
           c == worker[w].msg.owner
           begun == {[owner |-> c, type |-> e, sid |-> ih[o].sid, mid |-> k] : e \in FirstTimers}
<1>1. Started(w, t, k, o, c)
  BY StartScenarioStep
<1>2. /\ ~Attached(t) /\ o \in Slots
      /\ tu'[t] = [owner |-> c, parent |-> o, fsm |-> "API", step |-> "NONE",
                   armed |-> FirstTimers]
      /\ \A u \in Slots : u # t => tu'[u] = tu[u]
  BY <1>1 DEF Started
<1>3. running' = running \cup begun
  BY <1>1 DEF Started
<1>4. \A x \in begun : x.owner = c /\ x.type \in FirstTimers
  OBVIOUS
<1> HIDE DEF o, c, begun
<1>5. \A x \in running : \E u \in Slots :
        Attached(u)' /\ tu'[u].owner = x.owner /\ x.type \in tu'[u].armed
  BY <1>2 DEF TimersKnown, Attached
<1>6. Attached(t)'
  BY <1>2, NoneAssumption DEF Attached
<1> QED
  BY <1>2, <1>3, <1>4, <1>5, <1>6 DEF TimersKnown

LEMMA NextTimers ==
  ASSUME Inv, LifeInv, DeliveryAddressed, TimersKnown, [Next]_vars
  PROVE  TimersKnown'
<1>1. ASSUME NEW c \in Owners, Submit(c) PROVE TimersKnown'
  BY <1>1, TransactionsStay DEF Submit
<1>2. ASSUME NEW x \in running, Expire(x) PROVE TimersKnown'
  BY <1>2, TransactionsStay DEF Expire
<1>3. ASSUME NEW x \in wire, Respond(x) \/ Lose(x) PROVE TimersKnown'
  BY <1>3, TransactionsStay DEF Respond, Lose
<1>4. ASSUME NEW w \in Workers, Routing(w) \/ CountSent(w) PROVE TimersKnown'
  <2>1. UNCHANGED <<tu, running>>
    BY <1>4 DEF Routing, Find, FindFails, Obtain, ObtainFails, CountSent
  <2> QED
    BY <2>1, TransactionsStay
<1>5. ASSUME NEW w \in Workers, Opening(w) PROVE TimersKnown'
  <2>1. CASE ManagerFails(w) \/ \E t \in Slots, k \in Mids : OpenAndRelease(w, t, k)
    BY <2>1, UnopenedStep, TransactionsStay
  <2> QED
    BY <1>5, <2>1, StartScenarioTimers DEF Opening
<1>6. ASSUME NEW w \in Workers, Delivering(w) PROVE TimersKnown'
  <2>1. CASE MemberNotFound(w) \/ TimeoutIgnored(w)
    BY <2>1, TransactionsStay DEF MemberNotFound, TimeoutIgnored
  <2> QED
    BY <1>6, <2>1, ReleasingTimers, SendRequestTimers DEF Delivering
<1>7. CASE UNCHANGED vars
  BY <1>7, TransactionsStay DEF vars
<1> QED
  BY <1>1, <1>2, <1>3, <1>4, <1>5, <1>6, <1>7 DEF Next, TimerThread, Work

LEMMA KnownTimers ==
  ASSUME Inv, LifeInv, TimersKnown
  PROVE  NoOrphanTimers
<1> SUFFICES ASSUME NEW x \in running
             PROVE  \E t \in Slots :
                      /\ Attached(t)
                      /\ tu[t].owner = x.owner
                      /\ x.type \in tu[t].armed
                      /\ ih[tu[t].parent].sid = x.sid
                      /\ ih[tu[t].parent].mid = x.mid
  BY DEF NoOrphanTimers
<1>1. PICK t \in Slots : Attached(t) /\ tu[t].owner = x.owner /\ x.type \in tu[t].armed
  BY DEF TimersKnown
<1>2. TimeoutMessage(x) \in Messages
  BY DueIn
<1>3. /\ TimeoutMessage(x).owner = x.owner /\ TimeoutMessage(x).sid = x.sid
      /\ TimeoutMessage(x).mid = x.mid /\ TimeoutMessage(x).type = "TIMER_EVENT"
  BY DEF TimeoutMessage
<1> QED
  BY <1>1, <1>2, <1>3 DEF LifeInv, Bound

\* Release leaves no timer behind: every timer that runs belongs to a live
\* transaction that knows it and carries its session's current identifiers, as
\* long as the library hands out no member identifier equal in its low 16 bits to
\* one that something still carries.
THEOREM TimersOwned == ~MidsReused => (Spec => []NoOrphanTimers)
<1> SUFFICES ASSUME ~MidsReused PROVE Spec => []NoOrphanTimers
  OBVIOUS
<1>1. Init => TimersKnown
  BY DEF Init, TimersKnown
<1>2. Inv /\ LifeInv /\ DeliveryAddressed /\ TimersKnown /\ [Next]_vars => TimersKnown'
  BY NextTimers
<1>3. Inv /\ LifeInv /\ TimersKnown => NoOrphanTimers
  BY KnownTimers
<1>4. Spec => []DeliveryAddressed
  BY Addressed
<1> QED
  BY <1>1, <1>2, <1>3, <1>4, LifeInvariance, PTL DEF Spec

-----------------------------------------------------------------------------
(* The pools have one size. *)

\* A transaction that is out of its pool is attached.
TakenAttached == \A t \in Slots : tu[t].owner # None => Attached(t)

LEMMA StartScenarioTaken ==
  ASSUME Inv, LifeInv, TakenAttached, NEW w \in Workers, NEW t \in Slots, NEW k \in Mids,
         StartScenario(w, t, k)
  PROVE  TakenAttached'
<1> DEFINE o == worker[w].ih
           c == worker[w].msg.owner
<1>1. /\ o \in Slots
      /\ tu'[t] = [owner |-> c, parent |-> o, fsm |-> "API", step |-> "NONE",
                   armed |-> FirstTimers]
      /\ \A u \in Slots : u # t => tu'[u] = tu[u]
  BY StartScenarioStep DEF Started
<1> QED
  BY <1>1, NoneAssumption DEF TakenAttached, Attached

LEMMA NextTaken ==
  ASSUME Inv, LifeInv, ~AttachMayFail, TakenAttached, [Next]_vars
  PROVE  TakenAttached'
<1>1. ASSUME NEW w \in Workers, Routing(w) \/ CountSent(w) PROVE TakenAttached'
  <2>1. UNCHANGED tu
    BY <1>1 DEF Routing, Find, FindFails, Obtain, ObtainFails, CountSent
  <2> QED
    BY <2>1 DEF TakenAttached, Attached
<1>2. ASSUME NEW w \in Workers, Opening(w) PROVE TakenAttached'
  <2>1. CASE ManagerFails(w) \/ \E t \in Slots, k \in Mids : OpenAndRelease(w, t, k)
    <3>1. UNCHANGED tu
      BY <2>1 DEF ManagerFails, OpenAndRelease
    <3> QED
      BY <3>1 DEF TakenAttached, Attached
  <2> QED
    BY <1>2, <2>1, StartScenarioTaken DEF Opening
<1>3. ASSUME NEW w \in Workers, Delivering(w) PROVE TakenAttached'
  <2>1. CASE MemberNotFound(w) \/ TimeoutIgnored(w)
    BY <2>1 DEF MemberNotFound, TimeoutIgnored, TakenAttached, Attached
  <2>2. CASE GiveUp(w) \/ EndScenario(w) \/ ReceiveResponse(w)
    <3> PICK type \in {"TIMER_EVENT", "HTTP_RESPONSE"} : \E cleared : Releasing(w, type, cleared)
      BY <2>2, ReleasingStep
    <3> PICK cleared : Releasing(w, type, cleared)
      OBVIOUS
    <3>1. \A t \in Slots : tu'[t] \in {tu[t], TuIdle}
      BY ReleasingLeaves
    <3> QED
      BY <3>1 DEF TakenAttached, Attached, TuIdle
  <2>3. CASE SendRequest(w)
    <3> PICK t \in Slots : t = Target(w)
      BY <2>3, SendRequestStep
    <3>1. tu'[t] = Awaiting(tu[t]) /\ \A u \in Slots : u # t => tu'[u] = tu[u]
      BY <2>3, SendRequestStep
    <3>2. tu'[t].owner = tu[t].owner /\ tu'[t].parent = tu[t].parent
      BY <3>1 DEF Awaiting
    <3> QED
      BY <3>1, <3>2 DEF TakenAttached, Attached
  <2> QED
    BY <1>3, <2>1, <2>2, <2>3 DEF Delivering
<1>4. ASSUME UNCHANGED tu PROVE TakenAttached'
  BY <1>4 DEF TakenAttached, Attached
<1> QED
  BY <1>1, <1>2, <1>3, <1>4 DEF Next, TimerThread, Work, Submit, Expire, Respond, Lose, vars

\* With every transaction attached to a session of its own, no session is left
\* for an opener: there are as many of the ones as of the others.
LEMMA TakenLeavesFree ==
  ASSUME Inv, TakenAttached
  PROVE  TuAvailable
<1> SUFFICES ASSUME NEW w \in Workers, NEW o \in Slots, Opens(w, o), FreeTus = {}
             PROVE  FALSE
  BY DEF TuAvailable
<1> DEFINE parents == [t \in Slots |-> tu[t].parent]
<1>1. \A t \in Slots : Attached(t)
  BY DEF FreeTus, TakenAttached
<1>2. \A t \in Slots : tu[t].parent \in Slots /\ ih[tu[t].parent].tu = t
  BY <1>1, AttachedTyped
<1>3. ih[o].tu = None
  BY DEF Inv, PoolInv, OpenersHold, MembersShaped
<1>4. \A t \in Slots : tu[t].parent \in Slots \ {o}
  BY <1>2, <1>3, NoneAssumption
<1>5. parents \in [Slots -> Slots \ {o}]
  BY <1>4
<1>6. /\ IsFiniteSet(Slots) /\ IsFiniteSet(Slots \ {o})
      /\ Cardinality(Slots) \in Nat
      /\ Cardinality(Slots \ {o}) = Cardinality(Slots) - 1
  BY SlotsAssumption, FS_RemoveElement, FS_CardinalityType
<1>7. Cardinality(Slots \ {o}) < Cardinality(Slots)
  BY <1>6
<1>8. \E t, u \in Slots : t # u /\ parents[t] = parents[u]
  <2> HIDE DEF parents
  <2> QED
    BY <1>5, <1>6, <1>7, FS_PigeonHole
<1> QED
  BY <1>2, <1>8

\* As long as Attach does not fail, a worker that obtained an ih::Session finds a
\* free tu::Session: the pools have one size and every release returns both.
THEOREM TransactionsSuffice == ~AttachMayFail => (Spec => []TuAvailable)
<1> SUFFICES ASSUME ~AttachMayFail PROVE Spec => []TuAvailable
  OBVIOUS
<1>1. Init => TakenAttached
  BY DEF Init, TakenAttached, TuIdle
<1>2. Inv /\ LifeInv /\ TakenAttached /\ [Next]_vars => TakenAttached'
  BY NextTaken
<1>3. Inv /\ TakenAttached => TuAvailable
  BY TakenLeavesFree
<1> QED
  BY <1>1, <1>2, <1>3, LifeInvariance, PTL DEF Spec

-----------------------------------------------------------------------------
(* Replies are counted after their requests. *)

\* A worker is still counting the request of owner c.
Counting(c) == \E o \in Slots : lock[o] # None /\ tu[ih[o].tu].owner = c

\* The replies on the way whose requests have been counted.
Countable == {n \in Messages : n.type = "HTTP_RESPONSE" /\ ~Counting(n.owner)}

\* Each of them, and each reply counted, has a counted request of its own.
Ordered ==
    /\ IsFiniteSet(Countable)
    /\ stat.received + Cardinality(Countable) <= stat.sent

LEMMA FewerCountable ==
  ASSUME Inv, Ordered, Countable' \subseteq Countable, UNCHANGED stat
  PROVE  Ordered'
<1>1. stat.received \in Nat /\ stat.sent \in Nat
  BY DEF Inv, TypeOK
<1>2. IsFiniteSet(Countable') /\ Cardinality(Countable') <= Cardinality(Countable)
  BY FS_Subset DEF Ordered
<1>3. Cardinality(Countable) \in Nat /\ Cardinality(Countable') \in Nat
  BY <1>2, FS_CardinalityType DEF Ordered
<1> QED
  BY <1>1, <1>2, <1>3 DEF Ordered

\* The requests being counted still are, and every reply is an old one or
\* answers one of them.
LEMMA SameCounting ==
  ASSUME Inv, LockStep, \A o \in Slots : lock[o] # None => lock'[o] = lock[o],
         \A n \in Messages' : n.type = "HTTP_RESPONSE" => n \in Messages \/ Counting(n.owner)'
  PROVE  Countable' \subseteq Countable
<1>1. \A c : Counting(c) => Counting(c)'
  BY DEF Counting, LockStep
<1> QED
  BY <1>1 DEF Countable

\* The only new replies are those SendRequest asks for, under the lock.
LEMMA RepliesKnown ==
  ASSUME Inv, LifeInv, [Next]_vars
  PROVE  \A n \in Messages' : n.type = "HTTP_RESPONSE" => n \in Messages \/ Counting(n.owner)'
<1> DEFINE Known == \A n \in Messages' : n.type = "HTTP_RESPONSE" => n \in Messages \/ Counting(n.owner)'
<1>1. ASSUME NEW m \in Due, Due' = Due \ {m}, inbox' \in {inbox, inbox \cup {m}}, UNCHANGED worker
      PROVE  Known
  <2>1. Messages' \subseteq Messages
    BY <1>1 DEF Messages, Held, Routed
  <2> QED
    BY <2>1
<1>2. ASSUME NEW c \in Owners, Submit(c) PROVE Known
  BY <1>1, <1>2, SubmitDue DEF Submit
<1>3. ASSUME NEW x \in running, Expire(x) PROVE Known
  BY <1>1, <1>3, ExpireDue DEF Expire
<1>4. ASSUME NEW x \in wire, Respond(x) \/ Lose(x) PROVE Known
  <2>1. inbox' \in {inbox, inbox \cup {ResponseMessage(x)}} /\ UNCHANGED worker
    BY <1>4 DEF Respond, Lose
  <2> QED
    BY <1>1, <1>4, <2>1, WireDue
<1>5. ASSUME NEW w \in Workers, Routing(w) PROVE Known
  <2>1. Messages' \subseteq Messages
    BY <1>5, FindLife, ObtainLife, DropLife DEF Routing
  <2> QED
    BY <2>1
<1>6. ASSUME NEW w \in Workers, Opening(w) PROVE Known
  <2>1. CASE ManagerFails(w) \/ \E t \in Slots, k \in Mids : OpenAndRelease(w, t, k)
    BY <2>1, UnopenedLife DEF LeavesTimeouts
  <2>2. ASSUME NEW t \in Slots, NEW k \in Mids, StartScenario(w, t, k) PROVE Known
    <3>1. Messages' = (Messages \ {worker[w].msg})
                      \cup FirstTimeouts(worker[w].msg.owner, ih[worker[w].ih].sid, k)
      BY <2>2, StartScenarioLife
    <3>2. \A c, s : \A n \in FirstTimeouts(c, s, k) : n.type # "HTTP_RESPONSE"
      BY DEF FirstTimeouts, TimeoutMessage
    <3> QED
      BY <3>1, <3>2
  <2> QED
    BY <1>6, <2>1, <2>2 DEF Opening
<1>7. ASSUME NEW w \in Workers, Delivering(w) PROVE Known
  <2>1. CASE MemberNotFound(w) \/ TimeoutIgnored(w)
    BY <2>1, IgnoreLife
  <2>2. CASE GiveUp(w) \/ EndScenario(w) \/ ReceiveResponse(w)
    <3> PICK type \in {"TIMER_EVENT", "HTTP_RESPONSE"} : \E cleared : Releasing(w, type, cleared)
      BY <2>2, ReleasingStep
    <3> PICK cleared : Releasing(w, type, cleared)
      OBVIOUS
    <3>1. \A n \in Messages' : n \in Messages \/ n.type = "TIMER_EVENT"
      BY ReleasingLeaves DEF LeavesTimeouts
    <3> QED
      BY <3>1
  <2>3. CASE SendRequest(w)
    <3> PICK t \in Slots, o \in Slots : t = Target(w) /\ o = worker[w].ih
      BY <2>3, SendRequestStep
    <3> PICK c : c = tu[t].owner
      OBVIOUS
    <3>1. /\ tu'[t] = Awaiting(tu[t]) /\ ih'[o].tu = t /\ lock'[o] # None
      BY <2>3, SendRequestStep
    <3>2. Counting(c)'
      BY <3>1 DEF Counting, Awaiting
    <3>3. Messages' = Others(w) \cup {TimeoutMessage(ResponseTimer(t)), ResponseMessage(RequestOf(t))}
      BY <2>3, SendRequestLife
    <3>4. /\ TimeoutMessage(ResponseTimer(t)).type # "HTTP_RESPONSE"
          /\ ResponseMessage(RequestOf(t)).owner = c
      BY DEF TimeoutMessage, ResponseMessage, RequestOf
    <3> QED
      BY <3>2, <3>3, <3>4 DEF Others
  <2> QED
    BY <1>7, <2>1, <2>2, <2>3 DEF Delivering
<1>8. ASSUME NEW w \in Workers, CountSent(w) PROVE Known
  BY <1>8, CountSentLife
<1>9. CASE UNCHANGED vars
  BY <1>9 DEF vars, Messages, Due, Held, Routed
<1> QED
  BY <1>2, <1>3, <1>4, <1>5, <1>6, <1>7, <1>8, <1>9 DEF Next, TimerThread, Work

\* Every step but CountSent leaves a lock that is held.
LEMMA LockKept ==
  ASSUME Inv, LifeInv, [Next]_vars, \A w \in Workers : ~CountSent(w)
  PROVE  \A o \in Slots : lock[o] # None => lock'[o] = lock[o]
<1>1. ASSUME NEW w \in Workers, SendRequest(w)
      PROVE  \A o \in Slots : lock[o] # None => lock'[o] = lock[o]
  <2> PICK o \in Slots, t \in Slots : o = worker[w].ih /\ t = Target(w)
    BY <1>1, SendRequestStep
  <2>1. lock[o] = None /\ \A p \in Slots : p # o => lock'[p] = lock[p]
    BY <1>1, SendRequestStep
  <2> QED
    BY <2>1
<1>2. CASE UNCHANGED lock
  BY <1>2
<1>3. ASSUME NEW w \in Workers, Routing(w) PROVE UNCHANGED lock
  BY <1>3 DEF Routing, Find, FindFails, Obtain, ObtainFails
<1>4. ASSUME NEW w \in Workers, Opening(w) PROVE UNCHANGED lock
  BY <1>4 DEF Opening, ManagerFails, StartScenario, OpenAndRelease
<1>5. ASSUME NEW w \in Workers, Delivering(w), ~SendRequest(w) PROVE UNCHANGED lock
  BY <1>5 DEF Delivering, MemberNotFound, TimeoutIgnored, GiveUp, EndScenario, ReceiveResponse
<1> QED
  BY <1>1, <1>2, <1>3, <1>4, <1>5
  DEF Next, TimerThread, Work, Submit, Expire, Respond, Lose, vars

\* Counting a request makes its reply countable: there is at most one.
LEMMA CountSentOrdered ==
  ASSUME Inv, LifeInv, Ordered, NEW w \in Workers, CountSent(w)
  PROVE  Ordered'
<1> PICK o : o = worker[w].ih
  OBVIOUS
<1>1. /\ o \in Slots
      /\ \A p \in Slots : p # o => lock'[p] = lock[p]
      /\ stat' = [stat EXCEPT !.sent = @ + 1]
      /\ UNCHANGED <<ih, tu>> /\ Messages' = Messages
  BY CountSentStep, CountSentLife
<1> PICK c : c = tu[ih[o].tu].owner
  OBVIOUS
<1>2. \A n \in Countable' : n \in Countable \/ n.owner = c
  BY <1>1 DEF Countable, Counting
<1>3. \A n, m \in Countable' : n.owner = c /\ m.owner = c => n = m
  BY <1>1 DEF Countable, LifeInv, OneOfEach, SameKind
<1>4. \E r : Countable' \subseteq Countable \cup {r}
  BY <1>2, <1>3
<1> PICK r : Countable' \subseteq Countable \cup {r}
  BY <1>4
<1>5. /\ IsFiniteSet(Countable \cup {r})
      /\ \/ Cardinality(Countable \cup {r}) = Cardinality(Countable)
         \/ Cardinality(Countable \cup {r}) = Cardinality(Countable) + 1
  BY FS_AddElement DEF Ordered
<1>6. IsFiniteSet(Countable') /\ Cardinality(Countable') <= Cardinality(Countable \cup {r})
  BY <1>5, FS_Subset
<1>7. Cardinality(Countable) \in Nat /\ Cardinality(Countable') \in Nat
  BY <1>6, FS_CardinalityType DEF Ordered
<1>8. /\ stat.received \in Nat /\ stat.sent \in Nat
      /\ stat'.received = stat.received /\ stat'.sent = stat.sent + 1
  BY <1>1 DEF Inv, TypeOK
<1> QED
  BY <1>5, <1>6, <1>7, <1>8 DEF Ordered

\* A reply that is counted was countable: its session is not locked.
LEMMA ReceiveOrdered ==
  ASSUME Inv, LifeInv, Ordered, NEW w \in Workers, ReceiveResponse(w), Countable' \subseteq Countable
  PROVE  Ordered'
<1> PICK m : m = worker[w].msg
  OBVIOUS
<1>1. /\ Routed(w) /\ lock[worker[w].ih] = None /\ m \in Messages
      /\ m \in Messages' => m.type = "TIMER_EVENT"
  <2> PICK type \in {"TIMER_EVENT", "HTTP_RESPONSE"} : \E cleared : Releasing(w, type, cleared)
    BY ReleasingStep
  <2> PICK cleared : Releasing(w, type, cleared)
    OBVIOUS
  <2> QED
    BY ReleasingLeaves, HeldIn DEF LeavesTimeouts
<1>2. m.type = "HTTP_RESPONSE" /\ stat' = [stat EXCEPT !.received = @ + 1]
  BY DEF ReceiveResponse, Deliver
<1>3. ~Counting(m.owner)
  <2> SUFFICES ASSUME NEW p \in Slots, lock[p] # None, tu[ih[p].tu].owner = m.owner
               PROVE  FALSE
    BY DEF Counting
  <2>1. ih[p].tu \in Slots /\ tu[ih[p].tu].parent = p
    BY LockedAttached
  <2>2. Attached(ih[p].tu)
    BY <2>1, NoneAssumption DEF Attached
  <2>3. worker[w].ih = p
    BY <1>1, <2>1, <2>2 DEF LifeInv, Bound
  <2> QED
    BY <1>1, <2>3
<1>4. m \in Countable
  BY <1>1, <1>2, <1>3 DEF Countable
<1>5. Countable' \subseteq Countable \ {m}
  BY <1>1, <1>2 DEF Countable
<1>6. /\ IsFiniteSet(Countable \ {m})
      /\ Cardinality(Countable \ {m}) = Cardinality(Countable) - 1
  BY <1>4, FS_RemoveElement DEF Ordered
<1>7. IsFiniteSet(Countable') /\ Cardinality(Countable') <= Cardinality(Countable \ {m})
  BY <1>5, <1>6, FS_Subset
<1>8. Cardinality(Countable) \in Nat /\ Cardinality(Countable') \in Nat
  BY <1>7, FS_CardinalityType DEF Ordered
<1>9. /\ stat.received \in Nat /\ stat.sent \in Nat
      /\ stat'.received = stat.received + 1 /\ stat'.sent = stat.sent
  BY <1>2 DEF Inv, TypeOK
<1> QED
  BY <1>6, <1>7, <1>8, <1>9 DEF Ordered

LEMMA NextOrdered ==
  ASSUME Inv, LifeInv, Ordered, [Next]_vars
  PROVE  Ordered'
<1>1. CASE \E w \in Workers : CountSent(w)
  BY <1>1, CountSentOrdered
<1>2. CASE \A w \in Workers : ~CountSent(w)
  <2>1. Countable' \subseteq Countable
    BY <1>2, SameCounting, NextLock, LockKept, RepliesKnown
  <2>2. CASE \E w \in Workers : ReceiveResponse(w)
    BY <2>1, <2>2, ReceiveOrdered
  <2>3. CASE \A w \in Workers : ~ReceiveResponse(w)
    <3>1. ASSUME NEW w \in Workers, Work(w) PROVE UNCHANGED stat
      BY <1>2, <2>3, <3>1 DEF Work, Routing, Find, FindFails, Obtain, ObtainFails, Opening,
         ManagerFails, StartScenario, OpenAndRelease, Delivering, MemberNotFound, TimeoutIgnored,
         GiveUp, SendRequest, EndScenario
    <3>2. UNCHANGED stat
      BY <3>1 DEF Next, TimerThread, Submit, Expire, Respond, Lose, vars
    <3> QED
      BY <2>1, <3>2, FewerCountable
  <2> QED
    BY <2>2, <2>3
<1> QED
  BY <1>1, <1>2

\* The statistics never show more replies than requests, whatever the order in
\* which a reply arrives and its request is counted, and even if identifiers are
\* reused: a reply waits for the lock under which its request is counted.
THEOREM RepliesAfterRequests == Spec => []CountsOrdered
<1>1. Init => Ordered
  <2> SUFFICES ASSUME Init PROVE Ordered
    OBVIOUS
  <2>1. /\ Messages = {OpeningMessage(c) : c \in Owners}
        /\ stat.sent = 0 /\ stat.received = 0
    BY DEF Init, Messages, Due, Held, Routed, WorkerIdle
  <2>2. Countable = {}
    BY <2>1 DEF Countable, OpeningMessage
  <2> QED
    BY <2>1, <2>2, FS_EmptySet DEF Ordered
<1>2. Inv /\ LifeInv /\ Ordered /\ [Next]_vars => Ordered'
  BY NextOrdered
<1>3. Inv /\ Ordered => CountsOrdered
  <2> SUFFICES ASSUME Inv, Ordered PROVE CountsOrdered
    OBVIOUS
  <2>1. stat.received \in Nat /\ stat.sent \in Nat /\ Cardinality(Countable) \in Nat
    BY FS_CardinalityType DEF Inv, TypeOK, Ordered
  <2> QED
    BY <2>1 DEF Ordered, CountsOrdered
<1> QED
  BY <1>1, <1>2, <1>3, LifeInvariance, PTL DEF Spec

-----------------------------------------------------------------------------
(* The refinement of Exchange.  Where a command is follows from three facts that  *)
(* the invariants make exclusive: it is unsent, its opening message is on the way, *)
(* or a transaction is attached for it.  Each step of the engine moves at most one *)
(* load command, along the phases Exchange allows.                            *)

\* Transaction t is the live transaction of command c.
Serves(t, c) == Attached(t) /\ tu[t].owner = c

\* The phase of the command a live transaction serves.
TransactionPhase(t) ==
    IF tu[t].step = "NONE" THEN "scheduled"
    ELSE IF lock[tu[t].parent] # None THEN "requesting"
    ELSE "waiting"

Queued(c) == OpeningMessage(c) \in Messages

PhaseRules ==
    \A c \in Commands :
        /\ c \in unsent => Phase(c) = "new"
        /\ c \notin unsent /\ Queued(c) => Phase(c) = "queued"
        /\ \A t \in Slots : Serves(t, c) => Phase(c) = TransactionPhase(t)
        /\ ~Queued(c) /\ (\A t \in Slots : ~Serves(t, c)) => Phase(c) = "ended"

LEMMA OpeningFields ==
  ASSUME NEW c
  PROVE  /\ OpeningMessage(c).owner = c /\ OpeningMessage(c).mid = None
         /\ OpeningMessage(c).type \notin {"TIMER_EVENT", "HTTP_RESPONSE"}
BY DEF OpeningMessage

LEMMA OpeningPlaces ==
  ASSUME Inv, LifeInv, NEW c \in Commands
  PROVE  /\ c \in unsent <=> OpeningMessage(c) \in Due
         /\ c \in unsent => OpeningMessage(c) \notin inbox \cup Held
         /\ Queued(c) => \A t \in Slots : ~Serves(t, c)
<1>1. OpeningMessage(c) \in Due => c \in unsent
  <2>1. /\ \A x \in running : TimeoutMessage(x) # OpeningMessage(c)
        /\ \A x \in wire : ResponseMessage(x) # OpeningMessage(c)
    BY DEF TimeoutMessage, ResponseMessage, OpeningMessage
  <2>2. \A d \in unsent : OpeningMessage(d) = OpeningMessage(c) => d = c
    BY OpeningFields
  <2> QED
    BY <2>1, <2>2 DEF Due
<1>2. c \in unsent => OpeningMessage(c) \in Due
  BY DueIn
<1>3. OpeningMessage(c) \in Due => OpeningMessage(c) \notin inbox \cup Held
  BY DEF LifeInv, Placed, Held
<1>4. Queued(c) => \A t \in Slots : ~Serves(t, c)
  BY OpeningFields DEF LifeInv, OpeningsFirst, Queued, Serves
<1> QED
  BY <1>1, <1>2, <1>3, <1>4

LEMMA PhaseFacts == Inv /\ LifeInv => PhaseRules
<1> SUFFICES ASSUME Inv, LifeInv, NEW c \in Commands
             PROVE  /\ c \in unsent => Phase(c) = "new"
                    /\ c \notin unsent /\ Queued(c) => Phase(c) = "queued"
                    /\ \A t \in Slots : Serves(t, c) => Phase(c) = TransactionPhase(t)
                    /\ ~Queued(c) /\ (\A t \in Slots : ~Serves(t, c)) => Phase(c) = "ended"
  BY DEF PhaseRules
<1> DEFINE New == c \in unsent
           Taken == \/ OpeningMessage(c) \in inbox
                    \/ \E w \in Workers : Routed(w) /\ worker[w].msg = OpeningMessage(c)
           Scheduled == \E t \in Slots : (tu[t].owner = c /\ Attached(t)) /\ tu[t].step = "NONE"
           Requesting == \E t \in Slots : (tu[t].owner = c /\ Attached(t))
                                          /\ lock[tu[t].parent] # None
           Waiting == \E t \in Slots : (tu[t].owner = c /\ Attached(t))
                                       /\ lock[tu[t].parent] = None /\ tu[t].step # "NONE"
<1>1. Phase(c) = CASE New -> "new" [] Taken -> "queued" [] Scheduled -> "scheduled"
                   [] Requesting -> "requesting" [] Waiting -> "waiting" [] OTHER -> "ended"
  BY DEF Phase
<1>2. Taken <=> OpeningMessage(c) \in inbox \cup Held
  BY DEF Held
<1>3. Queued(c) <=> New \/ Taken
  BY <1>2, OpeningPlaces DEF Queued, Messages
<1>4. ~(New /\ Taken)
  BY <1>2, OpeningPlaces
<1>5. New \/ Taken => \A t \in Slots : ~Serves(t, c)
  BY <1>3, OpeningPlaces
<1>6. (\A t \in Slots : ~Serves(t, c)) => ~Scheduled /\ ~Requesting /\ ~Waiting
  BY DEF Serves
<1>7. ASSUME NEW t \in Slots, Serves(t, c)
      PROVE  /\ Scheduled <=> tu[t].step = "NONE"
             /\ Requesting <=> lock[tu[t].parent] # None
             /\ Waiting <=> lock[tu[t].parent] = None /\ tu[t].step # "NONE"
             /\ ~(Scheduled /\ Requesting)
  <2>1. \A u \in Slots : Serves(u, c) <=> u = t
    BY <1>7 DEF LifeInv, OwnersDistinct, Serves
  <2>2. /\ Scheduled <=> tu[t].step = "NONE"
        /\ Requesting <=> lock[tu[t].parent] # None
        /\ Waiting <=> lock[tu[t].parent] = None /\ tu[t].step # "NONE"
    BY <2>1 DEF Serves
  <2>3. lock[tu[t].parent] # None => tu[t].step # "NONE"
    <3>1. tu[t].parent \in Slots /\ ih[tu[t].parent].tu = t
      BY <1>7, AttachedTyped DEF Serves
    <3> QED
      BY <3>1 DEF LifeInv, LockedSent
  <2> QED
    BY <2>2, <2>3
<1> HIDE DEF New, Taken, Scheduled, Requesting, Waiting
<1>8. New => Phase(c) = "new"
  BY <1>1, <1>4, <1>5, <1>6
<1>9. ~New /\ Queued(c) => Phase(c) = "queued"
  BY <1>1, <1>3, <1>5, <1>6
<1>10. ASSUME NEW t \in Slots, Serves(t, c) PROVE Phase(c) = TransactionPhase(t)
  BY <1>1, <1>5, <1>7, <1>10 DEF TransactionPhase
<1>11. ~Queued(c) /\ (\A t \in Slots : ~Serves(t, c)) => Phase(c) = "ended"
  BY <1>1, <1>3, <1>6
<1> QED
  BY <1>8, <1>9, <1>10, <1>11 DEF New

LEMMA PhaseFactsNext == (Inv /\ LifeInv)' => PhaseRules'
BY PhaseFacts, PTL

-----------------------------------------------------------------------------
(* Steps of the engine as steps of Exchange. *)

\* Command c is where it was.
Undisturbed(c) ==
    /\ c \in unsent' <=> c \in unsent
    /\ Queued(c)' <=> Queued(c)
    /\ \A t \in Slots :
         /\ Serves(t, c)' <=> Serves(t, c)
         /\ Serves(t, c) => TransactionPhase(t)' = TransactionPhase(t)

LEMMA UndisturbedPhase ==
  ASSUME PhaseRules, PhaseRules', NEW c \in Commands, Undisturbed(c)
  PROVE  Phase(c)' = Phase(c)
<1> USE DEF PhaseRules, Undisturbed
<1>1. CASE c \in unsent
  BY <1>1
<1>2. CASE c \notin unsent /\ Queued(c)
  BY <1>2
<1>3. CASE \E t \in Slots : Serves(t, c)
  <2> PICK t \in Slots : Serves(t, c)
    BY <1>3
  <2>1. Phase(c) = TransactionPhase(t)
    OBVIOUS
  <2>2. Phase(c)' = TransactionPhase(t)'
    OBVIOUS
  <2> QED
    BY <2>1, <2>2
<1>4. CASE ~Queued(c) /\ \A t \in Slots : ~Serves(t, c)
  BY <1>4
<1> QED
  BY <1>1, <1>2, <1>3, <1>4

PhasesOf == [c \in Commands |-> Phase(c)]

Stutters == UNCHANGED Promise!vars

LEMMA AllUndisturbed ==
  ASSUME PhaseRules, PhaseRules', UNCHANGED stat, \A c \in Commands : Undisturbed(c)
  PROVE  Stutters
<1>1. \A c \in Commands : Phase(c)' = Phase(c)
  BY UndisturbedPhase
<1>2. PhasesOf' = PhasesOf
  BY <1>1 DEF PhasesOf
<1> QED
  BY <1>2 DEF Stutters, Promise!vars, PhasesOf

\* Command d moves, and no other does.
Moved(d, from, to) ==
    /\ Phase(d) = from /\ Phase(d)' = to
    /\ \A c \in Commands : c # d => Undisturbed(c)

LEMMA MovedMoves ==
  ASSUME PhaseRules, PhaseRules', NEW d \in Commands, NEW from, NEW to, Moved(d, from, to)
  PROVE  Promise!Move(d, from, to)
<1>1. \A c \in Commands : Phase(c)' = IF c = d THEN to ELSE Phase(c)
  BY UndisturbedPhase DEF Moved
<1>2. PhasesOf' = [PhasesOf EXCEPT ![d] = to]
  BY <1>1 DEF PhasesOf
<1>3. PhasesOf[d] = from
  BY DEF PhasesOf, Moved
<1> QED
  BY <1>2, <1>3 DEF Promise!Move, PhasesOf

Abstracted == Promise!Next \/ Stutters

\* A command stays where it was if its opening message, its transaction and the
\* lock of its session do.
LEMMA KeptUndisturbed ==
  ASSUME NEW c \in Commands,
         c \in unsent' <=> c \in unsent,
         OpeningMessage(c) \in Messages' <=> OpeningMessage(c) \in Messages,
         \A t \in Slots : Serves(t, c) \/ Serves(t, c)' =>
            tu'[t] = tu[t] /\ (lock'[tu[t].parent] # None <=> lock[tu[t].parent] # None)
  PROVE  Undisturbed(c)
<1>1. Queued(c)' <=> Queued(c)
  BY DEF Queued, OpeningMessage
<1>2. ASSUME NEW t \in Slots
      PROVE  /\ Serves(t, c)' <=> Serves(t, c)
             /\ Serves(t, c) => TransactionPhase(t)' = TransactionPhase(t)
  <2>1. Serves(t, c) \/ Serves(t, c)' => tu'[t] = tu[t]
    OBVIOUS
  <2>2. Serves(t, c)' <=> Serves(t, c)
    BY <2>1 DEF Serves, Attached
  <2>3. Serves(t, c) => TransactionPhase(t)' = TransactionPhase(t)
    BY DEF TransactionPhase
  <2> QED
    BY <2>2, <2>3
<1> QED
  BY <1>1, <1>2 DEF Undisturbed

\* A message that opens no session comes or goes, and that is all.
LEMMA QuietStep ==
  ASSUME PhaseRules, PhaseRules', UNCHANGED <<unsent, lock, tu, stat>>,
         \A c \in Commands : OpeningMessage(c) \in Messages' <=> OpeningMessage(c) \in Messages
  PROVE  Abstracted
<1>1. \A c \in Commands : Undisturbed(c)
  BY KeptUndisturbed
<1> QED
  BY <1>1, AllUndisturbed DEF Abstracted

LEMMA SubmitAbstract ==
  ASSUME Inv, LifeInv, PhaseRules, PhaseRules', NEW d \in Owners, Submit(d)
  PROVE  Abstracted
<1>1. /\ d \in unsent /\ unsent' = unsent \ {d} /\ inbox' = inbox \cup {OpeningMessage(d)}
      /\ UNCHANGED <<lock, tu, stat>>
  BY DEF Submit
<1>2. Messages' = Messages
  BY SubmitDue, EnvironmentMessages DEF Submit
<1>3. \A c \in Commands : c # d => Undisturbed(c)
  BY <1>1, <1>2, KeptUndisturbed
<1>4. CASE d \in Commands
  <2>1. Phase(d) = "new"
    BY <1>1, <1>4 DEF PhaseRules
  <2>2. d \notin unsent' /\ Queued(d)'
    BY <1>1 DEF Queued, Messages, OpeningMessage
  <2>3. Phase(d)' = "queued"
    BY <1>4, <2>2 DEF PhaseRules
  <2>4. Promise!Move(d, "new", "queued")
    BY <1>3, <1>4, <2>1, <2>3, MovedMoves DEF Moved
  <2>5. Promise!Submit(d)
    BY <1>1, <2>4 DEF Promise!Submit
  <2> QED
    BY <1>4, <2>5 DEF Abstracted, Promise!Next
<1>5. CASE d \notin Commands
  BY <1>1, <1>3, <1>5, AllUndisturbed DEF Abstracted
<1> QED
  BY <1>4, <1>5

LEMMA EnvironmentAbstract ==
  ASSUME Inv, LifeInv, PhaseRules, PhaseRules',
         TimerThread \/ \E x \in wire : Respond(x) \/ Lose(x)
  PROVE  Abstracted
<1>1. ASSUME NEW x \in running, Expire(x) PROVE Abstracted
  <2>1. Messages' = Messages
    BY <1>1, ExpireDue, EnvironmentMessages DEF Expire
  <2> QED
    BY <1>1, <2>1, QuietStep DEF Expire
<1>2. ASSUME NEW x \in wire, Respond(x) PROVE Abstracted
  <2>1. Messages' = Messages
    BY <1>2, WireDue, EnvironmentMessages DEF Respond
  <2> QED
    BY <1>2, <2>1, QuietStep DEF Respond
<1>3. ASSUME NEW x \in wire, Lose(x) PROVE Abstracted
  <2>1. Messages \ {ResponseMessage(x)} \subseteq Messages'
    BY <1>3, WireDue, EnvironmentMessages DEF Lose
  <2>2. Messages' \subseteq Messages
    <3>1. Due' \subseteq Due /\ UNCHANGED <<inbox, worker>>
      BY <1>3, WireDue DEF Lose
    <3> QED
      BY <3>1 DEF Messages, Held, Routed
  <2>3. \A c \in Commands : OpeningMessage(c) # ResponseMessage(x)
    BY OpeningFields DEF ResponseMessage
  <2> QED
    BY <1>3, <2>1, <2>2, <2>3, QuietStep DEF Lose
<1> QED
  BY <1>1, <1>2, <1>3 DEF TimerThread

\* An opening message is discarded: by the hub, or by a worker that could not or
\* did not keep the session it opened.
LEMMA DismissAbstract ==
  ASSUME Inv, LifeInv, PhaseRules, PhaseRules', NEW m \in inbox \cup Held, m.mid = None,
         LeavesTimeouts({m}), UNCHANGED <<unsent, lock, stat>>,
         \A t \in Slots : Attached(t) \/ Attached(t)' => tu'[t] = tu[t]
  PROVE  Abstracted
<1> PICK d : d = m.owner
  OBVIOUS
<1>1. /\ m \in Messages /\ m = OpeningMessage(d)
      /\ \A t \in Slots : ~Serves(t, d)
  BY DEF Messages, LifeInv, OpeningsFirst, Serves
<1>0. \A c : OpeningMessage(c) \in Messages' <=> OpeningMessage(c) \in Messages \ {m}
  <2> PICK late : /\ \A n \in late : n.type = "TIMER_EVENT"
                  /\ Messages' = (Messages \ {m}) \cup late
    BY DEF LeavesTimeouts
  <2> QED
    BY OpeningFields
<1>2. \A c \in Commands : c # d => Undisturbed(c)
  <2> SUFFICES ASSUME NEW c \in Commands, c # d PROVE Undisturbed(c)
    OBVIOUS
  <2>1. OpeningMessage(c) # m /\ (OpeningMessage(c) \in Messages' <=> OpeningMessage(c) \in Messages)
    BY <1>0, <1>1, OpeningFields
  <2>2. \A t \in Slots : Serves(t, c) \/ Serves(t, c)' => tu'[t] = tu[t]
    BY DEF Serves
  <2> QED
    BY <2>1, <2>2, KeptUndisturbed
<1>3. CASE d \in Commands
  <2>1. d \notin unsent
    BY <1>1, <1>3, OpeningPlaces
  <2>2. Phase(d) = "queued"
    BY <1>1, <1>3, <2>1 DEF PhaseRules, Queued
  <2>3. ~Queued(d)'
    BY <1>0, <1>1 DEF Queued, OpeningMessage
  <2>4. \A t \in Slots : ~Serves(t, d)'
    BY <1>1 DEF Serves, Attached
  <2>5. Phase(d)' = "ended"
    BY <1>3, <2>3, <2>4 DEF PhaseRules
  <2>6. Promise!Move(d, "queued", "ended")
    BY <1>2, <1>3, <2>2, <2>5, MovedMoves DEF Moved
  <2>7. Promise!GiveUp(d)
    BY <2>6 DEF Promise!GiveUp
  <2> QED
    BY <1>3, <2>7 DEF Abstracted, Promise!Next, Promise!Progress
<1>4. CASE d \notin Commands
  BY <1>2, <1>4, AllUndisturbed DEF Abstracted
<1> QED
  BY <1>3, <1>4

LEMMA RoutingAbstract ==
  ASSUME Inv, LifeInv, PhaseRules, PhaseRules', NEW w \in Workers, Routing(w)
  PROVE  Abstracted
<1> PICK m \in inbox : \/ \E o \in Slots : Find(w, m, o)
                       \/ FindFails(w, m)
                       \/ \E o \in Slots, s \in Sids : Obtain(w, m, o, s)
                       \/ ObtainFails(w, m)
  BY DEF Routing
<1>1. UNCHANGED <<unsent, lock, tu, stat>>
  BY DEF Find, FindFails, Obtain, ObtainFails
<1>2. CASE \/ \E o \in Slots : Find(w, m, o)
           \/ \E o \in Slots, s \in Sids : Obtain(w, m, o, s)
  <2>1. Messages' = Messages
    BY <1>2, FindLife, ObtainLife
  <2> QED
    BY <1>1, <2>1, QuietStep
<1>3. CASE FindFails(w, m)
  <2>1. Messages' = Messages \ {m} /\ m.sid # None
    BY <1>3, DropLife DEF FindFails
  <2>2. \A c \in Commands : OpeningMessage(c) # m
    BY <2>1 DEF OpeningMessage
  <2> QED
    BY <1>1, <2>1, <2>2, QuietStep
<1>4. CASE ObtainFails(w, m)
  <2>1. Messages' = Messages \ {m} /\ m.sid = None
    BY <1>4, DropLife DEF ObtainFails
  <2>2. m.mid = None
    BY <2>1, DequeuedShaped DEF Shape
  <2>3. Messages' = (Messages \ {m}) \cup {}
    BY <2>1
  <2>4. LeavesTimeouts({m})
    BY <2>3 DEF LeavesTimeouts
  <2> QED
    BY <1>1, <2>2, <2>4, DismissAbstract
<1> QED
  BY <1>2, <1>3, <1>4

LEMMA OpeningAbstract ==
  ASSUME Inv, LifeInv, PhaseRules, PhaseRules', NEW w \in Workers, Opening(w)
  PROVE  Abstracted
<1>1. CASE ManagerFails(w) \/ \E t \in Slots, k \in Mids : OpenAndRelease(w, t, k)
  <2>1. /\ Routed(w) /\ worker[w].msg.mid = None
        /\ UNCHANGED <<unsent, lock, stat>> /\ TransactionsKept
        /\ \A t \in Slots : Attached(t) => tu'[t] = tu[t]
        /\ LeavesTimeouts({worker[w].msg})
    BY <1>1, UnopenedStep, UnopenedLife
  <2>2. worker[w].msg \in Held
    BY <2>1 DEF Held
  <2>3. \A t \in Slots : Attached(t) \/ Attached(t)' => tu'[t] = tu[t]
    BY <2>1 DEF TransactionsKept
  <2> QED
    BY <2>1, <2>2, <2>3, DismissAbstract
<1>2. ASSUME NEW t \in Slots, NEW k \in Mids, StartScenario(w, t, k) PROVE Abstracted
  <2> PICK o, d, m : o = worker[w].ih /\ d = worker[w].msg.owner /\ m = worker[w].msg
    OBVIOUS
  <2>1. Started(w, t, k, o, d)
    BY <1>2, StartScenarioStep
  <2>2. /\ Routed(w) /\ m.type = "LOAD_COMMAND" /\ m.mid = None /\ o \in Slots
        /\ ~Attached(t)
        /\ tu'[t] = [owner |-> d, parent |-> o, fsm |-> "API", step |-> "NONE",
                     armed |-> FirstTimers]
        /\ \A u \in Slots : u # t => tu'[u] = tu[u]
        /\ UNCHANGED <<unsent, lock, stat>>
    BY <2>1 DEF Started
  <2>3. m \in Held /\ m \in Messages /\ m = OpeningMessage(d)
    BY <2>2, HeldIn DEF Held, LifeInv, OpeningsFirst
  <2>4. d \in Commands
    BY <2>2, <2>3 DEF OpeningMessage
  <2>5. /\ Messages' = (Messages \ {m}) \cup FirstTimeouts(d, ih[o].sid, k)
        /\ \A n \in FirstTimeouts(d, ih[o].sid, k) : n.type = "TIMER_EVENT"
    BY <1>2, StartScenarioLife DEF FirstTimeouts, TimeoutMessage
  <2>6. \A c \in Commands : c # d => Undisturbed(c)
    <3> SUFFICES ASSUME NEW c \in Commands, c # d PROVE Undisturbed(c)
      OBVIOUS
    <3>1. OpeningMessage(c) # m /\ OpeningMessage(c) \notin FirstTimeouts(d, ih[o].sid, k)
      BY <2>3, <2>5, OpeningFields
    <3>2. \A u \in Slots : Serves(u, c) \/ Serves(u, c)' => tu'[u] = tu[u]
      BY <2>2 DEF Serves, Attached
    <3> QED
      BY <2>2, <2>5, <3>1, <3>2, KeptUndisturbed
  <2>7. Phase(d) = "queued"
    BY <2>3, <2>4, OpeningPlaces DEF PhaseRules, Queued
  <2>8. Serves(t, d)' /\ tu'[t].step = "NONE"
    BY <2>2, NoneAssumption DEF Serves, Attached
  <2>9. Phase(d)' = "scheduled"
    BY <2>4, <2>8 DEF PhaseRules, TransactionPhase
  <2>10. Promise!Move(d, "queued", "scheduled")
    BY <2>4, <2>6, <2>7, <2>9, MovedMoves DEF Moved
  <2>11. Promise!Schedule(d)
    BY <2>2, <2>10 DEF Promise!Schedule
  <2> QED
    BY <2>4, <2>11 DEF Abstracted, Promise!Next, Promise!Progress
<1> QED
  BY <1>1, <1>2 DEF Opening

LEMMA SendRequestAbstract ==
  ASSUME Inv, LifeInv, PhaseRules, PhaseRules', NEW w \in Workers, SendRequest(w)
  PROVE  Abstracted
<1> PICK o \in Slots, t \in Slots : o = worker[w].ih /\ t = Target(w)
  BY SendRequestStep
<1> PICK d : d = tu[t].owner
  OBVIOUS
<1>1. /\ Deliver(w, "TIMER_EVENT")
      /\ Attached(t) /\ tu[t].parent = o
      /\ d \in Commands
      /\ tu[t].step = "NONE" /\ tu'[t] = Awaiting(tu[t])
      /\ \A u \in Slots : u # t => tu'[u] = tu[u]
      /\ lock'[o] # None /\ \A p \in Slots : p # o => lock'[p] = lock[p]
      /\ UNCHANGED <<unsent, ih, stat>>
  BY SendRequestStep
<1>2. /\ tu'[t].owner = d /\ tu'[t].parent = o /\ tu'[t].step = "S1_SEND_REQUEST"
  BY <1>1 DEF Awaiting
<1>3. Messages' = Others(w) \cup {TimeoutMessage(ResponseTimer(t)), ResponseMessage(RequestOf(t))}
  BY SendRequestLife
<1>4. \A c \in Commands : OpeningMessage(c) \in Messages' <=> OpeningMessage(c) \in Messages
  <2> SUFFICES ASSUME NEW c \in Commands
               PROVE  OpeningMessage(c) \in Messages' <=> OpeningMessage(c) \in Messages
    OBVIOUS
  <2>1. OpeningMessage(c) # TimeoutMessage(ResponseTimer(t))
    BY OpeningFields DEF TimeoutMessage
  <2>2. OpeningMessage(c) # ResponseMessage(RequestOf(t))
    BY OpeningFields DEF ResponseMessage
  <2>3. OpeningMessage(c) # worker[w].msg
    BY <1>1, OpeningFields DEF Deliver
  <2> QED
    BY <1>3, <2>1, <2>2, <2>3 DEF Others
<1>5. \A c \in Commands : c # d => Undisturbed(c)
  <2> SUFFICES ASSUME NEW c \in Commands, c # d PROVE Undisturbed(c)
    OBVIOUS
  <2>1. ASSUME NEW u \in Slots, Serves(u, c) \/ Serves(u, c)'
        PROVE  tu'[u] = tu[u] /\ lock'[tu[u].parent] = lock[tu[u].parent]
    <3>1. u # t
      BY <1>2, <2>1 DEF Serves
    <3>2. tu'[u] = tu[u] /\ Attached(u)
      BY <1>1, <2>1, <3>1 DEF Serves, Attached
    <3>3. tu[u].parent \in Slots /\ tu[u].parent # o
      BY <1>1, <3>1, <3>2, AttachedTyped
    <3> QED
      BY <1>1, <3>2, <3>3
  <2> QED
    BY <1>1, <1>4, <2>1, KeptUndisturbed
<1>6. Phase(d) = "scheduled"
  BY <1>1 DEF PhaseRules, Serves, TransactionPhase
<1>7. Serves(t, d)' /\ TransactionPhase(t)' = "requesting"
  BY <1>1, <1>2, NoneAssumption DEF Serves, Attached, TransactionPhase
<1>8. Phase(d)' = "requesting"
  BY <1>1, <1>7 DEF PhaseRules
<1>9. Promise!Move(d, "scheduled", "requesting")
  BY <1>1, <1>5, <1>6, <1>8, MovedMoves DEF Moved
<1>10. Promise!Request(d)
  BY <1>1, <1>9 DEF Promise!Request
<1> QED
  BY <1>1, <1>10 DEF Abstracted, Promise!Next, Promise!Progress

LEMMA CountSentAbstract ==
  ASSUME Inv, LifeInv, PhaseRules, PhaseRules', NEW w \in Workers, CountSent(w)
  PROVE  Abstracted
<1> PICK o : o = worker[w].ih
  OBVIOUS
<1> PICK t : t = ih[o].tu
  OBVIOUS
<1> PICK d : d = tu[t].owner
  OBVIOUS
<1>1. /\ o \in Slots /\ lock[o] # None /\ lock'[o] = None
      /\ \A p \in Slots : p # o => lock'[p] = lock[p]
      /\ stat' = [stat EXCEPT !.sent = @ + 1]
      /\ UNCHANGED <<unsent, ih, tu>> /\ Messages' = Messages
  BY CountSentStep, CountSentLife
<1>2. t \in Slots /\ tu[t].parent = o /\ Attached(t) /\ tu[t].step # "NONE"
  BY <1>1, LockedAttached, NoneAssumption DEF Attached, LifeInv, LockedSent
<1>3. d \in Commands
  BY <1>2 DEF LifeInv, OwnersDistinct
<1>4. \A c \in Commands : c # d => Undisturbed(c)
  <2> SUFFICES ASSUME NEW c \in Commands, c # d PROVE Undisturbed(c)
    OBVIOUS
  <2>1. ASSUME NEW u \in Slots, Serves(u, c) \/ Serves(u, c)'
        PROVE  tu'[u] = tu[u] /\ lock'[tu[u].parent] = lock[tu[u].parent]
    <3>1. tu'[u] = tu[u] /\ Serves(u, c)
      BY <1>1, <2>1 DEF Serves, Attached
    <3>2. tu[u].parent \in Slots /\ tu[u].parent # o
      BY <1>2, <3>1, AttachedTyped DEF Serves
    <3> QED
      BY <1>1, <3>1, <3>2
  <2> QED
    BY <1>1, <2>1, KeptUndisturbed
<1>5. Phase(d) = "requesting"
  BY <1>1, <1>2, <1>3 DEF PhaseRules, Serves, TransactionPhase
<1>6. Serves(t, d)' /\ TransactionPhase(t)' = "waiting"
  BY <1>1, <1>2 DEF Serves, Attached, TransactionPhase
<1>7. Phase(d)' = "waiting"
  BY <1>2, <1>3, <1>6 DEF PhaseRules
<1>8. Promise!Move(d, "requesting", "waiting")
  BY <1>3, <1>4, <1>5, <1>7, MovedMoves DEF Moved
<1>9. stat'.sent = stat.sent + 1 /\ stat'.received = stat.received
  BY <1>1 DEF Inv, TypeOK
<1>10. Promise!Count(d)
  BY <1>8, <1>9 DEF Promise!Count
<1> QED
  BY <1>3, <1>10 DEF Abstracted, Promise!Next, Promise!Progress

\* A release ends the command of its transaction.
LEMMA ReleasingMoves ==
  ASSUME Inv, LifeInv, PhaseRules, PhaseRules', NEW w \in Workers,
         NEW type \in {"TIMER_EVENT", "HTTP_RESPONSE"}, NEW cleared, Releasing(w, type, cleared),
         NEW d, d = tu[Target(w)].owner
  PROVE  /\ d \in Commands
         /\ tu[Target(w)].step = "NONE" => Promise!Move(d, "scheduled", "ended")
         /\ tu[Target(w)].step # "NONE" => Promise!Move(d, "waiting", "ended")
<1> PICK u : u = Target(w)
  OBVIOUS
<1> PICK stopped : stopped = {TimeoutMessage(x) : x \in Stopped(u, cleared)}
  OBVIOUS
<1>1. /\ u \in Slots /\ Attached(u)
      /\ lock[tu[u].parent] = None
      /\ tu'[u] = TuIdle
      /\ \A t \in Slots : t # u => tu'[t] = tu[t]
      /\ LeavesTimeouts({worker[w].msg} \cup stopped)
  BY ReleasingLeaves
<1>2. /\ UNCHANGED <<unsent, lock>> /\ worker[w].msg.type = type
  BY DEF Releasing, Deliver
<1>3. d \in Commands /\ Serves(u, d)
  BY <1>1 DEF LifeInv, OwnersDistinct, Serves
<1>4. \A c \in Commands : OpeningMessage(c) \in Messages' <=> OpeningMessage(c) \in Messages
  <2> SUFFICES ASSUME NEW c \in Commands
               PROVE  OpeningMessage(c) # worker[w].msg /\ OpeningMessage(c) \notin stopped
    <3> PICK late : /\ \A n \in late : n.type = "TIMER_EVENT"
                    /\ Messages' = (Messages \ ({worker[w].msg} \cup stopped)) \cup late
      BY <1>1 DEF LeavesTimeouts
    <3> QED
      BY OpeningFields
  <2> QED
    BY <1>2, OpeningFields DEF TimeoutMessage
<1>5. \A c \in Commands : c # d => Undisturbed(c)
  <2> SUFFICES ASSUME NEW c \in Commands, c # d PROVE Undisturbed(c)
    OBVIOUS
  <2>1. \A t \in Slots : Serves(t, c) \/ Serves(t, c)' => tu'[t] = tu[t]
    BY <1>1 DEF Serves, Attached, TuIdle
  <2> QED
    BY <1>2, <1>4, <2>1, KeptUndisturbed
<1>6. Phase(d) = TransactionPhase(u)
  BY <1>1, <1>3 DEF PhaseRules
<1>7. ~Queued(d)'
  <2>1. ~Queued(d)
    BY <1>1, <1>3, OpeningPlaces
  <2> QED
    BY <1>3, <1>4, <2>1 DEF Queued, OpeningMessage
<1>8. \A t \in Slots : ~Serves(t, d)'
  BY <1>1, <1>3 DEF LifeInv, OwnersDistinct, Serves, Attached, TuIdle
<1>9. Phase(d)' = "ended"
  BY <1>3, <1>7, <1>8 DEF PhaseRules
<1>10. TransactionPhase(u) = IF tu[u].step = "NONE" THEN "scheduled" ELSE "waiting"
  BY <1>1 DEF TransactionPhase
<1>11. ASSUME NEW from, Phase(d) = from PROVE Promise!Move(d, from, "ended")
  BY <1>3, <1>5, <1>9, <1>11, MovedMoves DEF Moved
<1> QED
  BY <1>3, <1>6, <1>10, <1>11

\* Where identifiers may be reused, only a late response may end a command that it
\* was not meant for and that has not sent its request.
LEMMA UnansweredAbstract ==
  ASSUME Inv, LifeInv, PhaseRules, PhaseRules', NEW w \in Workers,
         Delivering(w), ~ReceiveResponse(w)
  PROVE  Abstracted
<1> PICK d : d = tu[Target(w)].owner
  OBVIOUS
<1>1. CASE MemberNotFound(w) \/ TimeoutIgnored(w)
  <2>1. /\ Routed(w) /\ Messages' = Messages \ {worker[w].msg}
        /\ UNCHANGED <<unsent, lock, tu, stat>>
        /\ worker[w].msg.mid # None \/ worker[w].msg.type = "TIMER_EVENT"
    BY <1>1, IgnoreLife DEF MemberNotFound, TimeoutIgnored, Deliver, Enter, Routed
  <2>2. \A c \in Commands : OpeningMessage(c) # worker[w].msg
    BY <2>1, OpeningFields
  <2> QED
    BY <2>1, <2>2, QuietStep
<1>2. CASE GiveUp(w) \/ EndScenario(w)
  <2> PICK type \in {"TIMER_EVENT", "HTTP_RESPONSE"} : \E cleared : Releasing(w, type, cleared)
    BY <1>2, ReleasingStep
  <2> PICK cleared : Releasing(w, type, cleared)
    OBVIOUS
  <2>1. d \in Commands /\ \E p \in {"queued", "scheduled", "waiting"} : Promise!Move(d, p, "ended")
    BY ReleasingMoves
  <2>2. UNCHANGED stat
    BY <1>2 DEF GiveUp, EndScenario
  <2>3. Promise!GiveUp(d)
    BY <2>1, <2>2 DEF Promise!GiveUp
  <2> QED
    BY <2>1, <2>3 DEF Abstracted, Promise!Next, Promise!Progress
<1> QED
  BY <1>1, <1>2, SendRequestAbstract DEF Delivering

LEMMA ReceiveAbstract ==
  ASSUME Inv, LifeInv, DeliveryAddressed, PhaseRules, PhaseRules', NEW w \in Workers,
         ReceiveResponse(w)
  PROVE  Abstracted
<1> PICK d : d = tu[Target(w)].owner
  OBVIOUS
<1> PICK type \in {"TIMER_EVENT", "HTTP_RESPONSE"} : \E cleared : Releasing(w, type, cleared)
  BY ReleasingStep
<1> PICK cleared : Releasing(w, type, cleared)
  OBVIOUS
<1>1. Deliver(w, "HTTP_RESPONSE") /\ stat' = [stat EXCEPT !.received = @ + 1]
  BY DEF ReceiveResponse
<1>2. /\ Routed(w) /\ Target(w) \in Slots /\ Attached(Target(w)) /\ worker[w].msg \in Messages
  BY ReleasingLeaves, HeldIn
<1>3. worker[w].msg.owner = d /\ worker[w].msg.type = "HTTP_RESPONSE"
  BY <1>1, <1>2, Delivered DEF DeliveryAddressed, Deliver
<1>4. tu[Target(w)].step # "NONE"
  BY <1>2, <1>3 DEF LifeInv, NothingSent
<1>5. d \in Commands /\ Promise!Move(d, "waiting", "ended")
  BY <1>4, ReleasingMoves
<1>6. stat'.received = stat.received + 1 /\ stat'.sent = stat.sent
  BY <1>1 DEF Inv, TypeOK
<1>7. Promise!Reply(d)
  BY <1>5, <1>6 DEF Promise!Reply
<1> QED
  BY <1>5, <1>7 DEF Abstracted, Promise!Next, Promise!Progress

LEMMA OrdinaryAbstract ==
  ASSUME Inv, LifeInv, PhaseRules, PhaseRules', [Next]_vars,
         \A w \in Workers : ~ReceiveResponse(w)
  PROVE  Abstracted
<1>1. ASSUME NEW w \in Workers, Work(w) PROVE Abstracted
  BY <1>1, RoutingAbstract, OpeningAbstract, UnansweredAbstract, CountSentAbstract DEF Work
<1>2. CASE UNCHANGED vars
  <2>1. UNCHANGED <<unsent, lock, tu, stat>> /\ Messages' = Messages
    BY <1>2 DEF vars, Messages, Due, Held, Routed
  <2> QED
    BY <2>1, QuietStep
<1> QED
  BY <1>1, <1>2, SubmitAbstract, EnvironmentAbstract DEF Next

LEMMA NextAbstract ==
  ASSUME Inv, LifeInv, DeliveryAddressed, PhaseRules, PhaseRules', [Next]_vars
  PROVE  Abstracted
BY OrdinaryAbstract, ReceiveAbstract

LEMMA InitAbstract ==
  ASSUME Init
  PROVE  Promise!Init
<1>1. \A c \in Commands : Phase(c) = "new"
  <2>1. PhaseRules
    BY InitInv, InitLife, PhaseFacts
  <2> QED
    BY <2>1 DEF PhaseRules, Init, Owners
<1>2. PhasesOf = [c \in Commands |-> "new"]
  BY <1>1 DEF PhasesOf
<1>3. stat.sent = 0 /\ stat.received = 0
  BY DEF Init
<1> QED
  BY <1>2, <1>3 DEF Promise!Init, PhasesOf

\* The engine implements the safety half of Exchange, as long as the library hands
\* out no member identifier equal in its low 16 bits, all that a reply brings back,
\* to one that something still carries: a command sends at most one request,
\* its reply is counted at most once and after its request, and while its request
\* is being sent nothing else happens to it.
THEOREM EngineKeepsPromise == ~MidsReused => (Spec => PromiseSafe)
<1> SUFFICES ASSUME ~MidsReused PROVE Spec => PromiseSafe
  OBVIOUS
<1>1. Init => Promise!Init
  BY InitAbstract
<1>2. Inv /\ LifeInv /\ DeliveryAddressed /\ (Inv /\ LifeInv)' /\ [Next]_vars
        => [Promise!Next]_(Promise!vars)
  BY PhaseFacts, PhaseFactsNext, NextAbstract DEF Abstracted, Stutters
<1>3. Spec => []DeliveryAddressed
  BY Addressed
<1> QED
  BY <1>1, <1>2, <1>3, LifeInvariance, PTL DEF Spec, PromiseSafe

-----------------------------------------------------------------------------
(* One request per command, whatever is reused. *)

\* Load commands whose request was counted, or that ended without one.
Spent == {c \in Commands : Phase(c) \in {"waiting", "ended"}}

RequestsSpent == IsFiniteSet(Commands) => stat.sent <= Cardinality(Spent)

\* No more requests than load commands that were submitted.
RequestsSubmitted == IsFiniteSet(Commands) => stat.sent <= Cardinality(Commands \ unsent)

LEMMA MovedPhases ==
  ASSUME NEW d \in Commands, NEW from, NEW to, Promise!Move(d, from, to)
  PROVE  Phase(d) = from /\ \A c \in Commands : Phase(c)' = IF c = d THEN to ELSE Phase(c)
<1>1. PhasesOf[d] = from /\ PhasesOf' = [PhasesOf EXCEPT ![d] = to]
  BY DEF Promise!Move, PhasesOf
<1>2. \A c \in Commands : PhasesOf[c] = Phase(c) /\ PhasesOf'[c] = Phase(c)'
  BY DEF PhasesOf
<1>3. \A c \in Commands : PhasesOf'[c] = IF c = d THEN to ELSE PhasesOf[c]
  BY <1>1 DEF PhasesOf
<1> QED
  BY <1>1, <1>2, <1>3

\* A command that moves on may become spent, and never stops being so.
LEMMA MovedSpent ==
  ASSUME NEW d \in Commands, NEW from, NEW to, Promise!Move(d, from, to),
         from \in {"waiting", "ended"} => to \in {"waiting", "ended"}
  PROVE  Spent \subseteq Spent'
BY MovedPhases DEF Spent

SpentGrows ==
    \/ stat'.sent = stat.sent /\ Spent \subseteq Spent'
    \/ \E d \in Commands \ Spent : stat'.sent = stat.sent + 1 /\ Spent' = Spent \cup {d}

LEMMA AbstractedSpent ==
  ASSUME Abstracted
  PROVE  SpentGrows
<1>1. CASE Stutters
  <2>1. PhasesOf' = PhasesOf /\ stat'.sent = stat.sent
    BY <1>1 DEF Stutters, Promise!vars, PhasesOf
  <2>2. \A c \in Commands : PhasesOf[c] = Phase(c) /\ PhasesOf'[c] = Phase(c)'
    BY DEF PhasesOf
  <2>3. \A c \in Commands : Phase(c)' = Phase(c)
    BY <2>1, <2>2
  <2> QED
    BY <2>1, <2>3 DEF SpentGrows, Spent
<1>2. ASSUME NEW d \in Commands,
             \/ Promise!Submit(d) \/ Promise!Schedule(d) \/ Promise!Request(d)
             \/ Promise!Reply(d) \/ Promise!GiveUp(d)
      PROVE  SpentGrows
  <2>1. stat'.sent = stat.sent
    BY <1>2 DEF Promise!Submit, Promise!Schedule, Promise!Request, Promise!Reply, Promise!GiveUp
  <2>2. \/ Promise!Move(d, "new", "queued") \/ Promise!Move(d, "queued", "scheduled")
        \/ Promise!Move(d, "scheduled", "requesting")
        \/ \E p : Promise!Move(d, p, "ended")
    BY <1>2 DEF Promise!Submit, Promise!Schedule, Promise!Request, Promise!Reply, Promise!GiveUp
  <2> QED
    BY <2>1, <2>2, MovedSpent DEF SpentGrows
<1>3. ASSUME NEW d \in Commands, Promise!Count(d) PROVE SpentGrows
  <2>1. Promise!Move(d, "requesting", "waiting") /\ stat'.sent = stat.sent + 1
    BY <1>3 DEF Promise!Count
  <2>2. /\ Phase(d) = "requesting"
        /\ \A c \in Commands : Phase(c)' = IF c = d THEN "waiting" ELSE Phase(c)
    BY <2>1, MovedPhases
  <2>3. d \notin Spent /\ Spent' = Spent \cup {d}
    BY <2>2 DEF Spent
  <2> QED
    BY <2>1, <2>3 DEF SpentGrows
<1> QED
  BY <1>1, <1>2, <1>3 DEF Abstracted, Promise!Next, Promise!Progress

LEMMA NextSpent ==
  ASSUME Inv, LifeInv, PhaseRules, PhaseRules', [Next]_vars
  PROVE  SpentGrows
<1>1. ASSUME NEW w \in Workers, ReceiveResponse(w) PROVE SpentGrows
  <2> PICK type \in {"TIMER_EVENT", "HTTP_RESPONSE"} : \E cleared : Releasing(w, type, cleared)
    BY <1>1, ReleasingStep
  <2> PICK cleared : Releasing(w, type, cleared)
    OBVIOUS
  <2> PICK d : d = tu[Target(w)].owner
    OBVIOUS
  <2>1. d \in Commands /\ \E p : Promise!Move(d, p, "ended")
    BY ReleasingMoves
  <2>2. Spent \subseteq Spent'
    BY <2>1, MovedSpent
  <2>3. stat'.sent = stat.sent
    BY <1>1 DEF ReceiveResponse, Inv, TypeOK
  <2> QED
    BY <2>2, <2>3 DEF SpentGrows
<1>2. CASE Abstracted
  BY <1>2, AbstractedSpent
<1> QED
  BY <1>1, <1>2, OrdinaryAbstract

LEMMA InitSpent == Init => RequestsSpent
<1> SUFFICES ASSUME Init, IsFiniteSet(Commands) PROVE stat.sent <= Cardinality(Spent)
  BY DEF RequestsSpent
<1>1. IsFiniteSet(Spent) /\ Cardinality(Spent) \in Nat
  BY FS_Subset, FS_CardinalityType DEF Spent
<1> QED
  BY <1>1 DEF Init

LEMMA NextRequests ==
  ASSUME Inv, LifeInv, RequestsSpent, [Next]_vars
  PROVE  RequestsSpent'
<1> SUFFICES ASSUME IsFiniteSet(Commands) PROVE stat'.sent <= Cardinality(Spent')
  BY DEF RequestsSpent
<1>1. PhaseRules /\ PhaseRules'
  BY PhaseFacts, PhaseFactsNext, NextInv, NextLife
<1>2. SpentGrows
  BY <1>1, NextSpent
<1>3. /\ IsFiniteSet(Spent) /\ Cardinality(Spent) \in Nat
      /\ IsFiniteSet(Spent') /\ Cardinality(Spent') \in Nat
  BY FS_Subset, FS_CardinalityType DEF Spent
<1>4. stat.sent \in Nat /\ stat.sent <= Cardinality(Spent)
  BY DEF RequestsSpent, Inv, TypeOK
<1>5. CASE stat'.sent = stat.sent /\ Spent \subseteq Spent'
  <2>1. Cardinality(Spent) <= Cardinality(Spent')
    BY <1>3, <1>5, FS_Subset
  <2> QED
    BY <1>3, <1>4, <1>5, <2>1
<1>6. ASSUME NEW d \in Commands \ Spent, stat'.sent = stat.sent + 1, Spent' = Spent \cup {d}
      PROVE  stat'.sent <= Cardinality(Spent')
  <2>1. Cardinality(Spent') = Cardinality(Spent) + 1
    BY <1>3, <1>6, FS_AddElement
  <2> QED
    BY <1>3, <1>4, <1>6, <2>1
<1> QED
  BY <1>2, <1>5, <1>6 DEF SpentGrows

LEMMA SpentSubmitted ==
  ASSUME Inv, LifeInv, RequestsSpent
  PROVE  RequestsSubmitted
<1> SUFFICES ASSUME IsFiniteSet(Commands) PROVE stat.sent <= Cardinality(Commands \ unsent)
  BY DEF RequestsSubmitted
<1>1. Spent \subseteq Commands \ unsent
  BY PhaseFacts DEF Spent, PhaseRules
<1>2. IsFiniteSet(Commands \ unsent)
  BY FS_Subset
<1>3. /\ Cardinality(Spent) <= Cardinality(Commands \ unsent)
      /\ Cardinality(Spent) \in Nat /\ Cardinality(Commands \ unsent) \in Nat
  BY <1>1, <1>2, FS_Subset, FS_CardinalityType
<1>4. stat.sent \in Nat /\ stat.sent <= Cardinality(Spent)
  BY DEF RequestsSpent, Inv, TypeOK
<1> QED
  BY <1>3, <1>4

\* No more requests are counted than load commands were submitted, even if a late
\* message ends a transaction it was not meant for (StatService, fsm_api_1.cpp:147).
THEOREM OneRequestEach == Spec => []RequestsSubmitted
<1>1. Inv /\ LifeInv /\ RequestsSpent /\ [Next]_vars => RequestsSpent'
  BY NextRequests
<1>2. Inv /\ LifeInv /\ RequestsSpent => RequestsSubmitted
  BY SpentSubmitted
<1> QED
  BY <1>1, <1>2, InitSpent, LifeInvariance, PTL DEF Spec

=============================================================================
