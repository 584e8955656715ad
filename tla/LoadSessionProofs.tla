-------------------------- MODULE LoadSessionProofs --------------------------
(***************************************************************************)
(* Theorems about LoadSession, for any number of threads, pooled objects,   *)
(* commands and requests.                                                   *)
(*                                                                         *)
(* The argument: the shape of the messages tells an opening message from    *)
(* one addressed to a member, so the worker that holds an opening message   *)
(* is the only one that can attach to the session it obtained; hence the    *)
(* pointers of the two pools agree, and every handler runs on the session   *)
(* its guard describes.                                                     *)
(***************************************************************************)
EXTENDS LoadSession, TLAPS, FiniteSetTheorems

\* Only an opening message has no session and no member.
Shape(m) ==
    /\ m.mid = None <=> m.type \in {"LOAD_COMMAND", "HTTP_REQUEST"}
    /\ m.mid = None <=> m.sid = None

MessagesShaped ==
    /\ \A m \in inbox : Shape(m)
    /\ \A w \in Workers : worker[w].pc # "idle" =>
         /\ worker[w].msg \in Message
         /\ worker[w].ih \in Slots
         /\ Shape(worker[w].msg)

\* A lock held across a step is held by a worker that counts its request.
LocksHeld ==
    /\ \A w \in Workers : worker[w].pc = "sent" => lock[worker[w].ih] = w
    /\ \A o \in Slots : lock[o] # None =>
         /\ worker[lock[o]].pc = "sent"
         /\ worker[lock[o]].ih = o
         /\ ih[o].tu # None

MembersShaped ==
    /\ \A o \in Slots : ih[o].mid = None <=> ih[o].tu = None
    /\ \A o \in Slots : ih[o].mid # None => ih[o].sid # None
    /\ \A t \in Slots : Attached(t) => tu[t].owner # None /\ tu[t].fsm = "API"

\* What PoolConservation needs of the workers.
OpenersHold ==
    \A w \in Workers, o \in Slots : Opens(w, o) => ih[o].sid # None /\ ih[o].mid = None

PoolInv == MessagesShaped /\ LocksHeld /\ MembersShaped /\ OpenersHold /\ PoolConservation

Inv == TypeOK /\ PoolInv

-----------------------------------------------------------------------------
(* The initial states. *)

LEMMA InitInv == Init => Inv
<1> SUFFICES ASSUME Init PROVE Inv
  OBVIOUS
<1> USE DEF Init, WorkerIdle, IhIdle, TuIdle
<1>1. TypeOK
  BY NoneAssumption DEF TypeOK, MemberIds, IhSession, TuSession, Message, TimerRecord, WireRecord, Timers, Steps
<1>2. MessagesShaped /\ LocksHeld
  BY DEF MessagesShaped, LocksHeld
<1>3. MembersShaped /\ OpenersHold /\ PoolConservation
  BY DEF MembersShaped, OpenersHold, PoolConservation, Attached, Opens, Routed
<1> QED
  BY <1>1, <1>2, <1>3 DEF Inv, PoolInv

-----------------------------------------------------------------------------
(* The environment: messages of the right shape enter the inbox. *)

\* A member identifier, cut or not, is a number and no zero; cut, it is cut for good.
LEMMA UnpackedIds ==
  /\ Mids \subseteq MemberIds /\ None \notin MemberIds
  /\ \A k \in Mids : Unpacked(k) \in MemberIds
  /\ \A k \in MemberIds : Unpacked(Unpacked(k)) = Unpacked(k)
<1>1. ASSUME NEW k \in Nat PROVE Unpacked(k) \in Nat /\ Unpacked(Unpacked(k)) = Unpacked(k)
  <2>1. MidModulus \in Nat \ {0}
    BY MidsAssumption
  <2>2. k % MidModulus \in 0..(MidModulus - 1)
    BY <2>1
  <2>3. \A j \in 0..(MidModulus - 1) : j % MidModulus = j
    BY <2>1
  <2> QED
    BY <2>1, <2>2, <2>3 DEF Unpacked
<1>2. MemberIds \subseteq Nat
  BY <1>1, MidsAssumption DEF MemberIds
<1> QED
  BY <1>1, <1>2, NoneAssumption DEF MemberIds

LEMMA OpeningMessageShaped ==
  ASSUME NEW c \in Owners
  PROVE  OpeningMessage(c) \in Message /\ Shape(OpeningMessage(c))
BY NoneAssumption DEF OpeningMessage, Message, Shape

LEMMA TimeoutMessageShaped ==
  ASSUME NEW x \in TimerRecord
  PROVE  TimeoutMessage(x) \in Message /\ Shape(TimeoutMessage(x))
BY NoneAssumption, UnpackedIds DEF TimeoutMessage, TimerRecord, Message, Shape

LEMMA ResponseMessageShaped ==
  ASSUME NEW x \in WireRecord
  PROVE  ResponseMessage(x) \in Message /\ Shape(ResponseMessage(x))
BY NoneAssumption, UnpackedIds DEF ResponseMessage, WireRecord, Message, Shape

\* What a handler leaves in the queue it found there, or is well shaped.
InboxShaped == \A m \in inbox' : m \in inbox \/ (m \in Message /\ Shape(m))

\* A timer that was started and stopped at once leaves its event or nothing.
LEMMA ExpiredShaped ==
  ASSUME NEW x \in TimerRecord, MayHaveExpired(x) \/ UNCHANGED inbox
  PROVE  InboxShaped
<1>1. TimeoutMessage(x) \in Message /\ Shape(TimeoutMessage(x))
  BY TimeoutMessageShaped
<1> QED
  BY <1>1 DEF InboxShaped, MayHaveExpired

\* Adding a well-shaped message, and taking timers and requests away, is safe.
LEMMA EnvironmentInv ==
  ASSUME Inv, NEW m \in Message, Shape(m),
         inbox' \in {inbox, inbox \cup {m}},
         unsent' \subseteq unsent, running' \subseteq running, wire' \subseteq wire,
         UNCHANGED <<worker, ih, lock, tu, answers, stat>>
  PROVE  Inv'
<1> USE DEF Inv, PoolInv
<1>1. TypeOK'
  BY DEF TypeOK
<1>2. (MessagesShaped /\ LocksHeld /\ MembersShaped)'
  BY DEF MessagesShaped, LocksHeld, MembersShaped, Attached, Shape
<1>3. (OpenersHold /\ PoolConservation)'
  BY DEF OpenersHold, PoolConservation, Attached, Opens, Routed
<1> QED
  BY <1>1, <1>2, <1>3

-----------------------------------------------------------------------------
(* Routing. *)

\* What a worker that dequeues m can count on.
LEMMA DequeuedShaped ==
  ASSUME Inv, NEW m \in inbox
  PROVE  m \in Message /\ Shape(m)
BY DEF Inv, PoolInv, TypeOK, MessagesShaped

LEMMA FindInv ==
  ASSUME Inv, NEW w \in Workers, NEW m \in inbox, NEW o \in Slots, Find(w, m, o)
  PROVE  Inv'
<1> USE DEF Inv, PoolInv, Find, Dequeue, Route
<1>1. m \in Message /\ Shape(m) /\ m.mid # None /\ m.sid # None
  BY DequeuedShaped DEF Shape
<1>2. TypeOK'
  BY <1>1 DEF TypeOK
<1>3. (MessagesShaped /\ LocksHeld /\ MembersShaped)'
  BY <1>1, NoneAssumption DEF TypeOK, MessagesShaped, LocksHeld, MembersShaped, Attached, Shape
<1>4. \A v \in Workers, p \in Slots : Opens(v, p)' <=> Opens(v, p)
  BY <1>1 DEF TypeOK, Opens, Routed
<1>5. (OpenersHold /\ PoolConservation)'
  BY <1>4 DEF OpenersHold, PoolConservation, Attached
<1> QED
  BY <1>2, <1>3, <1>5

\* FindFails and ObtainFails leave the sessions alone.
LEMMA DropInv ==
  ASSUME Inv, NEW w \in Workers, NEW m \in inbox, FindFails(w, m) \/ ObtainFails(w, m)
  PROVE  Inv'
<1> USE DEF Inv, PoolInv
<1>1. /\ inbox' = inbox \ {m}
      /\ UNCHANGED <<unsent, worker, ih, lock, tu, running, wire, stat>>
      /\ Answer(m, 500) \/ UNCHANGED answers
  BY DEF FindFails, ObtainFails, Dequeue
<1>2. answers' \in [Requests -> SUBSET {200, 500}]
  BY <1>1 DEF TypeOK, Answer
<1>3. TypeOK'
  BY <1>1, <1>2 DEF TypeOK
<1>4. (MessagesShaped /\ LocksHeld /\ MembersShaped)'
  BY <1>1 DEF MessagesShaped, LocksHeld, MembersShaped, Attached, Shape
<1>5. (OpenersHold /\ PoolConservation)'
  BY <1>1 DEF OpenersHold, PoolConservation, Attached, Opens, Routed
<1> QED
  BY <1>3, <1>4, <1>5

LEMMA ObtainInv ==
  ASSUME Inv, NEW w \in Workers, NEW m \in inbox, NEW o \in Slots, NEW s \in Sids,
         Obtain(w, m, o, s)
  PROVE  Inv'
<1> USE DEF Inv, PoolInv, Obtain, Dequeue, Route
<1>1. m \in Message /\ Shape(m) /\ m.mid = None
  BY DequeuedShaped DEF Shape
<1>2. ih[o].sid = None /\ ih[o].mid = None /\ ih[o].tu = None
  BY DEF MembersShaped
<1>3. TypeOK'
  BY <1>1, SMTT(30) DEF TypeOK, IhSession
<1>4. \A p \in Slots : /\ ih'[p].mid = ih[p].mid /\ ih'[p].tu = ih[p].tu
                       /\ ih'[p].sid = IF p = o THEN s ELSE ih[p].sid
  BY DEF TypeOK, IhSession
<1>5. s # None
  BY NoneAssumption
<1>6. worker' = [worker EXCEPT ![w] = [pc |-> "routed", msg |-> m, ih |-> o]] /\ worker[w].pc = "idle"
  OBVIOUS
<1>7. (MessagesShaped /\ LocksHeld)'
  <2>1. MessagesShaped'
    BY <1>1, <1>6 DEF TypeOK, MessagesShaped, Shape
  <2>2. LocksHeld'
    BY <1>4, <1>6, NoneAssumption DEF TypeOK, LocksHeld
  <2> QED
    BY <2>1, <2>2
<1>8. MembersShaped'
  BY <1>4, <1>5 DEF MembersShaped, Attached
<1>9. \A v \in Workers, p \in Slots : Opens(v, p)' <=> Opens(v, p) \/ (v = w /\ p = o)
  BY <1>1, <1>6 DEF TypeOK, Opens, Routed
<1>10. \A v \in Workers : ~Opens(v, o) /\ \A p \in Slots : ~Opens(w, p)
  BY <1>2, <1>6 DEF OpenersHold, Opens, Routed
<1>11. OpenersHold'
  BY <1>2, <1>4, <1>5, <1>9 DEF OpenersHold
<1>12. PoolConservation'
  <2>1. \A p, q \in Slots : ih'[p].sid = ih'[q].sid /\ ih'[p].sid # None => p = q
    BY <1>4 DEF FreeSids, PoolConservation
  <2>2. \A p \in Slots : ih'[p].sid # None /\ ih'[p].mid = None => \E v \in Workers : Opens(v, p)'
    BY <1>4, <1>9 DEF PoolConservation
  <2>3. \A p \in Slots, u, v \in Workers : Opens(u, p)' /\ Opens(v, p)' => u = v
    BY <1>9, <1>10 DEF PoolConservation
  <2>4. \A t \in Slots : Attached(t)' => ih'[tu'[t].parent].tu = t
    BY <1>4 DEF TypeOK, TuSession, PoolConservation, Attached
  <2>5. \A p \in Slots : ih'[p].tu # None => tu'[ih'[p].tu].parent = p
    BY <1>4 DEF PoolConservation
  <2> QED
    BY <2>1, <2>2, <2>3, <2>4, <2>5 DEF PoolConservation
<1> QED
  BY <1>3, <1>7, <1>8, <1>11, <1>12

-----------------------------------------------------------------------------
(* Handlers.  A worker enters with the lock free and a message of known shape. *)

LEMMA Entered ==
  ASSUME Inv, NEW w \in Workers, Enter(w)
  PROVE  /\ worker[w].pc = "routed" /\ Routed(w)
         /\ worker[w].msg \in Message /\ Shape(worker[w].msg)
         /\ worker[w].ih \in Slots
         /\ lock[worker[w].ih] = None
BY DEF Inv, PoolInv, Enter, MessagesShaped, Routed

\* A message delivered to a member meets an attached, live transaction.
LEMMA Delivered ==
  ASSUME Inv, NEW w \in Workers, NEW type \in {"TIMER_EVENT", "HTTP_RESPONSE"}, Deliver(w, type)
  PROVE  /\ Enter(w)
         /\ worker[w].msg.mid # None
         /\ ih[worker[w].ih].mid = worker[w].msg.mid
         /\ Target(w) \in Slots
         /\ tu[Target(w)].parent = worker[w].ih
         /\ tu[Target(w)].owner \in Owners
<1>1. Enter(w) /\ worker[w].msg.type = type /\ ih[worker[w].ih].mid = worker[w].msg.mid
  BY DEF Deliver
<1>2. worker[w].msg.mid # None
  BY <1>1, Entered DEF Shape
<1>3. worker[w].ih \in Slots
  BY <1>1, Entered
<1>4. Target(w) \in Slots /\ tu[Target(w)].parent = worker[w].ih
  BY <1>1, <1>2, <1>3 DEF Inv, PoolInv, TypeOK, IhSession, MembersShaped, PoolConservation, Target
<1>5. tu[Target(w)].owner \in Owners
  BY <1>3, <1>4, NoneAssumption DEF Inv, PoolInv, TypeOK, TuSession, MembersShaped, Attached
<1> QED
  BY <1>1, <1>2, <1>4, <1>5

\* The worker drops its message.
LEMMA IgnoreInv ==
  ASSUME Inv, NEW w \in Workers, Enter(w), worker[w].msg.mid # None, Leave(w),
         UNCHANGED <<unsent, inbox, ih, lock, tu, running, wire, answers, stat>>
  PROVE  Inv'
<1> USE DEF Inv, PoolInv, Leave, WorkerIdle
<1>1. worker[w].pc = "routed" /\ lock[worker[w].ih] = None /\ worker[w].ih \in Slots
  BY Entered
<1>2. TypeOK'
  BY DEF TypeOK
<1>3. (MessagesShaped /\ LocksHeld /\ MembersShaped)'
  BY <1>1, NoneAssumption DEF TypeOK, MessagesShaped, LocksHeld, MembersShaped, Attached, Shape
<1>4. \A v \in Workers, p \in Slots : Opens(v, p)' <=> Opens(v, p)
  BY DEF TypeOK, Opens, Routed
<1>5. (OpenersHold /\ PoolConservation)'
  BY <1>4 DEF OpenersHold, PoolConservation, Attached
<1> QED
  BY <1>2, <1>3, <1>5

\* A handler that ends in DO_RELEASE: both objects return to their pools.
LEMMA ReleaseInv ==
  ASSUME Inv, NEW w \in Workers, NEW type \in {"TIMER_EVENT", "HTTP_RESPONSE"}, Deliver(w, type),
         NEW cleared, Release(worker[w].ih, Target(w), cleared), Leave(w),
         stat' \in [sent : Nat, received : Nat], InboxShaped,
         UNCHANGED <<unsent, lock, wire, answers>>
  PROVE  Inv'
<1> DEFINE o == worker[w].ih
           t == Target(w)
<1> USE DEF Inv, PoolInv
<1>1. /\ worker[w].pc = "routed" /\ lock[o] = None /\ o \in Slots
      /\ worker[w].msg.mid # None
      /\ t \in Slots /\ ih[o].tu = t /\ tu[t].parent = o /\ ih[o].mid # None
  BY Delivered, Entered DEF Target
<1>2. /\ running' \subseteq running
      /\ tu' = [tu EXCEPT ![t] = TuIdle]
      /\ ih' = [ih EXCEPT ![o] = IhIdle]
      /\ worker' = [worker EXCEPT ![w] = WorkerIdle]
  BY DEF Release, Leave
<1> HIDE DEF o, t
<1>3. TypeOK'
  BY <1>1, <1>2 DEF TypeOK, InboxShaped, IhSession, TuSession, IhIdle, TuIdle, WorkerIdle, Steps
<1>4. /\ \A p \in Slots : ih'[p] = IF p = o THEN IhIdle ELSE ih[p]
      /\ \A u \in Slots : tu'[u] = IF u = t THEN TuIdle ELSE tu[u]
      /\ \A v \in Workers : worker'[v] = IF v = w THEN WorkerIdle ELSE worker[v]
  BY <1>1, <1>2 DEF TypeOK
<1>5. MessagesShaped'
  BY <1>4 DEF MessagesShaped, InboxShaped, WorkerIdle, Shape
<1>6. LocksHeld'
  BY <1>1, <1>4, NoneAssumption DEF TypeOK, LocksHeld, WorkerIdle
<1>7. MembersShaped'
  BY <1>4 DEF MembersShaped, Attached, IhIdle, TuIdle
<1>8. \A v \in Workers, p \in Slots : Opens(v, p)' <=> Opens(v, p)
  BY <1>1, <1>4 DEF Opens, Routed, WorkerIdle
<1>9. OpenersHold'
  BY <1>1, <1>4, <1>8 DEF OpenersHold
<1>10. PoolConservation'
  <2>1. \A u \in Slots : Attached(u)' => ih'[tu'[u].parent].tu = u
    BY <1>1, <1>4 DEF TypeOK, TuSession, PoolConservation, Attached, TuIdle
  <2>2. \A p \in Slots : ih'[p].tu # None => tu'[ih'[p].tu].parent = p
    BY <1>1, <1>4 DEF TypeOK, IhSession, PoolConservation, IhIdle
  <2>3. \A p, q \in Slots : ih'[p].sid = ih'[q].sid /\ ih'[p].sid # None => p = q
    BY <1>4 DEF PoolConservation, IhIdle
  <2>4. \A p \in Slots : ih'[p].sid # None /\ ih'[p].mid = None => \E v \in Workers : Opens(v, p)'
    BY <1>4, <1>8 DEF PoolConservation, IhIdle
  <2>5. \A p \in Slots, u, v \in Workers : Opens(u, p)' /\ Opens(v, p)' => u = v
    BY <1>8 DEF PoolConservation
  <2> QED
    BY <2>1, <2>2, <2>3, <2>4, <2>5 DEF PoolConservation
<1> QED
  BY <1>3, <1>5, <1>6, <1>7, <1>9, <1>10

-----------------------------------------------------------------------------
(* The worker that obtained a session opens it, or returns it unopened. *)

LEMMA OpenerEntered ==
  ASSUME Inv, NEW w \in Workers, Enter(w), worker[w].msg.mid = None
  PROVE  /\ Opens(w, worker[w].ih)
         /\ ih[worker[w].ih].sid \in Sids
         /\ ih[worker[w].ih].mid = None
         /\ ih[worker[w].ih].tu = None
         /\ \A t \in Slots : Attached(t) => tu[t].parent # worker[w].ih
<1>1. Opens(w, worker[w].ih) /\ worker[w].ih \in Slots
  BY Entered DEF Opens
<1>2. ih[worker[w].ih].sid # None /\ ih[worker[w].ih].mid = None
  BY <1>1 DEF Inv, PoolInv, OpenersHold
<1>3. ih[worker[w].ih].sid \in Sids /\ ih[worker[w].ih].tu = None
  BY <1>1, <1>2 DEF Inv, PoolInv, TypeOK, IhSession, MembersShaped
<1>4. \A t \in Slots : Attached(t) => tu[t].parent # worker[w].ih
  BY <1>3, NoneAssumption DEF Inv, PoolInv, PoolConservation
<1> QED
  BY <1>1, <1>2, <1>3, <1>4

\* At most the owner of a tu::Session changes, and to a proper one.
TakenOnly ==
    /\ tu' \in [Slots -> TuSession]
    /\ \A t \in Slots : /\ tu'[t].parent = tu[t].parent /\ tu'[t].fsm = tu[t].fsm
                        /\ tu'[t].owner = tu[t].owner \/ tu'[t].owner \in Owners

LEMMA TransactionTaken ==
  ASSUME Inv, NEW c \in Owners,
         UNCHANGED tu \/ \E t \in FreeTus : tu' = [tu EXCEPT ![t].owner = c]
  PROVE  TakenOnly
<1>1. CASE UNCHANGED tu
  BY <1>1 DEF Inv, TypeOK, TakenOnly
<1>2. CASE \E t \in FreeTus : tu' = [tu EXCEPT ![t].owner = c]
  <2>1. PICK t \in Slots : tu' = [tu EXCEPT ![t].owner = c]
    BY <1>2 DEF FreeTus
  <2> QED
    BY <2>1 DEF Inv, TypeOK, TuSession, TakenOnly
<1> QED
  BY <1>1, <1>2

Returned(w) == ih' = [ih EXCEPT ![worker[w].ih] = IhIdle] /\ Leave(w)

\* ManagerFails and OpenAndRelease: the session goes back to the pool; the
\* transaction, if one was taken, is not attached.
LEMMA ReturnInv ==
  ASSUME Inv, NEW w \in Workers, Enter(w), worker[w].msg.mid = None,
         Returned(w), TakenOnly, InboxShaped,
         answers' \in [Requests -> SUBSET {200, 500}],
         UNCHANGED <<unsent, lock, running, wire, stat>>
  PROVE  Inv'
<1> DEFINE o == worker[w].ih
<1> USE DEF Inv, PoolInv
<1>1. /\ worker[w].pc = "routed" /\ worker[w].msg \in Message /\ o \in Slots /\ lock[o] = None
      /\ Opens(w, o) /\ ih[o].mid = None /\ ih[o].tu = None
      /\ \A t \in Slots : Attached(t) => tu[t].parent # o
  BY Entered, OpenerEntered
<1>2. ih' = [ih EXCEPT ![o] = IhIdle] /\ worker' = [worker EXCEPT ![w] = WorkerIdle]
  BY DEF Returned, Leave
<1>3. /\ tu' \in [Slots -> TuSession]
      /\ \A t \in Slots : /\ tu'[t].parent = tu[t].parent /\ tu'[t].fsm = tu[t].fsm
                          /\ tu'[t].owner = tu[t].owner \/ tu'[t].owner \in Owners
  BY DEF TakenOnly
<1> HIDE DEF o
<1>4. TypeOK'
  <2>1. ih' \in [Slots -> IhSession]
    BY <1>1, <1>2 DEF TypeOK, IhSession, IhIdle
  <2>2. worker' \in [Workers -> [pc : {"idle", "routed", "sent"},
                                msg : Message \cup {None}, ih : Slots \cup {None}]]
    BY <1>1, <1>2 DEF TypeOK, WorkerIdle
  <2> QED
    BY <1>3, <2>1, <2>2 DEF TypeOK, InboxShaped
<1>5. /\ \A p \in Slots : ih'[p] = IF p = o THEN IhIdle ELSE ih[p]
      /\ \A v \in Workers : worker'[v] = IF v = w THEN WorkerIdle ELSE worker[v]
  BY <1>1, <1>2 DEF TypeOK
<1>6. (MessagesShaped /\ LocksHeld)'
  <2>1. MessagesShaped'
    BY <1>5 DEF MessagesShaped, InboxShaped, WorkerIdle, Shape
  <2>2. LocksHeld'
    BY <1>1, <1>5, NoneAssumption DEF TypeOK, LocksHeld, WorkerIdle
  <2> QED
    BY <2>1, <2>2
<1>7. MembersShaped'
  BY <1>3, <1>5, NoneAssumption DEF MembersShaped, Attached, IhIdle, Owners
<1>8. \A v \in Workers, p \in Slots : Opens(v, p)' <=> Opens(v, p) /\ v # w
  BY <1>1, <1>5 DEF Opens, Routed, WorkerIdle
<1>9. \A v \in Workers : v # w => ~Opens(v, o)
  BY <1>1 DEF PoolConservation
<1>10. OpenersHold'
  BY <1>5, <1>8, <1>9 DEF OpenersHold
<1>11. PoolConservation'
  <2>1. \A u \in Slots : Attached(u)' => ih'[tu'[u].parent].tu = u
    BY <1>1, <1>3, <1>5 DEF TypeOK, TuSession, PoolConservation, Attached
  <2>2. \A p \in Slots : ih'[p].tu # None => tu'[ih'[p].tu].parent = p
    <3> SUFFICES ASSUME NEW p \in Slots, ih'[p].tu # None
                 PROVE  tu'[ih'[p].tu].parent = p
      OBVIOUS
    <3>1. ih'[p] = ih[p] /\ ih[p].tu # None
      BY <1>5 DEF IhIdle
    <3>2. ih[p].tu \in Slots /\ tu[ih[p].tu].parent = p
      BY <3>1 DEF TypeOK, IhSession, PoolConservation
    <3> QED
      BY <1>3, <3>1, <3>2
  <2>3. \A p, q \in Slots : ih'[p].sid = ih'[q].sid /\ ih'[p].sid # None => p = q
    BY <1>5 DEF PoolConservation, IhIdle
  <2>4. \A p \in Slots : ih'[p].sid # None /\ ih'[p].mid = None => \E v \in Workers : Opens(v, p)'
    <3> SUFFICES ASSUME NEW p \in Slots, ih'[p].sid # None, ih'[p].mid = None
                 PROVE  \E v \in Workers : Opens(v, p)'
      OBVIOUS
    <3>1. p # o /\ ih[p].sid # None /\ ih[p].mid = None
      BY <1>5 DEF IhIdle
    <3>2. PICK v \in Workers : Opens(v, p)
      BY <3>1 DEF PoolConservation
    <3>3. v # w
      BY <3>1, <3>2, <1>1 DEF Opens
    <3> QED
      BY <3>2, <3>3, <1>8
  <2>5. \A p \in Slots, u, v \in Workers : Opens(u, p)' /\ Opens(v, p)' => u = v
    BY <1>8 DEF PoolConservation
  <2> QED
    BY <2>1, <2>2, <2>3, <2>4, <2>5 DEF PoolConservation
<1> QED
  BY <1>4, <1>6, <1>7, <1>10, <1>11

LEMMA AnswerTyped ==
  ASSUME Inv, NEW m, NEW status \in {200, 500}, Answer(m, status)
  PROVE  answers' \in [Requests -> SUBSET {200, 500}]
BY DEF Inv, TypeOK, Answer

LEMMA ManagerFailsInv ==
  ASSUME Inv, NEW w \in Workers, ManagerFails(w)
  PROVE  Inv'
<1>1. /\ Enter(w) /\ worker[w].msg.mid = None
      /\ Returned(w)
      /\ \/ UNCHANGED tu
         \/ \E t \in FreeTus : tu' = [tu EXCEPT ![t].owner = worker[w].msg.owner]
      /\ UNCHANGED <<unsent, inbox, lock, running, wire, answers, stat>>
  BY DEF ManagerFails, Returned
<1>2. InboxShaped /\ answers' \in [Requests -> SUBSET {200, 500}]
  BY <1>1 DEF Inv, TypeOK, InboxShaped
<1>3. worker[w].msg.owner \in Owners
  BY <1>1, Entered DEF Message
<1>4. TakenOnly
  BY <1>1, <1>3, TransactionTaken
<1> QED
  BY <1>1, <1>2, <1>4, ReturnInv

\* The timer a load command starts for the member k before it may be given up.
Opened(w, k) ==
    [owner |-> worker[w].msg.owner, type |-> "SESSION_INACTIVITY_TIMEOUT",
     sid |-> ih[worker[w].ih].sid, mid |-> k]

LEMMA OpenAndReleaseInv ==
  ASSUME Inv, NEW w \in Workers, NEW t \in Slots, NEW k \in Mids, OpenAndRelease(w, t, k)
  PROVE  Inv'
<1>1. /\ Enter(w) /\ worker[w].msg.mid = None
      /\ Returned(w)
      /\ Answer(worker[w].msg, 200)
      /\ MayHaveExpired(Opened(w, k)) \/ UNCHANGED inbox
      /\ UNCHANGED <<unsent, lock, tu, running, wire, stat>>
  BY DEF OpenAndRelease, Returned, Opened
<1>2. worker[w].msg.owner \in Owners
  BY <1>1, Entered DEF Message
<1>3. InboxShaped /\ answers' \in [Requests -> SUBSET {200, 500}]
  <2>1. Opened(w, k) \in TimerRecord
    BY <1>1, <1>2, OpenerEntered DEF Opened, TimerRecord, Timers
  <2> QED
    BY <1>1, <2>1, ExpiredShaped, AnswerTyped
<1>4. TakenOnly
  BY <1>1, <1>2, TransactionTaken
<1> QED
  BY <1>1, <1>3, <1>4, ReturnInv

LEMMA StartScenarioInv ==
  ASSUME Inv, NEW w \in Workers, NEW t \in Slots, NEW k \in Mids, StartScenario(w, t, k)
  PROVE  Inv'
<1> DEFINE o == worker[w].ih
           c == worker[w].msg.owner
           begun == {[owner |-> c, type |-> e, sid |-> ih[o].sid, mid |-> k] : e \in FirstTimers}
           opened == [owner |-> c, parent |-> o, fsm |-> "API", step |-> "NONE",
                      armed |-> FirstTimers]
<1> USE DEF Inv, PoolInv
<1>1. /\ Enter(w) /\ worker[w].msg.type = "LOAD_COMMAND" /\ t \in FreeTus
      /\ ih' = [ih EXCEPT ![o] = [sid |-> ih[o].sid, mid |-> k, tu |-> t]]
      /\ tu' = [tu EXCEPT ![t] = opened]
      /\ running' = running \cup begun
      /\ worker' = [worker EXCEPT ![w] = WorkerIdle]
      /\ UNCHANGED <<unsent, inbox, lock, wire, answers, stat>>
  BY DEF StartScenario, Attach, Leave, ScenarioFsm
<1>2. /\ worker[w].pc = "routed" /\ worker[w].msg \in Message /\ o \in Slots /\ lock[o] = None
      /\ worker[w].msg.mid = None /\ c \in Owners /\ c # None
  BY <1>1, Entered, NoneAssumption DEF Shape, Message, Owners
<1>3. /\ Opens(w, o) /\ ih[o].mid = None /\ ih[o].tu = None /\ ih[o].sid \in Sids
      /\ \A u \in Slots : Attached(u) => tu[u].parent # o
  BY <1>1, <1>2, OpenerEntered
<1>4. tu[t].owner = None /\ ~Attached(t) /\ k # None /\ t # None /\ o # None /\ ih[o].sid # None
  BY <1>1, <1>2, <1>3, NoneAssumption, UnpackedIds DEF FreeTus, MembersShaped
<1>6. begun \subseteq TimerRecord
  BY <1>2, <1>3 DEF TimerRecord, FirstTimers, Timers
<1>7. opened \in TuSession
  BY <1>2 DEF TuSession, FirstTimers, Timers, Steps
<1> HIDE DEF o, c, begun
<1>8. /\ \A p \in Slots : /\ ih'[p].sid = ih[p].sid
                          /\ ih'[p].mid = IF p = o THEN k ELSE ih[p].mid
                          /\ ih'[p].tu = IF p = o THEN t ELSE ih[p].tu
      /\ ih' \in [Slots -> IhSession]
  BY <1>1, <1>2 DEF TypeOK, IhSession
<1>9. /\ \A u \in Slots : u # t => tu'[u] = tu[u]
      /\ tu'[t].parent = o /\ tu'[t].owner = c /\ tu'[t].fsm = "API"
      /\ tu' \in [Slots -> TuSession]
  BY <1>1, <1>7 DEF TypeOK
<1>10. /\ \A v \in Workers : worker'[v] = IF v = w THEN WorkerIdle ELSE worker[v]
       /\ worker' \in [Workers -> [pc : {"idle", "routed", "sent"},
                                   msg : Message \cup {None}, ih : Slots \cup {None}]]
  BY <1>1 DEF TypeOK, WorkerIdle
<1>11. TypeOK'
  BY <1>1, <1>6, <1>8, <1>9, <1>10 DEF TypeOK
<1>12. (MessagesShaped /\ LocksHeld)'
  <2>1. MessagesShaped'
    BY <1>1, <1>10 DEF MessagesShaped, WorkerIdle, Shape
  <2>2. LocksHeld'
    BY <1>1, <1>2, <1>4, <1>8, <1>10, NoneAssumption DEF TypeOK, LocksHeld, WorkerIdle
  <2> QED
    BY <2>1, <2>2
<1>13. MembersShaped'
  BY <1>2, <1>4, <1>8, <1>9 DEF MembersShaped, Attached
<1>14. \A v \in Workers, p \in Slots : Opens(v, p)' <=> Opens(v, p) /\ v # w
  BY <1>2, <1>10 DEF Opens, Routed, WorkerIdle
<1>15. \A v \in Workers : v # w => ~Opens(v, o)
  BY <1>2, <1>3 DEF PoolConservation
<1>16. OpenersHold'
  BY <1>8, <1>14, <1>15 DEF OpenersHold
<1>17. PoolConservation'
  <2>1. \A u \in Slots : Attached(u)' => ih'[tu'[u].parent].tu = u
    <3> SUFFICES ASSUME NEW u \in Slots, Attached(u)'
                 PROVE  ih'[tu'[u].parent].tu = u
      OBVIOUS
    <3>1. CASE u = t
      BY <1>2, <1>8, <1>9, <3>1
    <3>2. CASE u # t
      <4>1. tu'[u] = tu[u] /\ Attached(u)
        BY <1>9, <3>2 DEF Attached
      <4>2. tu[u].parent \in Slots /\ tu[u].parent # o /\ ih[tu[u].parent].tu = u
        BY <1>3, <4>1 DEF TypeOK, TuSession, PoolConservation, Attached
      <4> QED
        BY <1>8, <4>1, <4>2
    <3> QED
      BY <3>1, <3>2
  <2>2. \A p \in Slots : ih'[p].tu # None => tu'[ih'[p].tu].parent = p
    <3> SUFFICES ASSUME NEW p \in Slots, ih'[p].tu # None
                 PROVE  tu'[ih'[p].tu].parent = p
      OBVIOUS
    <3>1. CASE p = o
      BY <1>8, <1>9, <3>1
    <3>2. CASE p # o
      <4>1. ih'[p].tu = ih[p].tu /\ ih[p].tu \in Slots /\ tu[ih[p].tu].parent = p
        BY <1>8, <3>2 DEF TypeOK, IhSession, PoolConservation
      <4>2. ih[p].tu # t
        BY <1>4, <4>1, NoneAssumption DEF Attached
      <4> QED
        BY <1>9, <4>1, <4>2
    <3> QED
      BY <3>1, <3>2
  <2>3. \A p, q \in Slots : ih'[p].sid = ih'[q].sid /\ ih'[p].sid # None => p = q
    BY <1>8 DEF PoolConservation
  <2>4. \A p \in Slots : ih'[p].sid # None /\ ih'[p].mid = None => \E v \in Workers : Opens(v, p)'
    <3> SUFFICES ASSUME NEW p \in Slots, ih'[p].sid # None, ih'[p].mid = None
                 PROVE  \E v \in Workers : Opens(v, p)'
      OBVIOUS
    <3>1. p # o /\ ih[p].sid # None /\ ih[p].mid = None
      BY <1>4, <1>8
    <3>2. PICK v \in Workers : Opens(v, p)
      BY <3>1 DEF PoolConservation
    <3>3. v # w
      BY <1>3, <3>1, <3>2 DEF Opens
    <3> QED
      BY <1>14, <3>2, <3>3
  <2>5. \A p \in Slots, u, v \in Workers : Opens(u, p)' /\ Opens(v, p)' => u = v
    BY <1>14 DEF PoolConservation
  <2> QED
    BY <2>1, <2>2, <2>3, <2>4, <2>5 DEF PoolConservation
<1> QED
  BY <1>11, <1>12, <1>13, <1>16, <1>17

LEMMA CountSentInv ==
  ASSUME Inv, NEW w \in Workers, CountSent(w)
  PROVE  Inv'
<1> DEFINE o == worker[w].ih
<1> USE DEF Inv, PoolInv
<1>1. /\ worker[w].pc = "sent" /\ o \in Slots /\ lock[o] = w
      /\ worker' = [worker EXCEPT ![w] = WorkerIdle]
      /\ lock' = [lock EXCEPT ![o] = None]
      /\ stat' = [stat EXCEPT !.sent = @ + 1]
      /\ UNCHANGED <<unsent, inbox, ih, tu, running, wire, answers>>
  BY DEF CountSent, Leave, MessagesShaped, LocksHeld
<1> HIDE DEF o
<1>2. TypeOK'
  <2>1. stat' \in [sent : Nat, received : Nat]
    BY <1>1 DEF TypeOK
  <2> QED
    BY <1>1, <2>1 DEF TypeOK, WorkerIdle
<1>3. MessagesShaped'
  BY <1>1 DEF TypeOK, MessagesShaped, WorkerIdle, Shape
<1>4. LocksHeld'
  BY <1>1, NoneAssumption DEF TypeOK, LocksHeld, WorkerIdle
<1>5. MembersShaped'
  BY <1>1 DEF MembersShaped, Attached
<1>6. \A v \in Workers, p \in Slots : Opens(v, p)' <=> Opens(v, p)
  BY <1>1 DEF TypeOK, Opens, Routed, WorkerIdle
<1>7. (OpenersHold /\ PoolConservation)'
  BY <1>1, <1>6 DEF OpenersHold, PoolConservation, Attached
<1> QED
  BY <1>2, <1>3, <1>4, <1>5, <1>7

-----------------------------------------------------------------------------
(* SendRequest keeps the lock; nothing but the transaction changes. *)

LEMMA SendRequestInv ==
  ASSUME Inv, NEW w \in Workers, SendRequest(w)
  PROVE  Inv'
<1> DEFINE o == worker[w].ih
           t == Target(w)
           awaiting == Awaiting(tu[t])
           timer == [owner |-> tu[t].owner, type |-> "HTTP_RESPONSE_TIMEOUT",
                     sid |-> ih[o].sid, mid |-> ih[o].mid]
           request == [owner |-> tu[t].owner, sid |-> ih[o].sid, mid |-> ih[o].mid]
<1> USE DEF Inv, PoolInv
<1>1. /\ Deliver(w, "TIMER_EVENT")
      /\ tu' = [tu EXCEPT ![t] = awaiting]
      /\ running' \subseteq running \cup {timer}
      /\ wire' = wire \cup {request}
      /\ lock' = [lock EXCEPT ![o] = w]
      /\ worker' = [worker EXCEPT ![w].pc = "sent"]
      /\ UNCHANGED <<unsent, inbox, ih, answers, stat>>
  BY DEF SendRequest, Triggered
<1>2. /\ worker[w].pc = "routed" /\ o \in Slots /\ lock[o] = None /\ worker[w].msg.mid # None
      /\ t \in Slots /\ tu[t].owner \in Owners /\ ih[o].tu = t
      /\ ih[o].mid \in Mids
  <2>1. /\ Enter(w) /\ worker[w].msg.mid # None /\ ih[o].mid = worker[w].msg.mid
        /\ t \in Slots /\ tu[t].owner \in Owners
    BY <1>1, Delivered
  <2>2. worker[w].pc = "routed" /\ o \in Slots /\ lock[o] = None
    BY <2>1, Entered
  <2>3. ih[o].mid \in Mids
    BY <2>1, <2>2 DEF TypeOK, IhSession
  <2> QED
    BY <2>1, <2>2, <2>3 DEF Target
<1>3. ih[o].sid \in Sids /\ ih[o].tu # None
  BY <1>2, NoneAssumption DEF TypeOK, IhSession, MembersShaped
<1>4. timer \in TimerRecord /\ request \in WireRecord
  BY <1>2, <1>3 DEF TimerRecord, WireRecord, Timers
<1>5. /\ awaiting \in TuSession /\ awaiting.owner = tu[t].owner
      /\ awaiting.parent = tu[t].parent /\ awaiting.fsm = tu[t].fsm
  BY <1>2 DEF TypeOK, TuSession, Timers, Steps, Awaiting
<1> HIDE DEF o, t, awaiting, timer, request
<1>6. \A v \in Workers : /\ worker'[v].pc = IF v = w THEN "sent" ELSE worker[v].pc
                         /\ worker'[v].msg = worker[v].msg
                         /\ worker'[v].ih = worker[v].ih
  BY <1>1 DEF TypeOK
<1>7. TypeOK'
  <2>1. tu' \in [Slots -> TuSession]
    BY <1>1, <1>5 DEF TypeOK
  <2>2. worker' \in [Workers -> [pc : {"idle", "routed", "sent"},
                                msg : Message \cup {None}, ih : Slots \cup {None}]]
    BY <1>1 DEF TypeOK
  <2>3. lock' \in [Slots -> Workers \cup {None}]
    BY <1>1 DEF TypeOK
  <2> QED
    BY <1>1, <1>4, <2>1, <2>2, <2>3 DEF TypeOK
<1>8. MessagesShaped'
  BY <1>1, <1>2, <1>6 DEF MessagesShaped, Shape
<1>9. LocksHeld'
  <2>1. \A p \in Slots : lock'[p] = IF p = o THEN w ELSE lock[p]
    BY <1>1 DEF TypeOK
  <2>2. \A v \in Workers : worker'[v].pc = "sent" => lock'[worker'[v].ih] = v
    BY <1>2, <1>6, <2>1, NoneAssumption DEF LocksHeld, MessagesShaped, o
  <2>3. \A p \in Slots : lock'[p] # None =>
          worker'[lock'[p]].pc = "sent" /\ worker'[lock'[p]].ih = p /\ ih'[p].tu # None
    BY <1>1, <1>2, <1>3, <1>6, <2>1 DEF TypeOK, LocksHeld, o
  <2> QED
    BY <2>2, <2>3 DEF LocksHeld
<1>10. \A u \in Slots : tu'[u].owner = tu[u].owner /\ tu'[u].parent = tu[u].parent
                        /\ tu'[u].fsm = tu[u].fsm
  BY <1>1, <1>5 DEF TypeOK
<1>11. MembersShaped'
  BY <1>1, <1>10 DEF MembersShaped, Attached
<1>12. \A v \in Workers, p \in Slots : Opens(v, p)' <=> Opens(v, p)
  BY <1>2, <1>6 DEF Opens, Routed
<1>13. OpenersHold'
  BY <1>1, <1>12 DEF OpenersHold
<1>14. PoolConservation'
  <2>1. \A u \in Slots : Attached(u)' => ih'[tu'[u].parent].tu = u
    BY <1>1, <1>10 DEF PoolConservation, Attached
  <2>2. \A p \in Slots : ih'[p].tu # None => tu'[ih'[p].tu].parent = p
    BY <1>1, <1>10 DEF TypeOK, IhSession, PoolConservation
  <2> QED
    BY <1>1, <1>12, <2>1, <2>2 DEF PoolConservation
<1> QED
  BY <1>7, <1>8, <1>9, <1>11, <1>13, <1>14

-----------------------------------------------------------------------------
(* Every step preserves the invariant. *)

\* The response timer of the transaction worker w has triggered.
Requested(w) ==
    [owner |-> tu[Target(w)].owner, type |-> "HTTP_RESPONSE_TIMEOUT",
     sid |-> ih[worker[w].ih].sid, mid |-> ih[worker[w].ih].mid]

LEMMA RequestedTyped ==
  ASSUME Inv, NEW w \in Workers, Deliver(w, "TIMER_EVENT")
  PROVE  Requested(w) \in TimerRecord
<1>1. /\ Enter(w) /\ worker[w].msg.mid # None /\ ih[worker[w].ih].mid = worker[w].msg.mid
      /\ tu[Target(w)].owner \in Owners
  BY Delivered
<1>2. worker[w].ih \in Slots
  BY <1>1, Entered
<1>3. ih[worker[w].ih].mid \in Mids /\ ih[worker[w].ih].sid \in Sids
  BY <1>1, <1>2 DEF Inv, PoolInv, TypeOK, IhSession, MembersShaped
<1> QED
  BY <1>1, <1>3 DEF Requested, TimerRecord, Timers

LEMMA DeliveringInv ==
  ASSUME Inv, NEW w \in Workers, Delivering(w)
  PROVE  Inv'
<1>1. CASE MemberNotFound(w)
  BY <1>1, IgnoreInv DEF MemberNotFound
<1>2. CASE TimeoutIgnored(w)
  <2>1. Enter(w) /\ worker[w].msg.mid # None
    BY <1>2, Delivered DEF TimeoutIgnored
  <2> QED
    BY <1>2, <2>1, IgnoreInv DEF TimeoutIgnored
<1>3. stat \in [sent : Nat, received : Nat]
  BY DEF Inv, TypeOK
<1>4. CASE GiveUp(w)
  BY <1>3, <1>4, ReleaseInv DEF GiveUp, InboxShaped
<1>5. CASE SendRequest(w)
  BY <1>5, SendRequestInv
<1>6. CASE EndScenario(w)
  <2>1. /\ Deliver(w, "TIMER_EVENT") /\ Release(worker[w].ih, Target(w), {"TRIGGER_SCENARIO"})
        /\ MayHaveExpired(Requested(w)) \/ UNCHANGED inbox
        /\ Leave(w) /\ UNCHANGED <<unsent, lock, wire, answers, stat>>
    BY <1>6 DEF EndScenario, Triggered, Requested
  <2>2. InboxShaped
    BY <2>1, RequestedTyped, ExpiredShaped
  <2> QED
    BY <1>3, <2>1, <2>2, ReleaseInv
<1>7. CASE ReceiveResponse(w)
  <2>1. stat' \in [sent : Nat, received : Nat]
    BY <1>3, <1>7 DEF ReceiveResponse
  <2> QED
    BY <1>7, <2>1, ReleaseInv DEF ReceiveResponse, InboxShaped
<1> QED
  BY <1>1, <1>2, <1>4, <1>5, <1>6, <1>7 DEF Delivering

LEMMA NextInv == Inv /\ [Next]_vars => Inv'
<1> SUFFICES ASSUME Inv, [Next]_vars PROVE Inv'
  OBVIOUS
<1>1. ASSUME NEW c \in Owners, Submit(c) PROVE Inv'
  <2>1. OpeningMessage(c) \in Message /\ Shape(OpeningMessage(c))
    BY OpeningMessageShaped
  <2> QED
    BY <1>1, <2>1, EnvironmentInv DEF Submit
<1>2. ASSUME NEW x \in running, Expire(x) PROVE Inv'
  <2>1. TimeoutMessage(x) \in Message /\ Shape(TimeoutMessage(x))
    BY TimeoutMessageShaped DEF Inv, TypeOK
  <2> QED
    BY <1>2, <2>1, EnvironmentInv DEF Expire
<1>3. ASSUME NEW x \in wire, Respond(x) \/ Lose(x) PROVE Inv'
  <2>1. ResponseMessage(x) \in Message /\ Shape(ResponseMessage(x))
    BY ResponseMessageShaped DEF Inv, TypeOK
  <2> QED
    BY <1>3, <2>1, EnvironmentInv DEF Respond, Lose
<1>4. ASSUME NEW w \in Workers, Work(w) PROVE Inv'
  <2>1. CASE Routing(w)
    BY <2>1, FindInv, DropInv, ObtainInv DEF Routing
  <2>2. CASE Opening(w)
    BY <2>2, ManagerFailsInv, StartScenarioInv, OpenAndReleaseInv DEF Opening
  <2>3. CASE Delivering(w)
    BY <2>3, DeliveringInv
  <2>4. CASE CountSent(w)
    BY <2>4, CountSentInv
  <2> QED
    BY <1>4, <2>1, <2>2, <2>3, <2>4 DEF Work
<1>5. CASE UNCHANGED vars
  BY <1>5 DEF vars, Inv, PoolInv, TypeOK, MessagesShaped, LocksHeld, MembersShaped,
              OpenersHold, PoolConservation, Attached, Opens, Routed, Shape
<1> QED
  BY <1>1, <1>2, <1>3, <1>4, <1>5 DEF Next, TimerThread

THEOREM Invariance == Spec => []Inv
<1>1. Init => Inv
  BY InitInv
<1>2. Inv /\ [Next]_vars => Inv'
  BY NextInv
<1> QED
  BY <1>1, <1>2, PTL DEF Spec

\* The state of the engine stays within its types.
THEOREM TypeCorrect == Spec => []TypeOK
<1>1. Inv => TypeOK
  BY DEF Inv
<1> QED
  BY <1>1, Invariance, PTL

\* The two pools always agree, and a container out of its pool without a member is
\* in the hands of the one worker that obtained it: no path forgets to release an
\* ih::Session.  Of the other pool it says less: a tu::Session that a failed
\* Attach leaves taken (manager.cpp:39-42) has no session and satisfies it.
THEOREM PoolsConserved == Spec => []PoolConservation
<1>1. Inv => PoolConservation
  BY DEF Inv, PoolInv
<1> QED
  BY <1>1, Invariance, PTL

\* No message for a member meets an FSM without a handler for it.
THEOREM HandlersSuffice == Spec => []NeverInvalidState
<1>1. Inv => NeverInvalidState
  <2> SUFFICES ASSUME Inv, NEW w \in Workers, Routed(w), worker[w].msg.mid # None,
                      ih[worker[w].ih].mid = worker[w].msg.mid
               PROVE  tu[Target(w)].fsm = "API"
    BY DEF NeverInvalidState
  <2>1. worker[w].ih \in Slots
    BY DEF Inv, PoolInv, MessagesShaped, Routed
  <2>2. Target(w) \in Slots /\ tu[Target(w)].parent = worker[w].ih
    BY <2>1 DEF Inv, PoolInv, TypeOK, IhSession, MembersShaped, PoolConservation, Target
  <2> QED
    BY <2>1, <2>2, NoneAssumption DEF Inv, PoolInv, MembersShaped, Attached
<1> QED
  BY <1>1, Invariance, PTL


-----------------------------------------------------------------------------
(***************************************************************************)
(* Whom a message reaches.  While Attach hands out no identifier that some-  *)
(* thing still carries, as far as a reply can tell, whatever carries the     *)
(* same identifier does so for one owner (OneOwner); hence no message is     *)
(* delivered to a stranger, however late it is.                             *)
(***************************************************************************)

\* Something carries, for owner c, an identifier a reply brings back as j.
Carries(j, c) ==
    \/ \E m \in inbox : m.mid # None /\ Unpacked(m.mid) = j /\ m.owner = c
    \/ \E w \in Workers : /\ Routed(w) /\ worker[w].msg.mid # None
                          /\ Unpacked(worker[w].msg.mid) = j /\ worker[w].msg.owner = c
    \/ \E x \in running : Unpacked(x.mid) = j /\ x.owner = c
    \/ \E x \in wire : Unpacked(x.mid) = j /\ x.owner = c
    \/ \E o \in Slots : /\ ih[o].mid # None
                        /\ Unpacked(ih[o].mid) = j /\ tu[ih[o].tu].owner = c

OneOwner == \A j, c, d : Carries(j, c) /\ Carries(j, d) => c = d

\* A step after which nothing is carried that was not.
NothingNew == \A j, c : Carries(j, c)' => Carries(j, c)

\* A step that may have c carry k.
OnlyNew(k, c) == \A j, d : Carries(j, d)' => Carries(j, d) \/ (j = Unpacked(k) /\ d = c)

\* Each session that has a member keeps it, and the member its owner, or loses it.
MembersKept ==
    \A o \in Slots : ih'[o].mid # None =>
        ih'[o].mid = ih[o].mid /\ tu'[ih'[o].tu].owner = tu[ih[o].tu].owner

WorkersKept == \A w \in Workers : worker'[w] \in {worker[w], WorkerIdle}

-----------------------------------------------------------------------------
LEMMA OwnersKept ==
  ASSUME OneOwner, NothingNew
  PROVE  OneOwner'
BY DEF OneOwner, NothingNew

\* What Attach hands out nobody carried.
LEMMA HandedOut ==
  ASSUME Inv, OneOwner, ~MidsReused, NEW k \in AttachableMids, NEW c, OnlyNew(k, c)
  PROVE  OneOwner'
<1>1. ASSUME NEW d, Carries(Unpacked(k), d) PROVE FALSE
  <2>1. \A j \in MidsCarried : j # None => Unpacked(j) # Unpacked(k)
    BY DEF AttachableMids
  <2>2. \A x \in running \cup wire : x.mid \in Mids /\ x.mid # None
    BY UnpackedIds DEF Inv, TypeOK, TimerRecord, WireRecord
  <2>3. /\ \A m \in inbox : m.mid \in MidsCarried
        /\ \A w \in Workers : Routed(w) => worker[w].msg.mid \in MidsCarried
        /\ \A x \in running \cup wire : x.mid \in MidsCarried
        /\ \A o \in Slots : ih[o].mid \in MidsCarried
    BY DEF MidsCarried, Routed
  <2> QED
    BY <1>1, <2>1, <2>2, <2>3 DEF Carries
<1> QED
  BY <1>1 DEF OneOwner, OnlyNew

LEMMA MembersOwned ==
  ASSUME Inv, NEW o \in Slots, ih[o].mid # None
  PROVE  /\ ih[o].mid \in Mids /\ ih[o].tu \in Slots /\ tu[ih[o].tu].owner # None
         /\ tu[ih[o].tu].parent = o
<1> USE NoneAssumption DEF Inv, PoolInv, TypeOK
<1>1. ih[o].mid \in Mids /\ ih[o].tu \in Slots
  BY DEF IhSession, MembersShaped
<1>2. tu[ih[o].tu].parent = o
  BY <1>1 DEF PoolConservation
<1> QED
  BY <1>1, <1>2 DEF MembersShaped, Attached

\* Steps that take carriers away, but for the messages they queue.
LEMMA FewerCarriers ==
  ASSUME MembersKept, WorkersKept, running' \subseteq running, wire' \subseteq wire,
         NEW j, NEW c, Carries(j, c)'
  PROVE  \/ Carries(j, c)
         \/ \E m \in inbox' \ inbox : m.mid # None /\ Unpacked(m.mid) = j /\ m.owner = c
<1>1. CASE \E m \in inbox' : m.mid # None /\ Unpacked(m.mid) = j /\ m.owner = c
  BY <1>1 DEF Carries
<1>2. CASE \E w \in Workers : /\ Routed(w)' /\ worker'[w].msg.mid # None
                              /\ Unpacked(worker'[w].msg.mid) = j /\ worker'[w].msg.owner = c
  BY <1>2 DEF Carries, WorkersKept, Routed, WorkerIdle
<1>3. CASE \/ \E x \in running' : Unpacked(x.mid) = j /\ x.owner = c
           \/ \E x \in wire' : Unpacked(x.mid) = j /\ x.owner = c
  BY <1>3 DEF Carries
<1>4. CASE \E o \in Slots : /\ ih'[o].mid # None
                            /\ Unpacked(ih'[o].mid) = j /\ tu'[ih'[o].tu].owner = c
  BY <1>4 DEF Carries, MembersKept
<1> QED
  BY <1>1, <1>2, <1>3, <1>4 DEF Carries

LEMMA FewerOwners ==
  ASSUME OneOwner, MembersKept, WorkersKept,
         inbox' \subseteq inbox, running' \subseteq running, wire' \subseteq wire
  PROVE  OneOwner'
<1>1. NothingNew
  BY FewerCarriers DEF NothingNew
<1> QED
  BY <1>1, OwnersKept

-----------------------------------------------------------------------------
(* The environment and the hub. *)

LEMMA UnchangedKept ==
  ASSUME UNCHANGED <<worker, ih, tu>>
  PROVE  MembersKept /\ WorkersKept
BY DEF MembersKept, WorkersKept

LEMMA SubmitOwners ==
  ASSUME OneOwner, NEW c \in Owners, Submit(c)
  PROVE  OneOwner'
<1>1. /\ inbox' = inbox \cup {OpeningMessage(c)} /\ UNCHANGED <<running, wire>>
      /\ MembersKept /\ WorkersKept
  BY UnchangedKept DEF Submit
<1>2. OpeningMessage(c).mid = None
  BY DEF OpeningMessage
<1>3. NothingNew
  BY <1>1, <1>2, FewerCarriers DEF NothingNew
<1> QED
  BY <1>3, OwnersKept

\* A message takes over the identifiers of a timer or of a request.
LEMMA TakeoverOwners ==
  ASSUME OneOwner, NEW m, inbox' = inbox \cup {m}, Carries(Unpacked(m.mid), m.owner),
         running' \subseteq running, wire' \subseteq wire, MembersKept, WorkersKept
  PROVE  OneOwner'
<1>1. NothingNew
  BY FewerCarriers DEF NothingNew
<1> QED
  BY <1>1, OwnersKept

LEMMA ExpireOwners ==
  ASSUME Inv, OneOwner, NEW x \in running, Expire(x)
  PROVE  OneOwner'
<1>1. TimeoutMessage(x).mid = x.mid /\ TimeoutMessage(x).owner = x.owner
  BY DEF TimeoutMessage
<1>2. Carries(Unpacked(x.mid), x.owner)
  BY DEF Carries
<1>3. /\ inbox' = inbox \cup {TimeoutMessage(x)} /\ running' \subseteq running
      /\ wire' \subseteq wire /\ MembersKept /\ WorkersKept
  BY UnchangedKept DEF Expire
<1> HIDE DEF TimeoutMessage
<1> QED
  BY <1>1, <1>2, <1>3, TakeoverOwners

\* The reply brings back what is left of the identifier, and no other owner's is left so.
LEMMA WireOwners ==
  ASSUME Inv, OneOwner, NEW x \in wire, Respond(x) \/ Lose(x)
  PROVE  OneOwner'
<1>1. CASE Respond(x)
  <2>1. ResponseMessage(x).mid = Unpacked(x.mid) /\ ResponseMessage(x).owner = x.owner
    BY DEF ResponseMessage
  <2>2. Unpacked(Unpacked(x.mid)) = Unpacked(x.mid)
    BY UnpackedIds DEF Inv, TypeOK, WireRecord
  <2>3. Carries(Unpacked(x.mid), x.owner)
    BY DEF Carries
  <2>4. /\ inbox' = inbox \cup {ResponseMessage(x)} /\ running' \subseteq running
        /\ wire' \subseteq wire /\ MembersKept /\ WorkersKept
    BY <1>1, UnchangedKept DEF Respond
  <2> HIDE DEF ResponseMessage
  <2> QED
    BY <2>1, <2>2, <2>3, <2>4, TakeoverOwners
<1>2. CASE Lose(x)
  <2>1. /\ inbox' \subseteq inbox /\ running' \subseteq running
        /\ wire' \subseteq wire /\ MembersKept /\ WorkersKept
    BY <1>2, UnchangedKept DEF Lose
  <2> QED
    BY <2>1, FewerOwners
<1> QED
  BY <1>1, <1>2

LEMMA RoutingOwners ==
  ASSUME Inv, OneOwner, NEW w \in Workers, Routing(w)
  PROVE  OneOwner'
<1> PICK m \in inbox : \/ \E o \in Slots : Find(w, m, o)
                       \/ FindFails(w, m)
                       \/ \E o \in Slots, s \in Sids : Obtain(w, m, o, s)
                       \/ ObtainFails(w, m)
  BY DEF Routing
<1>1. worker \in [Workers -> [pc : {"idle", "routed", "sent"},
                              msg : Message \cup {None}, ih : Slots \cup {None}]]
  BY DEF Inv, TypeOK
<1>2. ASSUME NEW o \in Slots, Find(w, m, o) \/ \E s \in Sids : Obtain(w, m, o, s)
      PROVE  NothingNew
  <2>1. /\ inbox' \subseteq inbox
        /\ worker' = [worker EXCEPT ![w] = [pc |-> "routed", msg |-> m, ih |-> o]]
        /\ UNCHANGED <<tu, running, wire>>
        /\ UNCHANGED ih \/ \E s \in Sids : ih' = [ih EXCEPT ![o].sid = s]
    BY <1>2 DEF Find, Obtain, Dequeue, Route
  <2>2. \A p \in Slots : ih'[p].mid = ih[p].mid /\ ih'[p].tu = ih[p].tu
    BY <2>1 DEF Inv, TypeOK, IhSession
  <2>3. \A v \in Workers : Routed(v)' => worker'[v].msg = m \/ (Routed(v) /\ worker'[v] = worker[v])
    BY <1>1, <2>1 DEF Routed
  <2> QED
    BY <2>1, <2>2, <2>3 DEF NothingNew, Carries
<1>3. CASE FindFails(w, m) \/ ObtainFails(w, m)
  <2>1. inbox' \subseteq inbox /\ UNCHANGED <<running, wire>> /\ MembersKept /\ WorkersKept
    BY <1>3, UnchangedKept DEF FindFails, ObtainFails, Dequeue
  <2> QED
    BY <2>1, FewerOwners
<1> QED
  BY <1>2, <1>3, OwnersKept

-----------------------------------------------------------------------------
(* Handlers that open a session. *)

LEMMA LeaveKeepsWorkers ==
  ASSUME Inv, NEW w \in Workers, Leave(w)
  PROVE  WorkersKept
BY DEF Inv, TypeOK, Leave, WorkersKept

\* The session an opener returns had no member, and a transaction it took, no session.
LEMMA OpenerKeeps ==
  ASSUME Inv, NEW w \in Workers, Returned(w),
         \/ UNCHANGED tu
         \/ \E t \in FreeTus : tu' = [tu EXCEPT ![t].owner = worker[w].msg.owner]
  PROVE  WorkersKept /\ MembersKept
<1>1. WorkersKept
  BY LeaveKeepsWorkers DEF Returned
<1>2. /\ ih' = [ih EXCEPT ![worker[w].ih] = IhIdle]
      /\ ih \in [Slots -> IhSession] /\ tu \in [Slots -> TuSession]
  BY DEF Returned, Inv, TypeOK
<1>3. MembersKept
  <2> SUFFICES ASSUME NEW o \in Slots, ih'[o].mid # None
               PROVE  ih'[o].mid = ih[o].mid /\ tu'[ih'[o].tu].owner = tu[ih[o].tu].owner
    BY DEF MembersKept
  <2>1. ih'[o] = ih[o]
    BY <1>2 DEF IhIdle
  <2>2. ih[o].tu \in Slots /\ tu[ih[o].tu].owner # None
    BY <2>1, MembersOwned
  <2>3. tu'[ih[o].tu].owner = tu[ih[o].tu].owner
    <3>1. CASE UNCHANGED tu
      BY <3>1
    <3>2. CASE \E t \in FreeTus : tu' = [tu EXCEPT ![t].owner = worker[w].msg.owner]
      <4>1. PICK t \in FreeTus : tu' = [tu EXCEPT ![t].owner = worker[w].msg.owner]
        BY <3>2
      <4>2. t # ih[o].tu
        BY <2>2 DEF FreeTus
      <4> QED
        BY <1>2, <2>2, <4>1, <4>2
    <3> QED
      BY <3>1, <3>2
  <2> QED
    BY <2>1, <2>3
<1> QED
  BY <1>1, <1>3

LEMMA ManagerFailsOwners ==
  ASSUME Inv, OneOwner, NEW w \in Workers, ManagerFails(w)
  PROVE  OneOwner'
<1>1. /\ Returned(w)
      /\ \/ UNCHANGED tu
         \/ \E t \in FreeTus : tu' = [tu EXCEPT ![t].owner = worker[w].msg.owner]
      /\ UNCHANGED <<inbox, running, wire>>
  BY DEF ManagerFails, Returned
<1> QED
  BY <1>1, OpenerKeeps, FewerOwners

LEMMA OpenAndReleaseOwners ==
  ASSUME Inv, OneOwner, ~MidsReused, NEW w \in Workers, NEW t \in Slots, NEW k \in Mids,
         OpenAndRelease(w, t, k)
  PROVE  OneOwner'
<1> DEFINE late == TimeoutMessage(Opened(w, k))
<1>1. /\ Returned(w)
      /\ k \in AttachableMids
      /\ inbox' \in {inbox, inbox \cup {late}}
      /\ UNCHANGED <<tu, running, wire>>
  BY DEF OpenAndRelease, Returned, MayHaveExpired, Opened
<1>2. late.mid = k /\ late.owner = worker[w].msg.owner
  BY DEF TimeoutMessage, Opened
<1> HIDE DEF late
<1>3. OnlyNew(k, worker[w].msg.owner)
  <2> SUFFICES ASSUME NEW j, NEW d, Carries(j, d)'
               PROVE  Carries(j, d) \/ (j = Unpacked(k) /\ d = worker[w].msg.owner)
    BY DEF OnlyNew
  <2>1. \/ Carries(j, d)
        \/ \E m \in inbox' \ inbox : m.mid # None /\ Unpacked(m.mid) = j /\ m.owner = d
    BY <1>1, OpenerKeeps, FewerCarriers
  <2> QED
    BY <1>1, <1>2, <2>1
<1> QED
  BY <1>1, <1>3, HandedOut

LEMMA StartScenarioOwners ==
  ASSUME Inv, OneOwner, ~MidsReused, NEW w \in Workers, NEW t \in Slots, NEW k \in Mids,
         StartScenario(w, t, k)
  PROVE  OneOwner'
<1> DEFINE o == worker[w].ih
           c == worker[w].msg.owner
           begun == {[owner |-> c, type |-> e, sid |-> ih[o].sid, mid |-> k] : e \in FirstTimers}
           opened == [owner |-> c, parent |-> o, fsm |-> ScenarioFsm, step |-> "NONE",
                      armed |-> FirstTimers]
<1>1. /\ Enter(w) /\ worker[w].msg.type = "LOAD_COMMAND" /\ t \in FreeTus
      /\ k \in AttachableMids
      /\ ih' = [ih EXCEPT ![o] = [sid |-> ih[o].sid, mid |-> k, tu |-> t]]
      /\ tu' = [tu EXCEPT ![t] = opened]
      /\ running' = running \cup begun
      /\ Leave(w)
      /\ UNCHANGED <<inbox, wire>>
  BY DEF StartScenario, Attach
<1>2. o \in Slots
  BY <1>1, Entered
<1>3. \A x \in begun : x.mid = k /\ x.owner = c
  OBVIOUS
<1>4. opened.owner = c
  OBVIOUS
<1>5. WorkersKept /\ ih \in [Slots -> IhSession] /\ tu \in [Slots -> TuSession]
  BY <1>1, LeaveKeepsWorkers DEF Inv, TypeOK
<1> HIDE DEF o, c, begun, opened
<1>6. ASSUME NEW j, NEW d, Carries(j, d)'
      PROVE  Carries(j, d) \/ (j = Unpacked(k) /\ d = c)
  <2>1. CASE \E m \in inbox' : m.mid # None /\ Unpacked(m.mid) = j /\ m.owner = d
    BY <1>1, <2>1 DEF Carries
  <2>2. CASE \E v \in Workers : /\ Routed(v)' /\ worker'[v].msg.mid # None
                                /\ Unpacked(worker'[v].msg.mid) = j /\ worker'[v].msg.owner = d
    BY <1>5, <2>2 DEF Carries, WorkersKept, Routed, WorkerIdle
  <2>3. CASE \/ \E x \in running' : Unpacked(x.mid) = j /\ x.owner = d
             \/ \E x \in wire' : Unpacked(x.mid) = j /\ x.owner = d
    BY <1>1, <1>3, <2>3 DEF Carries
  <2>4. CASE \E p \in Slots : /\ ih'[p].mid # None
                              /\ Unpacked(ih'[p].mid) = j /\ tu'[ih'[p].tu].owner = d
    <3> PICK p \in Slots : /\ ih'[p].mid # None
                           /\ Unpacked(ih'[p].mid) = j /\ tu'[ih'[p].tu].owner = d
      BY <2>4
    <3>1. CASE p = o
      <4>1. ih'[p].mid = k /\ ih'[p].tu = t
        BY <1>1, <1>2, <1>5, <3>1
      <4>2. tu'[t].owner = c
        BY <1>1, <1>4, <1>5
      <4> QED
        BY <4>1, <4>2
    <3>2. CASE p # o
      <4>1. ih'[p] = ih[p]
        BY <1>1, <1>5, <3>2
      <4>2. ih[p].tu \in Slots /\ tu[ih[p].tu].owner # None
        BY <4>1, MembersOwned
      <4>3. tu'[ih[p].tu] = tu[ih[p].tu]
        BY <1>1, <1>5, <4>2 DEF FreeTus
      <4> QED
        BY <4>1, <4>3 DEF Carries
    <3> QED
      BY <3>1, <3>2
  <2> QED
    BY <1>6, <2>1, <2>2, <2>3, <2>4 DEF Carries
<1>7. OnlyNew(k, c)
  BY <1>6 DEF OnlyNew
<1> QED
  BY <1>1, <1>7, HandedOut

-----------------------------------------------------------------------------
(* Handlers that run for a member. *)

LEMMA ReleasedOwners ==
  ASSUME Inv, NEW w \in Workers, NEW type \in {"TIMER_EVENT", "HTTP_RESPONSE"},
         Deliver(w, type), NEW cleared, Release(worker[w].ih, Target(w), cleared), Leave(w)
  PROVE  MembersKept /\ WorkersKept /\ running' \subseteq running
<1> DEFINE o == worker[w].ih
           t == Target(w)
<1>1. t \in Slots /\ tu[t].parent = o /\ o \in Slots
  BY Delivered, Entered
<1>2. /\ running' \subseteq running
      /\ tu' = [tu EXCEPT ![t] = TuIdle]
      /\ ih' = [ih EXCEPT ![o] = IhIdle]
      /\ ih \in [Slots -> IhSession] /\ tu \in [Slots -> TuSession]
  BY DEF Release, Inv, TypeOK
<1> HIDE DEF o, t
<1>3. MembersKept
  <2> SUFFICES ASSUME NEW p \in Slots, ih'[p].mid # None
               PROVE  ih'[p].mid = ih[p].mid /\ tu'[ih'[p].tu].owner = tu[ih[p].tu].owner
    BY DEF MembersKept
  <2>1. p # o /\ ih'[p] = ih[p]
    BY <1>1, <1>2 DEF IhIdle
  <2>2. ih[p].tu \in Slots /\ tu[ih[p].tu].parent = p
    BY <2>1, MembersOwned
  <2>3. ih[p].tu # t
    BY <1>1, <2>1, <2>2
  <2> QED
    BY <1>2, <2>1, <2>2, <2>3
<1> QED
  BY <1>2, <1>3, LeaveKeepsWorkers

LEMMA ReleaseOwners ==
  ASSUME Inv, OneOwner, NEW w \in Workers, NEW type \in {"TIMER_EVENT", "HTTP_RESPONSE"},
         Deliver(w, type), NEW cleared, Release(worker[w].ih, Target(w), cleared), Leave(w),
         UNCHANGED <<inbox, wire>>
  PROVE  OneOwner'
BY ReleasedOwners, FewerOwners

\* The event of a response timer that was stopped at once names its transaction.
LEMMA EndScenarioOwners ==
  ASSUME Inv, OneOwner, NEW w \in Workers, EndScenario(w)
  PROVE  OneOwner'
<1> DEFINE late == TimeoutMessage(Requested(w))
<1>1. /\ Deliver(w, "TIMER_EVENT") /\ Release(worker[w].ih, Target(w), {"TRIGGER_SCENARIO"})
      /\ inbox' \in {inbox, inbox \cup {late}}
      /\ Leave(w) /\ UNCHANGED wire
  BY DEF EndScenario, Triggered, Requested, MayHaveExpired
<1>2. late.mid = ih[worker[w].ih].mid /\ late.owner = tu[Target(w)].owner
  BY DEF TimeoutMessage, Requested
<1> HIDE DEF late
<1>3. worker[w].ih \in Slots /\ ih[worker[w].ih].mid # None
  BY <1>1, Delivered, Entered
<1>4. Carries(Unpacked(late.mid), late.owner)
  BY <1>2, <1>3 DEF Carries, Target
<1>5. MembersKept /\ WorkersKept /\ running' \subseteq running
  BY <1>1, ReleasedOwners
<1> QED
  BY <1>1, <1>4, <1>5, TakeoverOwners, FewerOwners

LEMMA LeaveOwners ==
  ASSUME Inv, OneOwner, NEW w \in Workers, Leave(w),
         UNCHANGED <<inbox, ih, tu, running, wire>>
  PROVE  OneOwner'
<1>1. MembersKept /\ WorkersKept
  BY LeaveKeepsWorkers DEF MembersKept
<1> QED
  BY <1>1, FewerOwners

\* The timer and the request carry the identifiers of the session they leave.
LEMMA SendRequestOwners ==
  ASSUME Inv, OneOwner, NEW w \in Workers, SendRequest(w)
  PROVE  OneOwner'
<1> DEFINE o == worker[w].ih
           t == Target(w)
           awaiting == Awaiting(tu[t])
           timer == [owner |-> tu[t].owner, type |-> "HTTP_RESPONSE_TIMEOUT",
                     sid |-> ih[o].sid, mid |-> ih[o].mid]
           request == [owner |-> tu[t].owner, sid |-> ih[o].sid, mid |-> ih[o].mid]
<1>1. /\ Deliver(w, "TIMER_EVENT")
      /\ tu' = [tu EXCEPT ![t] = awaiting]
      /\ running' \subseteq running \cup {timer}
      /\ wire' = wire \cup {request}
      /\ worker' = [worker EXCEPT ![w].pc = "sent"]
      /\ UNCHANGED <<inbox, ih>>
  BY DEF SendRequest, Triggered
<1>2. /\ o \in Slots /\ t \in Slots /\ ih[o].tu = t /\ ih[o].mid # None
  BY <1>1, Delivered, Entered DEF Target
<1>3. Carries(Unpacked(ih[o].mid), tu[t].owner)
  BY <1>2 DEF Carries
<1>4. awaiting.owner = tu[t].owner /\ tu \in [Slots -> TuSession]
  BY <1>2 DEF Inv, TypeOK, TuSession, Awaiting
<1>5. /\ timer.mid = ih[o].mid /\ timer.owner = tu[t].owner
      /\ request.mid = ih[o].mid /\ request.owner = tu[t].owner
  OBVIOUS
<1> HIDE DEF o, t, awaiting, timer, request
<1>6. \A u \in Slots : tu'[u].owner = tu[u].owner
  BY <1>1, <1>4
<1>7. \A p \in Slots : ih[p].mid # None => ih[p].tu \in Slots
  BY MembersOwned
<1>8. \A v \in Workers : Routed(v)' => Routed(v) /\ worker'[v] = worker[v]
  BY <1>1 DEF Inv, TypeOK, Routed
<1>9. ASSUME NEW j, NEW d, Carries(j, d)' PROVE Carries(j, d)
  <2>1. CASE \/ \E x \in running' : Unpacked(x.mid) = j /\ x.owner = d
             \/ \E x \in wire' : Unpacked(x.mid) = j /\ x.owner = d
    <3>1. \/ \E x \in running \cup wire : Unpacked(x.mid) = j /\ x.owner = d
          \/ j = Unpacked(ih[o].mid) /\ d = tu[t].owner
      BY <1>1, <1>5, <2>1
    <3> QED
      BY <1>3, <3>1 DEF Carries
  <2>2. CASE \E v \in Workers : /\ Routed(v)' /\ worker'[v].msg.mid # None
                                /\ Unpacked(worker'[v].msg.mid) = j /\ worker'[v].msg.owner = d
    BY <1>8, <2>2 DEF Carries
  <2>3. CASE \/ \E m \in inbox' : m.mid # None /\ Unpacked(m.mid) = j /\ m.owner = d
             \/ \E p \in Slots : /\ ih'[p].mid # None
                                 /\ Unpacked(ih'[p].mid) = j /\ tu'[ih'[p].tu].owner = d
    BY <1>1, <1>6, <1>7, <2>3 DEF Carries
  <2> QED
    BY <1>9, <2>1, <2>2, <2>3 DEF Carries
<1> QED
  BY <1>9, OwnersKept DEF NothingNew

LEMMA DeliveringOwners ==
  ASSUME Inv, OneOwner, NEW w \in Workers, Delivering(w)
  PROVE  OneOwner'
<1>1. CASE MemberNotFound(w) \/ TimeoutIgnored(w)
  BY <1>1, LeaveOwners DEF MemberNotFound, TimeoutIgnored
<1>2. CASE GiveUp(w)
  BY <1>2, ReleaseOwners DEF GiveUp
<1>3. CASE SendRequest(w)
  BY <1>3, SendRequestOwners
<1>4. CASE EndScenario(w)
  BY <1>4, EndScenarioOwners
<1>5. CASE ReceiveResponse(w)
  BY <1>5, ReleaseOwners DEF ReceiveResponse
<1> QED
  BY <1>1, <1>2, <1>3, <1>4, <1>5 DEF Delivering

-----------------------------------------------------------------------------
(* Every step. *)

LEMMA InitOwners == Init => OneOwner
BY DEF Init, OneOwner, Carries, Routed, WorkerIdle, IhIdle

LEMMA NextOwners ==
  ASSUME Inv, OneOwner, ~MidsReused, [Next]_vars
  PROVE  OneOwner'
<1>1. ASSUME NEW w \in Workers, Work(w) PROVE OneOwner'
  <2>1. CASE Routing(w)
    BY <2>1, RoutingOwners
  <2>2. CASE Opening(w)
    BY <2>2, ManagerFailsOwners, StartScenarioOwners, OpenAndReleaseOwners DEF Opening
  <2>3. CASE Delivering(w)
    BY <2>3, DeliveringOwners
  <2>4. CASE CountSent(w)
    BY <2>4, LeaveOwners DEF CountSent
  <2> QED
    BY <1>1, <2>1, <2>2, <2>3, <2>4 DEF Work
<1>2. CASE UNCHANGED vars
  BY <1>2, UnchangedKept, FewerOwners DEF vars
<1> QED
  BY <1>1, <1>2, SubmitOwners, ExpireOwners, WireOwners DEF Next, TimerThread

\* The member a message names and the transaction found under that name carry one
\* identifier, so they have one owner.
LEMMA OwnerAddresses == Inv /\ OneOwner => DeliveryAddressed
<1> SUFFICES ASSUME Inv, OneOwner, NEW w \in Workers, Routed(w), worker[w].msg.mid # None,
                    ih[worker[w].ih].mid = worker[w].msg.mid
             PROVE  tu[Target(w)].owner = worker[w].msg.owner
  BY DEF DeliveryAddressed
<1>1. worker[w].ih \in Slots
  BY DEF Inv, PoolInv, MessagesShaped, Routed
<1>2. /\ Carries(Unpacked(worker[w].msg.mid), worker[w].msg.owner)
      /\ Carries(Unpacked(worker[w].msg.mid), tu[Target(w)].owner)
  BY <1>1 DEF Carries, Target
<1> QED
  BY <1>2 DEF OneOwner

\* A message that passes Session::Find reaches the transaction it was meant for,
\* however many sessions came and went since it was sent and although a reply
\* brings back 16 bits of the identifier only, as long as the library hands out
\* no identifier equal in those bits to one that something still carries.
THEOREM Addressed == ~MidsReused => (Spec => []DeliveryAddressed)
<1> SUFFICES ASSUME ~MidsReused PROVE Spec => []DeliveryAddressed
  OBVIOUS
<1>1. Init => OneOwner
  BY InitOwners
<1>2. Inv /\ OneOwner /\ [Next]_vars => OneOwner'
  BY NextOwners
<1>3. Inv /\ OneOwner => DeliveryAddressed
  BY OwnerAddresses
<1> QED
  BY <1>1, <1>2, <1>3, Invariance, PTL DEF Spec

-----------------------------------------------------------------------------
(* The life of a session: which messages may still reach it, and what they   *)
(* find there.  The argument is about one set, Messages: what is queued, what  *)
(* a worker holds, and what the environment still owes (an unsent command, a   *)
(* running timer, an unanswered request).  Steps move messages from place to   *)
(* place and take them away; only StartScenario and SendRequest add any, and   *)
(* what they add carries the identifiers of a session that nothing else names. *)

\* What the environment may still deliver.
Due == {OpeningMessage(c) : c \in unsent}
       \cup {TimeoutMessage(x) : x \in running}
       \cup {ResponseMessage(x) : x \in wire}

Held == {worker[w].msg : w \in {v \in Workers : Routed(v)}}

Messages == Due \cup inbox \cup Held

\* No message is in two places.
Placed ==
    /\ Due \cap inbox = {}
    /\ \A w \in Workers : Routed(w) => worker[w].msg \notin Due \cup inbox
    /\ \A w, v \in Workers :
         Routed(w) /\ Routed(v) /\ worker[w].msg = worker[v].msg => w = v

SameKind(m, n) ==
    m.owner = n.owner /\ m.type = n.type /\ (m.type = "TIMER_EVENT" => m.timer = n.timer)

\* An owner has one opening message, one reply, and one timeout of each type.
OneOfEach == \A m, n \in Messages : SameKind(m, n) => m = n

\* While its opening message is on the way, an owner has nothing else.
OpeningsFirst ==
    \A m \in Messages : m.mid = None =>
        /\ m = OpeningMessage(m.owner)
        /\ \A n \in Messages : n.owner = m.owner => n = m
        /\ \A t \in Slots : Attached(t) => tu[t].owner # m.owner

OwnersDistinct ==
    /\ \A t \in Slots : Attached(t) => tu[t].owner \in Commands
    /\ \A t, u \in Slots :
         Attached(t) /\ Attached(u) /\ tu[t].owner = tu[u].owner => t = u

\* Whatever is on the way for a live transaction names its session, and a timeout
\* its member (of which a reply brings back what Unpacked leaves).
Bound ==
    \A t \in Slots : Attached(t) =>
        /\ \A m \in Messages : m.owner = tu[t].owner =>
             /\ m.sid = ih[tu[t].parent].sid
             /\ m.type = "TIMER_EVENT" => m.mid = ih[tu[t].parent].mid
        /\ \A w \in Workers : Routed(w) /\ worker[w].msg.owner = tu[t].owner =>
             worker[w].ih = tu[t].parent

\* Before its trigger a transaction has no request out and no timer for one.
NothingSent ==
    \A t \in Slots : Attached(t) /\ tu[t].step = "NONE" =>
        \A m \in Messages : m.owner = tu[t].owner =>
            m.type # "HTTP_RESPONSE" /\ m.timer # "HTTP_RESPONSE_TIMEOUT"

\* A session stays locked only while its request is being counted.
LockedSent == \A o \in Slots : lock[o] # None => tu[ih[o].tu].step # "NONE"

\* An owner has at most one request out.
OneRequest == \A x, y \in wire : x.owner = y.owner => x = y

LifeInv ==
    /\ Placed /\ OneOfEach /\ OpeningsFirst /\ OwnersDistinct /\ Bound /\ NothingSent
    /\ LockedSent /\ OneRequest

-----------------------------------------------------------------------------
(* The set of messages. *)

LEMMA DueTyped ==
  ASSUME Inv, NEW m \in Due
  PROVE  m \in Message /\ Shape(m)
<1>1. CASE \E c \in unsent : m = OpeningMessage(c)
  BY <1>1, OpeningMessageShaped DEF Inv, TypeOK
<1>2. CASE \E x \in running : m = TimeoutMessage(x)
  BY <1>2, TimeoutMessageShaped DEF Inv, TypeOK
<1>3. CASE \E x \in wire : m = ResponseMessage(x)
  BY <1>3, ResponseMessageShaped DEF Inv, TypeOK
<1> QED
  BY <1>1, <1>2, <1>3 DEF Due

LEMMA MessagesTyped ==
  ASSUME Inv, NEW m \in Messages
  PROVE  m \in Message /\ Shape(m)
<1>1. CASE m \in Due
  BY <1>1, DueTyped
<1>2. CASE m \in inbox
  BY <1>2, DequeuedShaped
<1>3. CASE m \in Held
  BY <1>3 DEF Held, Routed, Inv, PoolInv, MessagesShaped
<1> QED
  BY <1>1, <1>2, <1>3 DEF Messages

LEMMA HeldIn ==
  ASSUME NEW w \in Workers, Routed(w)
  PROVE  worker[w].msg \in Messages
BY DEF Messages, Held

LEMMA DueIn ==
  /\ \A c \in unsent : OpeningMessage(c) \in Due
  /\ \A x \in running : TimeoutMessage(x) \in Due
  /\ \A x \in wire : ResponseMessage(x) \in Due
  /\ Due \subseteq Messages
BY DEF Due, Messages

\* A message the environment delivers is no longer due.
LEMMA SubmitDue ==
  ASSUME Inv, NEW c \in Owners, Submit(c)
  PROVE  /\ OpeningMessage(c) \in Due
         /\ Due' = Due \ {OpeningMessage(c)}
<1>1. c \in unsent /\ unsent' = unsent \ {c} /\ running' = running /\ wire' = wire
  BY DEF Submit
<1>2. \A d \in unsent : OpeningMessage(d) = OpeningMessage(c) => d = c
  BY DEF OpeningMessage
<1>3. \A x \in running : TimeoutMessage(x) # OpeningMessage(c)
  BY DEF TimeoutMessage, OpeningMessage
<1>4. \A x \in wire : ResponseMessage(x) # OpeningMessage(c)
  BY DEF ResponseMessage, OpeningMessage
<1> QED
  BY <1>1, <1>2, <1>3, <1>4 DEF Due

LEMMA TimeoutDistinct ==
  ASSUME Inv, NEW x \in running, NEW y \in running, TimeoutMessage(x) = TimeoutMessage(y)
  PROVE  x = y
<1>1. x \in TimerRecord /\ y \in TimerRecord
  BY DEF Inv, TypeOK
<1>2. x.sid = y.sid /\ x.mid = y.mid /\ x.type = y.type /\ x.owner = y.owner
  BY DEF TimeoutMessage
<1> QED
  BY <1>1, <1>2 DEF TimerRecord

LEMMA ResponseDistinct ==
  ASSUME LifeInv, NEW x \in wire, NEW y \in wire, ResponseMessage(x) = ResponseMessage(y)
  PROVE  x = y
<1>1. x.owner = y.owner
  BY DEF ResponseMessage
<1> QED
  BY <1>1 DEF LifeInv, OneRequest

LEMMA ExpireDue ==
  ASSUME Inv, NEW x \in running, Expire(x)
  PROVE  /\ TimeoutMessage(x) \in Due
         /\ Due' = Due \ {TimeoutMessage(x)}
<1>1. unsent' = unsent /\ running' = running \ {x} /\ wire' = wire
  BY DEF Expire
<1>2. \A y \in running : TimeoutMessage(y) = TimeoutMessage(x) => y = x
  BY TimeoutDistinct
<1>3. \A c \in unsent : OpeningMessage(c) # TimeoutMessage(x)
  BY DEF TimeoutMessage, OpeningMessage
<1>4. \A y \in wire : ResponseMessage(y) # TimeoutMessage(x)
  BY DEF ResponseMessage, TimeoutMessage
<1> QED
  BY <1>1, <1>2, <1>3, <1>4 DEF Due

LEMMA WireDue ==
  ASSUME LifeInv, NEW x \in wire, Respond(x) \/ Lose(x)
  PROVE  /\ ResponseMessage(x) \in Due
         /\ Due' = Due \ {ResponseMessage(x)}
<1>1. unsent' = unsent /\ running' = running /\ wire' = wire \ {x}
  BY DEF Respond, Lose
<1>2. \A y \in wire : ResponseMessage(y) = ResponseMessage(x) => y = x
  BY ResponseDistinct
<1>3. \A c \in unsent : OpeningMessage(c) # ResponseMessage(x)
  BY DEF ResponseMessage, OpeningMessage
<1>4. \A y \in running : TimeoutMessage(y) # ResponseMessage(x)
  BY DEF ResponseMessage, TimeoutMessage
<1> QED
  BY <1>1, <1>2, <1>3, <1>4 DEF Due

-----------------------------------------------------------------------------
(* Steps that add no message. *)

\* Each transaction that is attached after the step was, to the same session.
TransactionsKept ==
    \A t \in Slots : Attached(t)' =>
        /\ Attached(t)
        /\ tu'[t].owner = tu[t].owner
        /\ tu'[t].parent = tu[t].parent
        /\ ih'[tu[t].parent] = ih[tu[t].parent]
        /\ tu'[t].step = "NONE" => tu[t].step = "NONE"

LEMMA FadingLife ==
  ASSUME Inv, LifeInv, TransactionsKept, Messages' \subseteq Messages, wire' \subseteq wire
  PROVE  /\ OneOfEach' /\ OpeningsFirst' /\ OwnersDistinct' /\ NothingSent' /\ OneRequest'
         /\ \A t \in Slots : Attached(t)' =>
              \A m \in Messages' : m.owner = tu'[t].owner =>
                /\ m.sid = ih'[tu'[t].parent].sid
                /\ m.type = "TIMER_EVENT" => m.mid = ih'[tu'[t].parent].mid
<1> USE DEF LifeInv, TransactionsKept
<1>1. OneOfEach'
  BY DEF OneOfEach
<1>2. OpeningsFirst'
  <2>1. \A m \in Messages' : m.mid = None =>
          /\ m = OpeningMessage(m.owner)
          /\ \A n \in Messages' : n.owner = m.owner => n = m
          /\ \A t \in Slots : Attached(t)' => tu'[t].owner # m.owner
    BY DEF OpeningsFirst
  <2> QED
    BY <2>1 DEF OpeningsFirst, OpeningMessage
<1>3. OwnersDistinct'
  BY DEF OwnersDistinct
<1>4. NothingSent'
  BY DEF NothingSent
<1>5. OneRequest'
  BY DEF OneRequest
<1> QED
  BY <1>1, <1>2, <1>3, <1>4, <1>5 DEF Bound

\* The environment delivers a message, or loses it.
LEMMA EnvironmentLife ==
  ASSUME Inv, LifeInv, NEW m \in Due, Due' = Due \ {m}, inbox' \in {inbox, inbox \cup {m}},
         UNCHANGED <<worker, ih, lock, tu>>, wire' \subseteq wire
  PROVE  LifeInv'
<1>1. Messages' \subseteq Messages /\ Held' = Held
  BY DEF Messages, Held, Routed
<1>2. TransactionsKept
  BY DEF TransactionsKept, Attached
<1>3. Placed'
  BY DEF LifeInv, Placed, Routed
<1>4. LockedSent'
  BY DEF LifeInv, LockedSent
<1>5. \A t \in Slots : Attached(t)' =>
        \A w \in Workers : Routed(w)' /\ worker'[w].msg.owner = tu'[t].owner =>
             worker'[w].ih = tu'[t].parent
  BY DEF LifeInv, Bound, Routed, Attached
<1> QED
  BY <1>1, <1>2, <1>3, <1>4, <1>5, FadingLife DEF LifeInv, Bound

-----------------------------------------------------------------------------
(* The hub: a message goes from the queue to a worker, or is discarded. *)

WorkerTyped(f) ==
    f \in [Workers -> [pc : {"idle", "routed", "sent"},
                       msg : Message \cup {None}, ih : Slots \cup {None}]]

LEMMA DueFrame ==
  ASSUME UNCHANGED <<unsent, running, wire>>
  PROVE  Due' = Due
BY DEF Due

LEMMA PickMessages ==
  ASSUME Inv, NEW w \in Workers, NEW m \in inbox, NEW o \in Slots,
         worker[w].pc = "idle", inbox' = inbox \ {m}, Route(w, m, o), Due' = Due
  PROVE  /\ \A v \in Workers : Routed(v)' <=> Routed(v) \/ v = w
         /\ \A v \in Workers : v # w => worker'[v] = worker[v]
         /\ worker'[w].msg = m /\ worker'[w].ih = o
         /\ ~Routed(w)
         /\ Messages' = Messages
<1>1. WorkerTyped(worker) /\ worker' = [worker EXCEPT ![w] = [pc |-> "routed", msg |-> m, ih |-> o]]
  BY DEF Inv, TypeOK, WorkerTyped, Route
<1>2. /\ \A v \in Workers : Routed(v)' <=> Routed(v) \/ v = w
      /\ \A v \in Workers : v # w => worker'[v] = worker[v]
      /\ worker'[w].msg = m /\ worker'[w].ih = o
      /\ ~Routed(w)
  BY <1>1 DEF Routed, WorkerTyped
<1>3. Held' = Held \cup {m}
  BY <1>2 DEF Held
<1> QED
  BY <1>2, <1>3 DEF Messages

LEMMA PickLife ==
  ASSUME Inv, LifeInv, NEW w \in Workers, NEW m \in inbox, NEW o \in Slots,
         worker[w].pc = "idle", inbox' = inbox \ {m}, Route(w, m, o),
         UNCHANGED <<unsent, running, wire, tu, lock>>,
         \A p \in Slots : ih'[p].tu = ih[p].tu,
         TransactionsKept,
         \A t \in Slots : Attached(t) /\ tu[t].owner = m.owner => tu[t].parent = o
  PROVE  LifeInv'
<1>1. Due' = Due
  BY DueFrame
<1>2. /\ \A v \in Workers : Routed(v)' <=> Routed(v) \/ v = w
      /\ \A v \in Workers : v # w => worker'[v] = worker[v]
      /\ worker'[w].msg = m /\ worker'[w].ih = o
      /\ ~Routed(w)
      /\ Messages' = Messages
  BY <1>1, PickMessages
<1>3. Placed'
  <2>1. Due' \cap inbox' = {}
    BY <1>1 DEF LifeInv, Placed
  <2>2. \A v \in Workers : Routed(v)' => worker'[v].msg \notin Due' \cup inbox'
    BY <1>1, <1>2 DEF LifeInv, Placed
  <2>3. \A u, v \in Workers :
          Routed(u)' /\ Routed(v)' /\ worker'[u].msg = worker'[v].msg => u = v
    BY <1>2 DEF LifeInv, Placed
  <2> QED
    BY <2>1, <2>2, <2>3 DEF Placed
<1>4. LockedSent'
  BY DEF LifeInv, LockedSent
<1>5. \A t \in Slots : Attached(t)' =>
        \A v \in Workers : Routed(v)' /\ worker'[v].msg.owner = tu'[t].owner =>
             worker'[v].ih = tu'[t].parent
  BY <1>2 DEF LifeInv, Bound, Attached
<1> QED
  BY <1>2, <1>3, <1>4, <1>5, FadingLife DEF LifeInv, Bound

\* The session found is the one the message's owner is attached to, if it is.
LEMMA FindLife ==
  ASSUME Inv, LifeInv, NEW w \in Workers, NEW m \in inbox, NEW o \in Slots, Find(w, m, o)
  PROVE  LifeInv' /\ Messages' = Messages
<1>1. /\ worker[w].pc = "idle" /\ inbox' = inbox \ {m} /\ Route(w, m, o)
      /\ m.sid # None /\ ih[o].sid = m.sid
      /\ UNCHANGED <<unsent, ih, lock, tu, running, wire, answers, stat>>
  BY DEF Find, Dequeue
<1>2. TransactionsKept
  BY <1>1 DEF TransactionsKept, Attached
<1>3. \A t \in Slots : Attached(t) /\ tu[t].owner = m.owner => tu[t].parent = o
  <2> SUFFICES ASSUME NEW t \in Slots, Attached(t), tu[t].owner = m.owner
               PROVE  tu[t].parent = o
    OBVIOUS
  <2>1. ih[tu[t].parent].sid = m.sid
    BY DEF LifeInv, Bound, Messages
  <2>2. tu[t].parent \in Slots
    BY DEF Inv, TypeOK, TuSession, Attached
  <2> QED
    BY <1>1, <2>1, <2>2 DEF Inv, PoolInv, PoolConservation
<1>4. Messages' = Messages
  BY <1>1, DueFrame, PickMessages
<1> QED
  BY <1>1, <1>2, <1>3, <1>4, PickLife

LEMMA ObtainLife ==
  ASSUME Inv, LifeInv, NEW w \in Workers, NEW m \in inbox, NEW o \in Slots, NEW s \in Sids,
         Obtain(w, m, o, s)
  PROVE  LifeInv' /\ Messages' = Messages
<1>1. /\ worker[w].pc = "idle" /\ inbox' = inbox \ {m} /\ Route(w, m, o)
      /\ m.sid = None /\ ih[o].sid = None
      /\ ih' = [ih EXCEPT ![o].sid = s]
      /\ UNCHANGED <<unsent, lock, tu, running, wire, answers, stat>>
  BY DEF Obtain, Dequeue
<1>2. ih \in [Slots -> IhSession] /\ \A p \in Slots : ih'[p].tu = ih[p].tu
  BY <1>1 DEF Inv, TypeOK, IhSession
<1>3. TransactionsKept
  <2> SUFFICES ASSUME NEW t \in Slots, Attached(t)
               PROVE  ih'[tu[t].parent] = ih[tu[t].parent]
    BY <1>1 DEF TransactionsKept, Attached
  <2>1. tu[t].parent \in Slots /\ ih[tu[t].parent].tu = t
    BY DEF Inv, PoolInv, PoolConservation, TypeOK, TuSession, Attached
  <2>2. tu[t].parent # o
    BY <1>1, <2>1, NoneAssumption DEF Inv, PoolInv, MembersShaped
  <2> QED
    BY <1>1, <1>2, <2>1, <2>2
<1>4. m.mid = None
  BY <1>1, DequeuedShaped DEF Shape
<1>5. \A t \in Slots : Attached(t) => tu[t].owner # m.owner
  BY <1>4 DEF LifeInv, OpeningsFirst, Messages
<1>6. Messages' = Messages
  BY <1>1, DueFrame, PickMessages
<1> QED
  BY <1>1, <1>2, <1>3, <1>5, <1>6, PickLife

\* The hub discards a message: it is gone.
LEMMA DropLife ==
  ASSUME Inv, LifeInv, NEW w \in Workers, NEW m \in inbox, FindFails(w, m) \/ ObtainFails(w, m)
  PROVE  LifeInv' /\ Messages' = Messages \ {m}
<1>1. /\ inbox' = inbox \ {m}
      /\ UNCHANGED <<unsent, worker, ih, lock, tu, running, wire, stat>>
  BY DEF FindFails, ObtainFails, Dequeue
<1>2. Due' = Due /\ Held' = Held
  BY <1>1, DueFrame DEF Held, Routed
<1>3. m \notin Due /\ m \notin Held
  BY DEF LifeInv, Placed, Held
<1>4. Messages' = Messages \ {m}
  BY <1>1, <1>2, <1>3 DEF Messages
<1>5. TransactionsKept
  BY <1>1 DEF TransactionsKept, Attached
<1>6. Placed'
  BY <1>1, <1>2 DEF LifeInv, Placed, Routed
<1>7. LockedSent'
  BY <1>1 DEF LifeInv, LockedSent
<1>8. \A t \in Slots : Attached(t)' =>
        \A v \in Workers : Routed(v)' /\ worker'[v].msg.owner = tu'[t].owner =>
             worker'[v].ih = tu'[t].parent
  BY <1>1 DEF LifeInv, Bound, Routed, Attached
<1> QED
  BY <1>1, <1>4, <1>5, <1>6, <1>7, <1>8, FadingLife DEF LifeInv, Bound

-----------------------------------------------------------------------------
(* Handlers.  What a step leaves of the sessions other threads have locked. *)

LockedKept ==
    \A p \in Slots : lock[p] # None /\ lock'[p] = lock[p] =>
        ih'[p] = ih[p] /\ tu'[ih[p].tu] = tu[ih[p].tu]

\* A locked session has an attached transaction.
LEMMA LockedAttached ==
  ASSUME Inv, NEW p \in Slots, lock[p] # None
  PROVE  ih[p].tu \in Slots /\ tu[ih[p].tu].parent = p /\ tu[ih[p].tu].owner # None
<1>1. ih[p].tu \in Slots
  BY DEF Inv, PoolInv, LocksHeld, TypeOK, IhSession
<1>2. tu[ih[p].tu].parent = p
  BY <1>1, NoneAssumption DEF Inv, PoolInv, PoolConservation
<1>3. tu[ih[p].tu].owner # None
  BY <1>1, <1>2, NoneAssumption DEF Inv, PoolInv, MembersShaped, Attached
<1> QED
  BY <1>1, <1>2, <1>3

LEMMA AttachedTyped ==
  ASSUME Inv, NEW t \in Slots, Attached(t)
  PROVE  /\ tu[t].parent \in Slots /\ ih[tu[t].parent].tu = t /\ tu[t].owner # None
         /\ ih[tu[t].parent].mid \in Mids /\ ih[tu[t].parent].sid \in Sids
<1>1. tu[t].parent \in Slots /\ ih[tu[t].parent].tu = t /\ tu[t].owner # None
  BY DEF Inv, PoolInv, PoolConservation, MembersShaped, TypeOK, TuSession, Attached
<1>2. ih[tu[t].parent].mid # None
  BY <1>1, NoneAssumption DEF Inv, PoolInv, MembersShaped
<1>3. ih[tu[t].parent].sid # None
  BY <1>1, <1>2 DEF Inv, PoolInv, MembersShaped
<1> QED
  BY <1>1, <1>2, <1>3 DEF Inv, TypeOK, IhSession

LEMMA LockedSentKept ==
  ASSUME LockedSent, LockedKept, UNCHANGED lock
  PROVE  LockedSent'
BY DEF LockedSent, LockedKept

LEMMA LeaveMessages ==
  ASSUME Inv, Placed, NEW w \in Workers, Routed(w), Leave(w), UNCHANGED inbox, Due' \subseteq Due
  PROVE  /\ \A v \in Workers : Routed(v)' <=> Routed(v) /\ v # w
         /\ \A v \in Workers : v # w => worker'[v] = worker[v]
         /\ Held' = Held \ {worker[w].msg}
         /\ worker[w].msg \notin Messages'
         /\ Messages' \subseteq Messages
         /\ Due' = Due => Messages' = Messages \ {worker[w].msg}
<1>1. WorkerTyped(worker) /\ worker' = [worker EXCEPT ![w] = WorkerIdle]
  BY DEF Inv, TypeOK, WorkerTyped, Leave
<1>2. /\ \A v \in Workers : Routed(v)' <=> Routed(v) /\ v # w
      /\ \A v \in Workers : v # w => worker'[v] = worker[v]
  BY <1>1 DEF Routed, WorkerTyped, WorkerIdle
<1>3. Held' = Held \ {worker[w].msg}
  <2>1. \A v \in Workers : Routed(v) /\ v # w => worker[v].msg # worker[w].msg
    BY DEF Placed
  <2> QED
    BY <1>2, <2>1 DEF Held
<1>4. worker[w].msg \notin Due /\ worker[w].msg \notin inbox
  BY DEF Placed
<1> QED
  BY <1>2, <1>3, <1>4 DEF Messages

LEMMA LeaveLife ==
  ASSUME Inv, LifeInv, NEW w \in Workers, Routed(w), Leave(w),
         UNCHANGED <<inbox, lock>>, Due' \subseteq Due, wire' \subseteq wire,
         TransactionsKept, LockedKept
  PROVE  LifeInv'
<1>1. /\ \A v \in Workers : Routed(v)' <=> Routed(v) /\ v # w
      /\ \A v \in Workers : v # w => worker'[v] = worker[v]
      /\ Messages' \subseteq Messages
  BY LeaveMessages DEF LifeInv
<1>2. Placed'
  <2>1. Due' \cap inbox' = {}
    BY DEF LifeInv, Placed
  <2>2. \A v \in Workers : Routed(v)' => worker'[v].msg \notin Due' \cup inbox'
    BY <1>1 DEF LifeInv, Placed
  <2>3. \A u, v \in Workers :
          Routed(u)' /\ Routed(v)' /\ worker'[u].msg = worker'[v].msg => u = v
    BY <1>1 DEF LifeInv, Placed
  <2> QED
    BY <2>1, <2>2, <2>3 DEF Placed
<1>3. LockedSent'
  BY LockedSentKept DEF LifeInv
<1>4. \A t \in Slots : Attached(t)' =>
        \A v \in Workers : Routed(v)' /\ worker'[v].msg.owner = tu'[t].owner =>
             worker'[v].ih = tu'[t].parent
  BY <1>1 DEF LifeInv, Bound, TransactionsKept
<1> QED
  BY <1>1, <1>2, <1>3, <1>4, FadingLife DEF LifeInv, Bound

\* The messages "gone" go; nothing new is on the way but timeouts.
LeavesTimeouts(gone) ==
    \E late : /\ \A n \in late : n.type = "TIMER_EVENT"
             /\ Messages' = (Messages \ gone) \cup late

\* A timeout of a transaction that is no more: it is the first of its kind.
LateTimeout(w, late) ==
    /\ late.type = "TIMER_EVENT" /\ late.mid # None
    /\ \A n \in Messages \ {worker[w].msg} : ~SameKind(n, late)
    /\ \A n \in Messages \ {worker[w].msg} : n.owner = late.owner => n.mid # None
    /\ \A t \in Slots : Attached(t)' => tu'[t].owner # late.owner

LEMMA LateLife ==
  ASSUME Inv, LifeInv, NEW w \in Workers, Routed(w), Leave(w), NEW late, LateTimeout(w, late),
         inbox' = inbox \cup {late}, UNCHANGED lock, Due' \subseteq Due, wire' \subseteq wire,
         TransactionsKept, LockedKept
  PROVE  /\ LifeInv'
         /\ Messages' \subseteq (Messages \ {worker[w].msg}) \cup {late}
         /\ Messages' = Due' \cup (inbox \cup {late}) \cup (Held \ {worker[w].msg})
<1> DEFINE old == Messages \ {worker[w].msg}
<1>1. WorkerTyped(worker) /\ worker' = [worker EXCEPT ![w] = WorkerIdle]
  BY DEF Inv, TypeOK, WorkerTyped, Leave
<1>2. /\ \A v \in Workers : Routed(v)' <=> Routed(v) /\ v # w
      /\ \A v \in Workers : v # w => worker'[v] = worker[v]
  BY <1>1 DEF Routed, WorkerTyped, WorkerIdle
<1>3. /\ \A v \in Workers : Routed(v) /\ v # w => worker[v].msg # worker[w].msg
      /\ worker[w].msg \notin Due /\ worker[w].msg \notin inbox
  BY DEF LifeInv, Placed
<1>4. Held' = Held \ {worker[w].msg}
  BY <1>2, <1>3 DEF Held
<1>5. Due' \subseteq old /\ inbox \subseteq old /\ Held' \subseteq old
  BY <1>3, <1>4 DEF Messages
<1>6. Messages' = Due' \cup (inbox \cup {late}) \cup (Held \ {worker[w].msg})
  BY <1>4 DEF Messages
<1>7. Messages' \subseteq old \cup {late}
  BY <1>5, <1>6, <1>4
<1>8. late \notin old /\ old \subseteq Messages
  BY DEF LateTimeout, SameKind
<1> HIDE DEF old
<1>9. Placed'
  <2>1. Due' \cap inbox' = {}
    BY <1>5, <1>8 DEF LifeInv, Placed
  <2>2. \A v \in Workers : Routed(v)' => worker'[v].msg \in Held'
    BY DEF Held
  <2>3. \A v \in Workers : Routed(v)' => worker'[v].msg \notin Due' \cup inbox'
    BY <1>2, <1>5, <1>8, <2>2 DEF LifeInv, Placed
  <2>4. \A u, v \in Workers :
          Routed(u)' /\ Routed(v)' /\ worker'[u].msg = worker'[v].msg => u = v
    BY <1>2 DEF LifeInv, Placed
  <2> QED
    BY <2>1, <2>3, <2>4 DEF Placed
<1>10. OneOfEach'
  <2> SUFFICES ASSUME NEW n \in old \cup {late}, NEW l \in old \cup {late}, SameKind(n, l)
               PROVE  n = l
    BY <1>7 DEF OneOfEach
  <2>1. SameKind(l, n)
    BY DEF SameKind
  <2>2. CASE n \in old /\ l \in old
    BY <1>8, <2>2 DEF LifeInv, OneOfEach
  <2> QED
    BY <2>1, <2>2 DEF LateTimeout, old
<1>11. OpeningsFirst'
  <2> SUFFICES ASSUME NEW m \in old \cup {late}, m.mid = None
               PROVE  /\ m = OpeningMessage(m.owner)
                      /\ \A n \in old \cup {late} : n.owner = m.owner => n = m
                      /\ \A u \in Slots : Attached(u)' => tu'[u].owner # m.owner
    <3>1. \A m \in Messages' : m.mid = None =>
          /\ m = OpeningMessage(m.owner)
          /\ \A n \in Messages' : n.owner = m.owner => n = m
          /\ \A u \in Slots : Attached(u)' => tu'[u].owner # m.owner
      BY <1>7
    <3> QED
      BY <3>1 DEF OpeningsFirst, OpeningMessage
  <2>1. m \in old /\ m \in Messages /\ m.owner # late.owner
    BY <1>8 DEF LateTimeout, old
  <2>2. /\ m = OpeningMessage(m.owner)
        /\ \A n \in Messages : n.owner = m.owner => n = m
        /\ \A u \in Slots : Attached(u) => tu[u].owner # m.owner
    BY <2>1 DEF LifeInv, OpeningsFirst
  <2> QED
    BY <1>8, <2>1, <2>2 DEF TransactionsKept
<1>12. OwnersDistinct'
  BY DEF LifeInv, OwnersDistinct, TransactionsKept
<1>13. \A t \in Slots : Attached(t)' =>
         \A n \in Messages' : n.owner = tu'[t].owner => n \in Messages
  BY <1>7, <1>8 DEF LateTimeout
<1>14. Bound'
  <2> SUFFICES ASSUME NEW t \in Slots, Attached(t)'
               PROVE  /\ \A n \in Messages' : n.owner = tu'[t].owner =>
                           /\ n.sid = ih'[tu'[t].parent].sid
                           /\ n.type = "TIMER_EVENT" => n.mid = ih'[tu'[t].parent].mid
                      /\ \A v \in Workers : Routed(v)' /\ worker'[v].msg.owner = tu'[t].owner =>
                           worker'[v].ih = tu'[t].parent
    BY DEF Bound
  <2> QED
    BY <1>2, <1>13 DEF LifeInv, Bound, TransactionsKept
<1>15. NothingSent'
  <2> SUFFICES ASSUME NEW t \in Slots, Attached(t)', tu'[t].step = "NONE",
                      NEW n \in Messages', n.owner = tu'[t].owner
               PROVE  n.type # "HTTP_RESPONSE" /\ n.timer # "HTTP_RESPONSE_TIMEOUT"
    BY DEF NothingSent
  <2> QED
    BY <1>13 DEF LifeInv, NothingSent, TransactionsKept
<1>16. LockedSent'
  BY LockedSentKept DEF LifeInv
<1>17. OneRequest'
  BY DEF LifeInv, OneRequest
<1> QED
  BY <1>6, <1>7, <1>9, <1>10, <1>11, <1>12, <1>14, <1>15, <1>16, <1>17 DEF LifeInv, old

\* The worker drops its message.
LEMMA IgnoreLife ==
  ASSUME Inv, LifeInv, NEW w \in Workers, MemberNotFound(w) \/ TimeoutIgnored(w)
  PROVE  LifeInv' /\ Messages' = Messages \ {worker[w].msg} /\ TransactionsKept /\ LockedKept
<1>1. /\ Routed(w) /\ Leave(w)
      /\ UNCHANGED <<unsent, inbox, ih, lock, tu, running, wire>>
  BY DEF MemberNotFound, TimeoutIgnored, Deliver, Enter, Routed
<1>2. Due' = Due
  BY <1>1, DueFrame
<1>3. TransactionsKept /\ LockedKept
  BY <1>1 DEF TransactionsKept, LockedKept, Attached
<1>4. Messages' = Messages \ {worker[w].msg}
  BY <1>1, <1>2, LeaveMessages DEF LifeInv
<1> QED
  BY <1>1, <1>2, <1>3, <1>4, LeaveLife

\* The timers a release stops.
Stopped(t, cleared) ==
    {x \in running : x.owner = tu[t].owner /\ x.type \in tu[t].armed \ cleared}

LEMMA ReleaseKeeps ==
  ASSUME Inv, NEW w \in Workers, NEW type \in {"TIMER_EVENT", "HTTP_RESPONSE"},
         Deliver(w, type), NEW cleared, Release(worker[w].ih, Target(w), cleared),
         UNCHANGED <<unsent, wire, lock>>
  PROVE  /\ TransactionsKept /\ LockedKept
         /\ tu'[Target(w)] = TuIdle
         /\ \A t \in Slots : t # Target(w) => tu'[t] = tu[t]
         /\ Due' = Due \ {TimeoutMessage(x) : x \in Stopped(Target(w), cleared)}
<1> DEFINE o == worker[w].ih
           u == Target(w)
<1>1. o \in Slots /\ lock[o] = None /\ u \in Slots /\ ih[o].tu = u /\ tu[u].parent = o
  BY Delivered, Entered DEF Target
<1>2. /\ running' = running \ Stopped(u, cleared)
      /\ tu' = [tu EXCEPT ![u] = TuIdle]
      /\ ih' = [ih EXCEPT ![o] = IhIdle]
      /\ ih \in [Slots -> IhSession] /\ tu \in [Slots -> TuSession]
  BY DEF Release, Stopped, Inv, TypeOK
<1> HIDE DEF o, u
<1>3. /\ \A t \in Slots : t # u => tu'[t] = tu[t]
      /\ \A p \in Slots : p # o => ih'[p] = ih[p]
      /\ tu'[u] = TuIdle
  BY <1>1, <1>2
<1>4. \A t \in Slots : Attached(t)' => t # u
  BY <1>3 DEF Attached, TuIdle
<1>5. TransactionsKept
  <2> SUFFICES ASSUME NEW t \in Slots, Attached(t)'
               PROVE  Attached(t) /\ tu'[t] = tu[t] /\ ih'[tu[t].parent] = ih[tu[t].parent]
    BY DEF TransactionsKept
  <2>1. t # u /\ tu'[t] = tu[t] /\ Attached(t)
    BY <1>3, <1>4 DEF Attached
  <2>2. tu[t].parent \in Slots /\ tu[t].parent # o
    BY <1>1, <2>1, AttachedTyped
  <2> QED
    BY <1>3, <2>1, <2>2
<1>6. LockedKept
  <2> SUFFICES ASSUME NEW p \in Slots, lock[p] # None
               PROVE  ih'[p] = ih[p] /\ tu'[ih[p].tu] = tu[ih[p].tu]
    BY DEF LockedKept
  <2>1. p # o
    BY <1>1
  <2>2. ih[p].tu \in Slots /\ ih[p].tu # u
    BY <1>1, <2>1, LockedAttached
  <2> QED
    BY <1>3, <2>1, <2>2
<1>7. Due' = Due \ {TimeoutMessage(x) : x \in Stopped(u, cleared)}
  <2>1. \A x \in running : TimeoutMessage(x) \in {TimeoutMessage(y) : y \in Stopped(u, cleared)}
                           => x \in Stopped(u, cleared)
    BY TimeoutDistinct DEF Stopped
  <2>2. \A c \in unsent : OpeningMessage(c) \notin {TimeoutMessage(y) : y \in Stopped(u, cleared)}
    BY DEF OpeningMessage, TimeoutMessage
  <2>3. \A x \in wire : ResponseMessage(x) \notin {TimeoutMessage(y) : y \in Stopped(u, cleared)}
    BY DEF ResponseMessage, TimeoutMessage
  <2> QED
    BY <1>2, <2>1, <2>2, <2>3 DEF Due
<1> QED
  BY <1>3, <1>5, <1>6, <1>7 DEF u

LEMMA ReleaseLife ==
  ASSUME Inv, LifeInv, NEW w \in Workers, NEW type \in {"TIMER_EVENT", "HTTP_RESPONSE"},
         Deliver(w, type), NEW cleared, Release(worker[w].ih, Target(w), cleared), Leave(w),
         UNCHANGED <<unsent, inbox, wire, lock>>
  PROVE  LifeInv'
<1>1. Routed(w)
  BY Delivered, Entered
<1>2. TransactionsKept /\ LockedKept /\ Due' \subseteq Due
  BY ReleaseKeeps
<1> QED
  BY <1>1, <1>2, LeaveLife

\* EndScenario releases; a response timer it had started may have expired.
LEMMA EndScenarioStep ==
  ASSUME NEW w \in Workers, EndScenario(w)
  PROVE  /\ Deliver(w, "TIMER_EVENT") /\ worker[w].msg.timer = "TRIGGER_SCENARIO"
         /\ Release(worker[w].ih, Target(w), {"TRIGGER_SCENARIO"}) /\ Leave(w)
         /\ UNCHANGED <<unsent, wire, lock, answers, stat>>
         /\ \/ UNCHANGED inbox
            \/ /\ tu[Target(w)].step = "NONE"
               /\ inbox' = inbox \cup {TimeoutMessage(Requested(w))}
<1>1. NextStep(tu[Target(w)].step) = "S1_SEND_REQUEST" => tu[Target(w)].step = "NONE"
  BY DEF NextStep
<1> QED
  BY <1>1 DEF EndScenario, Triggered, MayHaveExpired, Requested

LEMMA LateReleaseLife ==
  ASSUME Inv, LifeInv, NEW w \in Workers, Deliver(w, "TIMER_EVENT"), NEW cleared,
         Release(worker[w].ih, Target(w), cleared), Leave(w),
         UNCHANGED <<unsent, wire, lock>>, tu[Target(w)].step = "NONE",
         inbox' = inbox \cup {TimeoutMessage(Requested(w))}
  PROVE  /\ LifeInv'
         /\ Messages' \subseteq (Messages \ {worker[w].msg}) \cup {TimeoutMessage(Requested(w))}
         /\ Messages' = Due' \cup (inbox \cup {TimeoutMessage(Requested(w))})
                         \cup (Held \ {worker[w].msg})
<1> DEFINE late == TimeoutMessage(Requested(w))
           u == Target(w)
           c == tu[u].owner
<1>1. /\ Routed(w) /\ u \in Slots /\ tu[u].parent \in Slots
  BY Delivered, Entered DEF Target
<1>2. Attached(u)
  BY <1>1, NoneAssumption DEF Attached
<1>3. /\ TransactionsKept /\ LockedKept /\ Due' \subseteq Due
      /\ tu'[u] = TuIdle
  BY ReleaseKeeps
<1>4. late.type = "TIMER_EVENT" /\ late.owner = c /\ late.timer = "HTTP_RESPONSE_TIMEOUT"
      /\ late.mid = ih[worker[w].ih].mid
  BY DEF TimeoutMessage, Requested
<1>5. late.mid # None
  BY <1>4, Delivered
<1>6. \A n \in Messages : n.owner = c => n.timer # "HTTP_RESPONSE_TIMEOUT" /\ n.mid # None
  BY <1>1, <1>2 DEF LifeInv, NothingSent, OpeningsFirst
<1>7. \A t \in Slots : Attached(t)' => tu'[t].owner # c
  <2> SUFFICES ASSUME NEW t \in Slots, Attached(t)' PROVE tu'[t].owner # c
    OBVIOUS
  <2>1. t # u
    BY <1>3 DEF Attached, TuIdle
  <2> QED
    BY <1>1, <1>2, <1>3, <2>1 DEF TransactionsKept, LifeInv, OwnersDistinct
<1> HIDE DEF late, c, u
<1>8. LateTimeout(w, late)
  BY <1>4, <1>5, <1>6, <1>7 DEF LateTimeout, SameKind
<1> QED
  BY <1>1, <1>3, <1>8, LateLife DEF late

\* A session that is returned had no member; a transaction that is taken, no session.
LEMMA ReturnKeeps ==
  ASSUME Inv, NEW w \in Workers, Enter(w), worker[w].msg.mid = None, Returned(w),
         \/ UNCHANGED tu
         \/ \E t \in FreeTus : tu' = [tu EXCEPT ![t].owner = worker[w].msg.owner],
         UNCHANGED <<unsent, running, wire, lock>>
  PROVE  /\ TransactionsKept /\ LockedKept /\ Due' = Due
         /\ \A t \in Slots : Attached(t) => tu'[t] = tu[t]
<1> DEFINE o == worker[w].ih
<1>1. /\ o \in Slots /\ lock[o] = None
      /\ \A t \in Slots : Attached(t) => tu[t].parent # o
  BY Entered, OpenerEntered
<1>2. /\ ih' = [ih EXCEPT ![o] = IhIdle]
      /\ ih \in [Slots -> IhSession] /\ tu \in [Slots -> TuSession]
  BY DEF Returned, Inv, TypeOK
<1> HIDE DEF o
<1>3. \A p \in Slots : p # o => ih'[p] = ih[p]
  BY <1>1, <1>2
<1>4. \A t \in Slots : tu[t].owner # None => tu'[t] = tu[t]
  BY <1>2 DEF FreeTus
<1>5. \A t \in Slots : tu'[t].parent = tu[t].parent
  BY <1>2 DEF FreeTus, TuSession
<1>6. \A t \in Slots : Attached(t)' =>
          Attached(t) /\ tu'[t] = tu[t] /\ ih'[tu[t].parent] = ih[tu[t].parent]
  <2> SUFFICES ASSUME NEW t \in Slots, Attached(t)'
               PROVE  Attached(t) /\ tu'[t] = tu[t] /\ ih'[tu[t].parent] = ih[tu[t].parent]
    OBVIOUS
  <2>1. Attached(t)
    BY <1>5 DEF Attached
  <2>2. tu[t].owner # None /\ tu[t].parent \in Slots /\ tu[t].parent # o
    BY <1>1, <2>1, AttachedTyped
  <2> QED
    BY <1>3, <1>4, <2>1, <2>2
<1>7. LockedKept
  <2> SUFFICES ASSUME NEW p \in Slots, lock[p] # None
               PROVE  ih'[p] = ih[p] /\ tu'[ih[p].tu] = tu[ih[p].tu]
    BY DEF LockedKept
  <2>1. p # o
    BY <1>1
  <2> QED
    BY <1>3, <1>4, <2>1, LockedAttached
<1>8. \A t \in Slots : Attached(t) => tu'[t] = tu[t]
  BY <1>4, AttachedTyped
<1>9. Due' = Due
  BY DueFrame
<1> QED
  BY <1>6, <1>7, <1>8, <1>9 DEF TransactionsKept

\* The inactivity timeout a session may leave that is opened and released at once.
LateOpening(w, k) == TimeoutMessage(Opened(w, k))

\* ManagerFails and OpenAndRelease, as far as messages and sessions go.
LEMMA UnopenedStep ==
  ASSUME Inv, NEW w \in Workers,
         ManagerFails(w) \/ \E t \in Slots, k \in Mids : OpenAndRelease(w, t, k)
  PROVE  /\ Enter(w) /\ Routed(w) /\ worker[w].msg.mid = None /\ Returned(w) /\ Leave(w)
         /\ UNCHANGED <<unsent, lock, running, wire, stat>>
         /\ inbox' = inbox \/ \E k \in Mids : inbox' = inbox \cup {LateOpening(w, k)}
         /\ TransactionsKept /\ LockedKept /\ Due' = Due
         /\ \A t \in Slots : Attached(t) => tu'[t] = tu[t]
<1>1. /\ Enter(w) /\ worker[w].msg.mid = None /\ Returned(w) /\ Leave(w)
      /\ UNCHANGED <<unsent, lock, running, wire, stat>>
      /\ \/ UNCHANGED tu
         \/ \E t \in FreeTus : tu' = [tu EXCEPT ![t].owner = worker[w].msg.owner]
  BY DEF ManagerFails, OpenAndRelease, Returned
<1>2. inbox' = inbox \/ \E k \in Mids : inbox' = inbox \cup {LateOpening(w, k)}
  BY DEF ManagerFails, OpenAndRelease, MayHaveExpired, Opened, LateOpening
<1>3. Routed(w)
  BY <1>1 DEF Enter, Routed
<1>4. TransactionsKept /\ LockedKept /\ Due' = Due
      /\ \A t \in Slots : Attached(t) => tu'[t] = tu[t]
  BY <1>1, ReturnKeeps
<1> QED
  BY <1>1, <1>2, <1>3, <1>4

\* Its message is answered; at most a timeout of its owner is left.
LEMMA UnopenedLife ==
  ASSUME Inv, LifeInv, NEW w \in Workers,
         ManagerFails(w) \/ \E t \in Slots, k \in Mids : OpenAndRelease(w, t, k)
  PROVE  LifeInv' /\ LeavesTimeouts({worker[w].msg})
<1>1. /\ Routed(w) /\ Leave(w) /\ worker[w].msg.mid = None /\ UNCHANGED <<lock, wire>>
      /\ TransactionsKept /\ LockedKept /\ Due' = Due
      /\ inbox' = inbox \/ \E k \in Mids : inbox' = inbox \cup {LateOpening(w, k)}
  BY UnopenedStep
<1>2. CASE inbox' = inbox
  <2>1. LifeInv'
    BY <1>1, <1>2, LeaveLife
  <2>2. Messages' = (Messages \ {worker[w].msg}) \cup {}
    BY <1>1, <1>2, LeaveMessages DEF LifeInv
  <2> QED
    BY <2>1, <2>2 DEF LeavesTimeouts
<1>3. ASSUME NEW k \in Mids, inbox' = inbox \cup {LateOpening(w, k)}
      PROVE  LifeInv' /\ LeavesTimeouts({worker[w].msg})
  <2> DEFINE late == LateOpening(w, k)
             c == worker[w].msg.owner
  <2>1. late.type = "TIMER_EVENT" /\ late.mid = k /\ late.owner = c
    BY DEF LateOpening, Opened, TimeoutMessage
  <2>2. k # None
    BY UnpackedIds
  <2>3. /\ \A n \in Messages : n.owner = c => n = worker[w].msg
        /\ \A t \in Slots : Attached(t) => tu[t].owner # c
    BY <1>1, HeldIn DEF LifeInv, OpeningsFirst
  <2> HIDE DEF late, c
  <2>4. LateTimeout(w, late)
    BY <2>1, <2>2, <2>3, <1>1 DEF LateTimeout, SameKind, TransactionsKept
  <2>5. /\ LifeInv'
        /\ Messages' = Due' \cup (inbox \cup {late}) \cup (Held \ {worker[w].msg})
    BY <1>1, <1>3, <2>4, LateLife DEF late
  <2>6. worker[w].msg \notin Due /\ worker[w].msg \notin inbox
    BY <1>1 DEF LifeInv, Placed
  <2>7. Messages' = (Messages \ {worker[w].msg}) \cup {late}
    BY <1>1, <2>5, <2>6 DEF Messages
  <2> QED
    BY <2>1, <2>5, <2>7 DEF LeavesTimeouts
<1> QED
  BY <1>1, <1>2, <1>3

-----------------------------------------------------------------------------
(* The two steps that add messages: both for the owner of one transaction. *)

Others(w) == Messages \ {worker[w].msg}

\* Worker w has handled its message; the messages "added" are now due.
WorkerDone(w, added) ==
    /\ Routed(w) /\ UNCHANGED inbox
    /\ \A v \in Workers : Routed(v)' <=> Routed(v) /\ v # w
    /\ \A v \in Workers : v # w => worker'[v] = worker[v]
    /\ Due' = Due \cup added

\* Each added message is the first of its kind for owner c, and an answer to nothing.
NewKinds(c, old, added) ==
    /\ \A n \in added : n.owner = c /\ n.mid # None
    /\ \A n \in old : n.owner = c => n.mid # None
    /\ \A n, l \in added : SameKind(n, l) => n = l
    /\ \A n \in added, l \in old : ~SameKind(n, l)

\* What is on the way for owner c names session o, to which t is attached.
BoundTo(w, t, c, o, all) ==
    /\ tu'[t].owner = c /\ tu'[t].parent = o
    /\ \A n \in all : n.owner = c =>
         n.sid = ih'[o].sid /\ (n.type = "TIMER_EVENT" => n.mid = ih'[o].mid)
    /\ \A v \in Workers : Routed(v) /\ v # w /\ worker[v].msg.owner = c => worker[v].ih = o
    /\ tu'[t].step = "NONE" =>
         \A n \in all : n.owner = c =>
            n.type # "HTTP_RESPONSE" /\ n.timer # "HTTP_RESPONSE_TIMEOUT"

\* The other transactions, none of them of owner c, stay as they are.
OthersKept(t, c) ==
    \A u \in Slots : u # t /\ Attached(u)' =>
        /\ Attached(u) /\ tu'[u] = tu[u] /\ tu[u].owner # c
        /\ ih'[tu[u].parent] = ih[tu[u].parent]

LEMMA AddingLife ==
  ASSUME Inv, LifeInv, NEW w \in Workers, NEW added, NEW t \in Slots, NEW c \in Commands, NEW o,
         WorkerDone(w, added), NewKinds(c, Others(w), added),
         BoundTo(w, t, c, o, Others(w) \cup added), OthersKept(t, c),
         LockedSent', OneRequest'
  PROVE  LifeInv' /\ Messages' = Others(w) \cup added
<1> DEFINE old == Others(w)
<1>0. old = Messages \ {worker[w].msg} /\ NewKinds(c, old, added) /\ BoundTo(w, t, c, o, old \cup added)
  BY DEF Others
<1> HIDE DEF old
<1> USE <1>0 DEF WorkerDone, NewKinds, BoundTo, OthersKept
<1>1. /\ \A v \in Workers : Routed(v) /\ v # w => worker[v].msg # worker[w].msg
      /\ worker[w].msg \notin Due /\ worker[w].msg \notin inbox
  BY DEF LifeInv, Placed
<1>2. Held' = Held \ {worker[w].msg}
  BY <1>1 DEF Held
<1>3. Messages' = old \cup added
  BY <1>1, <1>2 DEF Messages
<1>4. Placed'
  <2>1. \A n \in added : n \notin inbox
    <3>1. \A n \in inbox : n \in old
      BY <1>1 DEF Messages
    <3> QED
      BY <3>1 DEF SameKind
  <2>2. Due' \cap inbox' = {}
    BY <2>1 DEF LifeInv, Placed
  <2>3. \A v \in Workers : Routed(v)' => worker'[v].msg \notin Due' \cup inbox'
    <3> SUFFICES ASSUME NEW v \in Workers, Routed(v), v # w
                 PROVE  worker[v].msg \notin added
      BY DEF LifeInv, Placed
    <3>1. worker[v].msg \in old
      BY <1>1 DEF Messages, Held
    <3> QED
      BY <3>1 DEF SameKind
  <2>4. \A u, v \in Workers :
          Routed(u)' /\ Routed(v)' /\ worker'[u].msg = worker'[v].msg => u = v
    BY DEF LifeInv, Placed
  <2> QED
    BY <2>2, <2>3, <2>4 DEF Placed
<1>5. OneOfEach'
  <2> SUFFICES ASSUME NEW n \in old \cup added, NEW l \in old \cup added,
                      SameKind(n, l)
               PROVE  n = l
    BY <1>3 DEF OneOfEach
  <2>1. CASE n \in old /\ l \in old
    BY <2>1 DEF LifeInv, OneOfEach
  <2>2. CASE n \in added
    BY <2>2
  <2>3. SameKind(l, n)
    BY DEF SameKind
  <2>4. CASE l \in added
    BY <2>3, <2>4
  <2> QED
    BY <2>1, <2>2, <2>4
<1>6. OpeningsFirst'
  <2> SUFFICES ASSUME NEW m \in old \cup added, m.mid = None
               PROVE  /\ m = OpeningMessage(m.owner)
                      /\ \A n \in old \cup added : n.owner = m.owner => n = m
                      /\ \A u \in Slots : Attached(u)' => tu'[u].owner # m.owner
    <3>1. \A m \in Messages' : m.mid = None =>
          /\ m = OpeningMessage(m.owner)
          /\ \A n \in Messages' : n.owner = m.owner => n = m
          /\ \A u \in Slots : Attached(u)' => tu'[u].owner # m.owner
      BY <1>3
    <3> QED
      BY <3>1 DEF OpeningsFirst, OpeningMessage
  <2>1. m \in Messages /\ m \in old /\ m.owner # c
    OBVIOUS
  <2>2. /\ m = OpeningMessage(m.owner)
        /\ \A n \in Messages : n.owner = m.owner => n = m
        /\ \A u \in Slots : Attached(u) => tu[u].owner # m.owner
    BY <2>1 DEF LifeInv, OpeningsFirst
  <2>3. \A u \in Slots : Attached(u)' => tu'[u].owner # m.owner
    BY <2>1, <2>2
  <2> QED
    BY <2>1, <2>2, <2>3
<1>7. OwnersDistinct'
  <2>1. \A u \in Slots : Attached(u)' => tu'[u].owner \in Commands
    BY DEF LifeInv, OwnersDistinct
  <2>2. \A u, v \in Slots : Attached(u)' /\ Attached(v)' /\ tu'[u].owner = tu'[v].owner => u = v
    BY DEF LifeInv, OwnersDistinct
  <2> QED
    BY <2>1, <2>2 DEF OwnersDistinct
<1>8. Bound'
  <2> SUFFICES ASSUME NEW u \in Slots, Attached(u)'
               PROVE  /\ \A n \in Messages' : n.owner = tu'[u].owner =>
                           /\ n.sid = ih'[tu'[u].parent].sid
                           /\ n.type = "TIMER_EVENT" => n.mid = ih'[tu'[u].parent].mid
                      /\ \A v \in Workers : Routed(v)' /\ worker'[v].msg.owner = tu'[u].owner =>
                           worker'[v].ih = tu'[u].parent
    BY DEF Bound
  <2>1. CASE u = t
    BY <1>3, <2>1
  <2>2. CASE u # t
    <3>1. Attached(u) /\ tu'[u] = tu[u] /\ tu[u].owner # c
          /\ ih'[tu[u].parent] = ih[tu[u].parent]
      BY <2>2
    <3>2. /\ \A n \in Messages : n.owner = tu[u].owner =>
               /\ n.sid = ih[tu[u].parent].sid
               /\ n.type = "TIMER_EVENT" => n.mid = ih[tu[u].parent].mid
          /\ \A v \in Workers : Routed(v) /\ worker[v].msg.owner = tu[u].owner =>
               worker[v].ih = tu[u].parent
      BY <3>1 DEF LifeInv, Bound
    <3> QED
      BY <1>3, <3>1, <3>2
  <2> QED
    BY <2>1, <2>2
<1>9. NothingSent'
  <2> SUFFICES ASSUME NEW u \in Slots, Attached(u)', tu'[u].step = "NONE",
                      NEW n \in Messages', n.owner = tu'[u].owner
               PROVE  n.type # "HTTP_RESPONSE" /\ n.timer # "HTTP_RESPONSE_TIMEOUT"
    BY DEF NothingSent
  <2>1. CASE u = t
    BY <1>3, <2>1
  <2>2. CASE u # t
    BY <1>3, <2>2 DEF LifeInv, NothingSent
  <2> QED
    BY <2>1, <2>2
<1> QED
  BY <1>3, <1>4, <1>5, <1>6, <1>7, <1>8, <1>9 DEF LifeInv, old

\* What StartScenario does, with its message, session and owner named.
FirstTimeouts(c, s, k) ==
    {TimeoutMessage([owner |-> c, type |-> e, sid |-> s, mid |-> k]) : e \in FirstTimers}

Started(w, t, k, o, c) ==
    /\ Enter(w) /\ Routed(w) /\ Leave(w) /\ worker[w].msg.type = "LOAD_COMMAND"
    /\ worker[w].msg.mid = None
    /\ o \in Slots /\ lock[o] = None /\ c \in Owners /\ ih[o].sid \in Sids
    /\ tu[t].owner = None /\ ~Attached(t)
    /\ ih'[o] = [sid |-> ih[o].sid, mid |-> k, tu |-> t]
    /\ tu'[t] = [owner |-> c, parent |-> o, fsm |-> "API", step |-> "NONE",
                 armed |-> FirstTimers]
    /\ \A p \in Slots : p # o => ih'[p] = ih[p]
    /\ \A u \in Slots : u # t => tu'[u] = tu[u]
    /\ \A u \in Slots : Attached(u) => tu[u].parent # o
    /\ running' = running \cup
         {[owner |-> c, type |-> e, sid |-> ih[o].sid, mid |-> k] : e \in FirstTimers}
    /\ UNCHANGED <<unsent, inbox, lock, wire, answers, stat>>

LEMMA StartScenarioStep ==
  ASSUME Inv, NEW w \in Workers, NEW t \in Slots, NEW k \in Mids, StartScenario(w, t, k)
  PROVE  Started(w, t, k, worker[w].ih, worker[w].msg.owner)
<1> PICK o, c : o = worker[w].ih /\ c = worker[w].msg.owner
  OBVIOUS
<1>1. /\ Enter(w) /\ worker[w].msg.type = "LOAD_COMMAND" /\ t \in FreeTus /\ Leave(w)
      /\ ih' = [ih EXCEPT ![o] = [sid |-> ih[o].sid, mid |-> k, tu |-> t]]
      /\ tu' = [tu EXCEPT ![t] = [owner |-> c, parent |-> o, fsm |-> "API", step |-> "NONE",
                                  armed |-> FirstTimers]]
      /\ running' = running \cup
           {[owner |-> c, type |-> e, sid |-> ih[o].sid, mid |-> k] : e \in FirstTimers}
      /\ UNCHANGED <<unsent, inbox, lock, wire, answers, stat>>
  BY DEF StartScenario, Attach, ScenarioFsm
<1>2. /\ Routed(w) /\ o \in Slots /\ lock[o] = None /\ c \in Owners /\ worker[w].msg.mid = None
  BY <1>1, Entered DEF Shape, Message
<1>3. /\ ih[o].sid \in Sids
      /\ \A u \in Slots : Attached(u) => tu[u].parent # o
  BY <1>1, <1>2, OpenerEntered
<1>4. tu[t].owner = None /\ ~Attached(t)
  BY <1>1 DEF FreeTus, Inv, PoolInv, MembersShaped
<1>5. ih \in [Slots -> IhSession] /\ tu \in [Slots -> TuSession]
  BY DEF Inv, TypeOK
<1>6. /\ ih'[o] = [sid |-> ih[o].sid, mid |-> k, tu |-> t]
      /\ \A p \in Slots : p # o => ih'[p] = ih[p]
  BY <1>1, <1>2, <1>5
<1>7. /\ tu'[t] = [owner |-> c, parent |-> o, fsm |-> "API", step |-> "NONE",
                   armed |-> FirstTimers]
      /\ \A u \in Slots : u # t => tu'[u] = tu[u]
  BY <1>1, <1>5
<1> QED
  BY <1>1, <1>2, <1>3, <1>4, <1>6, <1>7 DEF Started

LEMMA StartScenarioLife ==
  ASSUME Inv, LifeInv, NEW w \in Workers, NEW t \in Slots, NEW k \in Mids, StartScenario(w, t, k)
  PROVE  /\ LifeInv' /\ LockedKept
         /\ Messages' = (Messages \ {worker[w].msg})
                        \cup FirstTimeouts(worker[w].msg.owner, ih[worker[w].ih].sid, k)
<1> DEFINE o == worker[w].ih
           c == worker[w].msg.owner
           s == ih[o].sid
           added == FirstTimeouts(c, s, k)
           old == Messages \ {worker[w].msg}
<1>1. /\ Enter(w) /\ Routed(w) /\ Leave(w) /\ worker[w].msg.type = "LOAD_COMMAND"
      /\ worker[w].msg.mid = None
      /\ o \in Slots /\ lock[o] = None /\ c \in Owners /\ s \in Sids
      /\ tu[t].owner = None /\ ~Attached(t)
      /\ ih'[o] = [sid |-> s, mid |-> k, tu |-> t]
      /\ tu'[t] = [owner |-> c, parent |-> o, fsm |-> "API", step |-> "NONE",
                   armed |-> FirstTimers]
      /\ \A p \in Slots : p # o => ih'[p] = ih[p]
      /\ \A u \in Slots : u # t => tu'[u] = tu[u]
      /\ \A u \in Slots : Attached(u) => tu[u].parent # o
      /\ running' = running \cup
           {[owner |-> c, type |-> e, sid |-> s, mid |-> k] : e \in FirstTimers}
      /\ UNCHANGED <<unsent, inbox, lock, wire>>
  BY StartScenarioStep DEF Started
<1>2. /\ worker[w].msg \in Messages
      /\ worker[w].msg = OpeningMessage(c)
      /\ \A n \in Messages : n.owner = c => n = worker[w].msg
      /\ \A u \in Slots : Attached(u) => tu[u].owner # c
  BY <1>1, HeldIn DEF LifeInv, OpeningsFirst
<1>3. c \in Commands
  BY <1>1, <1>2 DEF OpeningMessage
<1>4. Due' = Due \cup added
  <2> DEFINE begun == {[owner |-> c, type |-> e, sid |-> s, mid |-> k] : e \in FirstTimers}
  <2>1. added = {TimeoutMessage(x) : x \in begun}
    BY DEF FirstTimeouts
  <2>2. running' = running \cup begun
    BY <1>1
  <2> HIDE DEF begun, added
  <2>3. Due' = Due \cup {TimeoutMessage(x) : x \in begun}
    BY <1>1, <2>2 DEF Due
  <2> QED
    BY <2>1, <2>3
<1>5. \A n \in added : /\ n.owner = c /\ n.mid = k /\ n.sid = s /\ n.type = "TIMER_EVENT"
                       /\ n.timer \in FirstTimers
                       /\ n = TimeoutMessage([owner |-> c, type |-> n.timer, sid |-> s, mid |-> k])
  BY DEF FirstTimeouts, TimeoutMessage
<1>6. k # None
  BY UnpackedIds
<1>7. /\ \A v \in Workers : Routed(v)' <=> Routed(v) /\ v # w
      /\ \A v \in Workers : v # w => worker'[v] = worker[v]
  <2>1. WorkerTyped(worker) /\ worker' = [worker EXCEPT ![w] = WorkerIdle]
    BY <1>1 DEF Inv, TypeOK, WorkerTyped, Leave
  <2> QED
    BY <2>1 DEF Routed, WorkerTyped, WorkerIdle
<1>8. LockedKept
  <2> SUFFICES ASSUME NEW p \in Slots, lock[p] # None
               PROVE  ih'[p] = ih[p] /\ tu'[ih[p].tu] = tu[ih[p].tu]
    BY DEF LockedKept
  <2> QED
    BY <1>1, LockedAttached
<1>9. LockedSent'
  BY <1>1, <1>8, LockedSentKept DEF LifeInv
<1>10. \A v \in Workers : Routed(v) /\ v # w => worker[v].msg.owner # c
  BY <1>1, <1>2, HeldIn DEF LifeInv, Placed
<1>11. \A u \in Slots : u # t /\ Attached(u)' =>
          /\ Attached(u) /\ tu'[u] = tu[u] /\ tu[u].owner # c
          /\ ih'[tu[u].parent] = ih[tu[u].parent]
  <2> SUFFICES ASSUME NEW u \in Slots, u # t, Attached(u)'
               PROVE  /\ Attached(u) /\ tu'[u] = tu[u] /\ tu[u].owner # c
                      /\ ih'[tu[u].parent] = ih[tu[u].parent]
    OBVIOUS
  <2>1. tu'[u] = tu[u] /\ Attached(u)
    BY <1>1 DEF Attached
  <2> QED
    BY <1>1, <1>2, <2>1, AttachedTyped
<1> HIDE DEF o, c, s, added, old
<1>12. /\ tu'[t].owner = c /\ tu'[t].parent = o
       /\ ih'[o].sid = s /\ ih'[o].mid = k
  BY <1>1
<1>13. \A n \in old : n.owner # c
  BY <1>2 DEF old
<1>14. \A n, l \in added : SameKind(n, l) => n = l
  BY <1>5 DEF SameKind
<1>15. tu'[t].step = "NONE" =>
         \A n \in old \cup added : n.owner = c =>
            n.type # "HTTP_RESPONSE" /\ n.timer # "HTTP_RESPONSE_TIMEOUT"
  BY <1>5, <1>13 DEF FirstTimers
<1>16. \A n \in old \cup added : n.owner = c =>
         n.sid = ih'[o].sid /\ (n.type = "TIMER_EVENT" => n.mid = ih'[o].mid)
  BY <1>5, <1>12, <1>13
<1>17. /\ \A n \in added : n.owner = c /\ n.mid # None
       /\ \A n \in old : n.owner = c => n.mid # None
       /\ \A n \in added, l \in old : ~SameKind(n, l)
  BY <1>5, <1>6, <1>13 DEF SameKind
<1>18. \A v \in Workers : Routed(v) /\ v # w /\ worker[v].msg.owner = c => worker[v].ih = o
  BY <1>10
<1>19. WorkerDone(w, added)
  BY <1>1, <1>4, <1>7 DEF WorkerDone
<1>20. NewKinds(c, old, added)
  BY <1>14, <1>17 DEF NewKinds
<1>21. BoundTo(w, t, c, o, old \cup added)
  BY <1>12, <1>15, <1>16, <1>18 DEF BoundTo
<1>22. OthersKept(t, c)
  BY <1>11 DEF OthersKept
<1>23. LifeInv' /\ Messages' = old \cup added
  <2>1. old = Others(w)
    BY DEF old, Others
  <2>2. OneRequest'
    BY <1>1 DEF LifeInv, OneRequest
  <2> QED
    BY <2>2, <1>3, <1>9, <1>19, <1>20, <1>21, <1>22, <2>1, AddingLife
<1> QED
  BY <1>8, <1>23 DEF old, added, c, s, o

\* What SendRequest does, with its session, transaction and owner named.
ResponseTimer(t) ==
    [owner |-> tu[t].owner, type |-> "HTTP_RESPONSE_TIMEOUT",
     sid |-> ih[tu[t].parent].sid, mid |-> ih[tu[t].parent].mid]

RequestOf(t) ==
    [owner |-> tu[t].owner, sid |-> ih[tu[t].parent].sid, mid |-> ih[tu[t].parent].mid]

LEMMA SendRequestStep ==
  ASSUME Inv, LifeInv, NEW w \in Workers, SendRequest(w),
         NEW o, o = worker[w].ih, NEW t, t = Target(w)
  PROVE  /\ Deliver(w, "TIMER_EVENT") /\ worker[w].msg.timer = "TRIGGER_SCENARIO"
         /\ Routed(w) /\ o \in Slots /\ lock[o] = None /\ w # None
         /\ t \in Slots /\ Attached(t) /\ tu[t].parent = o /\ ih[o].tu = t
         /\ tu[t].owner \in Commands
         /\ tu[t].step = "NONE"
         /\ tu'[t] = Awaiting(tu[t])
         /\ \A u \in Slots : u # t => tu'[u] = tu[u]
         /\ running' = running \cup {ResponseTimer(t)}
         /\ wire' = wire \cup {RequestOf(t)}
         /\ lock'[o] = w /\ \A p \in Slots : p # o => lock'[p] = lock[p]
         /\ worker'[w].pc = "sent" /\ \A v \in Workers : v # w => worker'[v] = worker[v]
         /\ worker'[w].ih = o
         /\ UNCHANGED <<unsent, inbox, ih, answers, stat>>
<1> DEFINE c == tu[t].owner
           e == "HTTP_RESPONSE_TIMEOUT"
<1>1. /\ Triggered(w) /\ NextStep(tu[t].step) = "S1_SEND_REQUEST"
      /\ tu' = [tu EXCEPT ![t] = Awaiting(tu[t])]
      /\ running' = {x \in running : ~(x.owner = c /\ x.type = e /\ e \in tu[t].armed)}
                    \cup {[owner |-> c, type |-> e, sid |-> ih[o].sid, mid |-> ih[o].mid]}
      /\ wire' = wire \cup {[owner |-> c, sid |-> ih[o].sid, mid |-> ih[o].mid]}
      /\ lock' = [lock EXCEPT ![o] = w]
      /\ worker' = [worker EXCEPT ![w].pc = "sent"]
      /\ UNCHANGED <<unsent, inbox, ih, answers, stat>>
  BY DEF SendRequest
<1>2. Deliver(w, "TIMER_EVENT") /\ worker[w].msg.timer = "TRIGGER_SCENARIO"
  BY <1>1 DEF Triggered
<1>3. /\ Routed(w) /\ o \in Slots /\ lock[o] = None
      /\ t \in Slots /\ tu[t].parent = o /\ ih[o].tu = t
  BY <1>2, Delivered, Entered DEF Target
<1>4. Attached(t) /\ w # None
  BY <1>3, NoneAssumption DEF Attached
<1>5. tu[t].step = "NONE"
  BY <1>1 DEF NextStep
<1>6. tu[t].owner \in Commands
  BY <1>3, <1>4 DEF LifeInv, OwnersDistinct
<1>7. \A x \in running : x.owner = c => x.type # e
  <2> SUFFICES ASSUME NEW x \in running, x.owner = c PROVE x.type # e
    OBVIOUS
  <2>1. TimeoutMessage(x) \in Messages
    BY DueIn
  <2>2. TimeoutMessage(x).owner = x.owner /\ TimeoutMessage(x).timer = x.type
    BY DEF TimeoutMessage
  <2> QED
    BY <1>3, <1>4, <1>5, <2>1, <2>2 DEF LifeInv, NothingSent
<1>8. running' = running \cup {ResponseTimer(t)}
  BY <1>1, <1>3, <1>7 DEF ResponseTimer
<1>9. wire' = wire \cup {RequestOf(t)}
  BY <1>1, <1>3 DEF RequestOf
<1>10. tu'[t] = Awaiting(tu[t]) /\ \A u \in Slots : u # t => tu'[u] = tu[u]
  BY <1>1, <1>3 DEF Inv, TypeOK
<1>11. lock'[o] = w /\ \A p \in Slots : p # o => lock'[p] = lock[p]
  BY <1>1, <1>3 DEF Inv, TypeOK
<1>12. /\ worker'[w].pc = "sent" /\ worker'[w].ih = o
       /\ \A v \in Workers : v # w => worker'[v] = worker[v]
  BY <1>1 DEF Inv, TypeOK
<1> QED
  BY <1>1, <1>2, <1>3, <1>4, <1>5, <1>6, <1>8, <1>9, <1>10, <1>11, <1>12

LEMMA SendRequestLife ==
  ASSUME Inv, LifeInv, NEW w \in Workers, SendRequest(w)
  PROVE  /\ LifeInv' /\ LockedKept
         /\ Messages' = Others(w) \cup {TimeoutMessage(ResponseTimer(Target(w))),
                                        ResponseMessage(RequestOf(Target(w)))}
<1> DEFINE o == worker[w].ih
           t == Target(w)
           c == tu[t].owner
           late == TimeoutMessage(ResponseTimer(t))
           reply == ResponseMessage(RequestOf(t))
           added == {late, reply}
           old == Others(w)
<1>1. /\ Routed(w) /\ o \in Slots /\ lock[o] = None /\ w # None
      /\ t \in Slots /\ Attached(t) /\ tu[t].parent = o /\ ih[o].tu = t
      /\ c \in Commands
      /\ tu[t].step = "NONE"
      /\ tu'[t] = Awaiting(tu[t])
      /\ \A u \in Slots : u # t => tu'[u] = tu[u]
      /\ running' = running \cup {ResponseTimer(t)}
      /\ wire' = wire \cup {RequestOf(t)}
      /\ lock'[o] = w /\ \A p \in Slots : p # o => lock'[p] = lock[p]
      /\ worker'[w].pc = "sent" /\ \A v \in Workers : v # w => worker'[v] = worker[v]
      /\ UNCHANGED <<unsent, inbox, ih>>
  BY SendRequestStep
<1>2. /\ tu'[t].owner = c /\ tu'[t].parent = o /\ tu'[t].step = "S1_SEND_REQUEST"
  BY <1>1 DEF Awaiting
<1>3. /\ late.owner = c /\ late.type = "TIMER_EVENT" /\ late.timer = "HTTP_RESPONSE_TIMEOUT"
      /\ reply.owner = c /\ reply.type = "HTTP_RESPONSE"
      /\ late.sid = ih[o].sid /\ late.mid = ih[o].mid
      /\ reply.sid = ih[o].sid /\ reply.mid = Unpacked(ih[o].mid)
  BY <1>1 DEF ResponseTimer, RequestOf, TimeoutMessage, ResponseMessage
<1>4. ih[o].mid # None /\ Unpacked(ih[o].mid) # None
  BY <1>1, AttachedTyped, UnpackedIds
<1>5. Due' = Due \cup added
  <2> DEFINE timers == {TimeoutMessage(x) : x \in running}
             replies == {ResponseMessage(x) : x \in wire}
  <2>1. timers' = timers \cup {late}
    BY <1>1
  <2>2. replies' = replies \cup {reply}
    BY <1>1
  <2> HIDE DEF late, reply
  <2> QED
    BY <1>1, <2>1, <2>2 DEF Due
<1>6. \A n \in Messages : n.owner = c =>
         /\ n.type # "HTTP_RESPONSE" /\ n.timer # "HTTP_RESPONSE_TIMEOUT"
         /\ n.sid = ih[o].sid /\ (n.type = "TIMER_EVENT" => n.mid = ih[o].mid)
  BY <1>1 DEF LifeInv, NothingSent, Bound
<1>7. \A v \in Workers : Routed(v) /\ v # w /\ worker[v].msg.owner = c => worker[v].ih = o
  BY <1>1 DEF LifeInv, Bound
<1>8. LockedKept
  <2> SUFFICES ASSUME NEW p \in Slots, lock[p] # None, lock'[p] = lock[p]
               PROVE  ih'[p] = ih[p] /\ tu'[ih[p].tu] = tu[ih[p].tu]
    BY DEF LockedKept
  <2>1. p # o
    BY <1>1
  <2> QED
    BY <1>1, <2>1, LockedAttached
<1>9. LockedSent'
  <2> SUFFICES ASSUME NEW p \in Slots, lock'[p] # None
               PROVE  tu'[ih'[p].tu].step # "NONE"
    BY DEF LockedSent
  <2>1. CASE p = o
    BY <1>1, <1>2, <2>1
  <2>2. CASE p # o
    BY <1>1, <1>8, <2>2 DEF LifeInv, LockedSent, LockedKept
  <2> QED
    BY <2>1, <2>2
<1>10. OthersKept(t, c)
  <2> SUFFICES ASSUME NEW u \in Slots, u # t, Attached(u)'
               PROVE  Attached(u) /\ tu'[u] = tu[u] /\ tu[u].owner # c
    BY <1>1 DEF OthersKept
  <2>1. tu'[u] = tu[u] /\ Attached(u)
    BY <1>1 DEF Attached
  <2> QED
    BY <1>1, <2>1 DEF LifeInv, OwnersDistinct
<1>11. WorkerDone(w, added)
  <2>1. \A v \in Workers : Routed(v)' <=> Routed(v) /\ v # w
    BY <1>1 DEF Routed
  <2> QED
    BY <1>1, <1>5, <2>1 DEF WorkerDone
<1> HIDE DEF o, t, c, late, reply, old
<1>12. old \subseteq Messages
  BY DEF old, Others
<1>13. NewKinds(c, old, added)
  <2>1. \A n \in old : n.owner = c => n.mid # None
    <3> SUFFICES ASSUME NEW n \in old, n.owner = c, n.mid = None PROVE FALSE
      OBVIOUS
    <3>1. n \in Messages
      BY <1>12
    <3> QED
      BY <1>1, <3>1 DEF LifeInv, OpeningsFirst, c
  <2> QED
    BY <1>3, <1>4, <1>6, <1>12, <2>1 DEF NewKinds, SameKind
<1>14. BoundTo(w, t, c, o, old \cup added)
  BY <1>1, <1>2, <1>3, <1>6, <1>7, <1>12 DEF BoundTo
<1>15. OneRequest'
  <2>1. RequestOf(t).owner = c
    BY DEF RequestOf, c
  <2>2. \A x \in wire : x.owner # c
    <3> SUFFICES ASSUME NEW x \in wire, x.owner = c PROVE FALSE
      OBVIOUS
    <3>1. ResponseMessage(x) \in Messages
      BY DueIn
    <3>2. ResponseMessage(x).owner = c /\ ResponseMessage(x).type = "HTTP_RESPONSE"
      BY DEF ResponseMessage
    <3> QED
      BY <1>6, <3>1, <3>2
  <2> QED
    BY <1>1, <2>1, <2>2 DEF LifeInv, OneRequest
<1>16. LifeInv' /\ Messages' = old \cup added
  BY <1>1, <1>9, <1>10, <1>11, <1>13, <1>14, <1>15, AddingLife DEF old
<1> QED
  BY <1>8, <1>16 DEF old, late, reply, t

-----------------------------------------------------------------------------
(* Every step. *)

LEMMA CountSentStep ==
  ASSUME Inv, NEW w \in Workers, CountSent(w), NEW o, o = worker[w].ih
  PROVE  /\ o \in Slots /\ lock[o] = w /\ lock'[o] = None /\ w # None
         /\ worker[w].pc = "sent" /\ ~Routed(w)
         /\ \A p \in Slots : p # o => lock'[p] = lock[p]
         /\ \A v \in Workers : Routed(v)' <=> Routed(v)
         /\ \A v \in Workers : v # w => worker'[v] = worker[v]
         /\ worker'[w] = WorkerIdle
         /\ stat' = [stat EXCEPT !.sent = @ + 1]
         /\ UNCHANGED <<unsent, inbox, ih, tu, running, wire>>
<1>1. /\ worker[w].pc = "sent" /\ o \in Slots /\ lock[o] = w
      /\ worker' = [worker EXCEPT ![w] = WorkerIdle]
      /\ lock' = [lock EXCEPT ![o] = None]
      /\ stat' = [stat EXCEPT !.sent = @ + 1]
      /\ UNCHANGED <<unsent, inbox, ih, tu, running, wire>>
  BY DEF CountSent, Leave, Inv, PoolInv, MessagesShaped, LocksHeld
<1>2. lock'[o] = None /\ \A p \in Slots : p # o => lock'[p] = lock[p]
  BY <1>1 DEF Inv, TypeOK
<1>3. worker'[w] = WorkerIdle /\ \A v \in Workers : v # w => worker'[v] = worker[v]
  BY <1>1 DEF Inv, TypeOK
<1>4. ~Routed(w) /\ \A v \in Workers : Routed(v)' <=> Routed(v)
  BY <1>1, <1>3 DEF Routed, WorkerIdle
<1> QED
  BY <1>1, <1>2, <1>3, <1>4, NoneAssumption

LEMMA CountSentLife ==
  ASSUME Inv, LifeInv, NEW w \in Workers, CountSent(w)
  PROVE  LifeInv' /\ Messages' = Messages
<1>1. /\ \A v \in Workers : Routed(v)' <=> Routed(v)
      /\ \A v \in Workers : Routed(v) => worker'[v] = worker[v]
      /\ \A p \in Slots : lock'[p] # None => lock[p] # None
      /\ UNCHANGED <<unsent, inbox, ih, tu, running, wire>>
  BY CountSentStep
<1>2. Due' = Due
  BY <1>1, DueFrame
<1>3. Held' = Held
  BY <1>1 DEF Held
<1>4. Messages' = Messages
  BY <1>1, <1>2, <1>3 DEF Messages
<1>5. TransactionsKept
  BY <1>1 DEF TransactionsKept, Attached
<1>6. Placed'
  BY <1>1, <1>2 DEF LifeInv, Placed
<1>7. LockedSent'
  BY <1>1 DEF LifeInv, LockedSent
<1>8. \A t \in Slots : Attached(t)' =>
        \A v \in Workers : Routed(v)' /\ worker'[v].msg.owner = tu'[t].owner =>
             worker'[v].ih = tu'[t].parent
  BY <1>1 DEF LifeInv, Bound, Attached
<1> QED
  BY <1>1, <1>4, <1>5, <1>6, <1>7, <1>8, FadingLife DEF LifeInv, Bound

LEMMA InitLife == Init => LifeInv
<1> SUFFICES ASSUME Init PROVE LifeInv
  OBVIOUS
<1>1. /\ Messages = {OpeningMessage(c) : c \in Owners} /\ inbox = {}
      /\ \A w \in Workers : ~Routed(w)
      /\ \A t \in Slots : ~Attached(t)
      /\ \A o \in Slots : lock[o] = None
  BY DEF Init, Messages, Due, Held, Routed, WorkerIdle, Attached, TuIdle
<1>2. Placed
  BY <1>1 DEF Placed
<1>3. \A m \in Messages : m = OpeningMessage(m.owner)
  BY <1>1 DEF OpeningMessage
<1>4. OneOfEach
  BY <1>3 DEF OneOfEach, SameKind
<1>5. OpeningsFirst
  BY <1>1, <1>3 DEF OpeningsFirst
<1>6. OwnersDistinct
  BY <1>1 DEF OwnersDistinct
<1>7. Bound /\ NothingSent
  BY <1>1 DEF Bound, NothingSent
<1>8. LockedSent /\ OneRequest
  BY <1>1 DEF LockedSent, OneRequest, Init
<1> QED
  BY <1>2, <1>4, <1>5, <1>6, <1>7, <1>8 DEF LifeInv

LEMMA DeliveringLife ==
  ASSUME Inv, LifeInv, NEW w \in Workers, Delivering(w)
  PROVE  LifeInv'
<1>1. CASE MemberNotFound(w) \/ TimeoutIgnored(w)
  BY <1>1, IgnoreLife
<1>2. CASE GiveUp(w)
  BY <1>2, ReleaseLife DEF GiveUp
<1>3. CASE SendRequest(w)
  BY <1>3, SendRequestLife
<1>4. CASE EndScenario(w)
  BY <1>4, EndScenarioStep, ReleaseLife, LateReleaseLife
<1>5. CASE ReceiveResponse(w)
  BY <1>5, ReleaseLife DEF ReceiveResponse
<1> QED
  BY <1>1, <1>2, <1>3, <1>4, <1>5 DEF Delivering

LEMMA NextLife ==
  ASSUME Inv, LifeInv, [Next]_vars
  PROVE  LifeInv'
<1>1. ASSUME NEW c \in Owners, Submit(c) PROVE LifeInv'
  BY <1>1, SubmitDue, EnvironmentLife DEF Submit
<1>2. ASSUME NEW x \in running, Expire(x) PROVE LifeInv'
  BY <1>2, ExpireDue, EnvironmentLife DEF Expire
<1>3. ASSUME NEW x \in wire, Respond(x) \/ Lose(x) PROVE LifeInv'
  <2>1. /\ inbox' \in {inbox, inbox \cup {ResponseMessage(x)}}
        /\ UNCHANGED <<worker, ih, lock, tu>> /\ wire' \subseteq wire
    BY <1>3 DEF Respond, Lose
  <2> QED
    BY <1>3, <2>1, WireDue, EnvironmentLife
<1>4. ASSUME NEW w \in Workers, Work(w) PROVE LifeInv'
  <2>1. CASE Routing(w)
    BY <2>1, FindLife, ObtainLife, DropLife DEF Routing
  <2>2. CASE Opening(w)
    BY <2>2, UnopenedLife, StartScenarioLife DEF Opening
  <2>3. CASE Delivering(w)
    BY <2>3, DeliveringLife
  <2>4. CASE CountSent(w)
    BY <2>4, CountSentLife
  <2> QED
    BY <1>4, <2>1, <2>2, <2>3, <2>4 DEF Work
<1>5. CASE UNCHANGED vars
  BY <1>5 DEF vars, LifeInv, Placed, OneOfEach, OpeningsFirst, OwnersDistinct, Bound, NothingSent,
              LockedSent, OneRequest, Messages, Due, Held, Routed, Attached, OpeningMessage, TimeoutMessage,
              ResponseMessage
<1> QED
  BY <1>1, <1>2, <1>3, <1>4, <1>5 DEF Next, TimerThread

\* Every message has one place and, while its owner is live, its owner's session.
THEOREM LifeInvariance == Spec => [](Inv /\ LifeInv)
<1>1. Init => LifeInv
  BY InitLife
<1>2. Inv /\ LifeInv /\ [Next]_vars => LifeInv'
  BY NextLife
<1> QED
  BY <1>1, <1>2, Invariance, PTL DEF Spec

=============================================================================
