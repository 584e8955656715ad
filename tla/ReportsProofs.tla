---------------------------- MODULE ReportsProofs -----------------------------
(***************************************************************************)
(* Theorems about Reports: for any number of exchanges, clients' requests,  *)
(* consoles and CLR-REPTs the two tables explain their own responses and     *)
(* each other.                                                              *)
(*                                                                         *)
(* Each inequality is made inductive by adding, on its smaller side, the     *)
(* exchanges that may still move it: a response counted takes one of them    *)
(* away, a request counted brings at most one.                              *)
(***************************************************************************)
EXTENDS Reports, FiniteSetTheorems, TLAPS

\* Replies are looked for only after the request left.
Coupled ==
    \A x \in Exchanges : reply[x] = "none" <=> sending[x] \in {"ready", "counted", "failed"}

OutBalance ==
    protocol["responseReceived"] + Cardinality(OpenExchanges)
      <= protocol["requestSent"] + carried.out

InBalance ==
    protocol["responseSent"] + Cardinality(OpenVisits)
      <= protocol["requestReceived"] + carried.in

RowBalance ==
    \A r \in ServiceRows :
        service[r].received + Cardinality(Owed(r)) <= service[r].sent + carried.service[r]

\* What the protocol table must already show for the service table to be cleared.
SentRoom == Cardinality(Underway) <= protocol["requestSent"] + carried.counted
ReceivedRoom == Cardinality(Queued) <= protocol["responseReceived"] + carried.queued

NoClearUnderway == \A k \in Consoles : clearing[k] = 0

SentAgree ==
    NoClearUnderway =>
        ServiceSent + Cardinality(Underway) <= protocol["requestSent"] + carried.counted

ReceivedAgree ==
    NoClearUnderway =>
        ServiceReceived + Cardinality(Queued) <= protocol["responseReceived"] + carried.queued

Balances ==
    /\ OutBalance /\ InBalance /\ RowBalance
    /\ SentRoom /\ ReceivedRoom /\ SentAgree /\ ReceivedAgree

Inv == TypeOK /\ Coupled /\ Balances

-----------------------------------------------------------------------------
(* Finite sets. *)

LEMMA ExchangeSets ==
  ASSUME NEW T \in SUBSET Exchanges
  PROVE  IsFiniteSet(T) /\ Cardinality(T) \in Nat
BY SetsAssumption, FS_Subset, FS_CardinalityType

LEMMA VisitSets ==
  ASSUME NEW T \in SUBSET Visits
  PROVE  IsFiniteSet(T) /\ Cardinality(T) \in Nat
BY SetsAssumption, FS_Subset, FS_CardinalityType

LEMMA Within ==
  ASSUME NEW S, NEW T \in SUBSET S, IsFiniteSet(S)
  PROVE  Cardinality(T) <= Cardinality(S)
BY FS_Subset

\* At most x comes.
LEMMA Grows ==
  ASSUME NEW S, NEW T, NEW x, IsFiniteSet(S), T \subseteq S \cup {x}
  PROVE  Cardinality(T) <= Cardinality(S) + 1
<1>1. IsFiniteSet(S \cup {x}) /\ Cardinality(S \cup {x}) \in Nat /\ Cardinality(S) \in Nat
  BY FS_AddElement, FS_CardinalityType
<1>2. Cardinality(S \cup {x}) <= Cardinality(S) + 1
  BY <1>1, FS_AddElement
<1>3. Cardinality(T) \in Nat /\ Cardinality(T) <= Cardinality(S \cup {x})
  BY <1>1, FS_Subset, FS_CardinalityType
<1> QED
  BY <1>1, <1>2, <1>3

\* x goes, and nothing comes.
LEMMA Shrinks ==
  ASSUME NEW S, NEW T, NEW x \in S, IsFiniteSet(S), T \subseteq S \ {x}
  PROVE  Cardinality(T) + 1 <= Cardinality(S)
<1>1. IsFiniteSet(S \ {x}) /\ Cardinality(S \ {x}) = Cardinality(S) - 1
  BY FS_RemoveElement
<1>2. Cardinality(S) \in Nat /\ Cardinality(S \ {x}) \in Nat
  BY <1>1, FS_CardinalityType
<1>3. Cardinality(T) \in Nat /\ Cardinality(T) <= Cardinality(S \ {x})
  BY <1>1, FS_Subset, FS_CardinalityType
<1> QED
  BY <1>1, <1>2, <1>3

LEMMA Sizes ==
    /\ IsFiniteSet(OpenExchanges) /\ Cardinality(OpenExchanges) \in Nat
    /\ IsFiniteSet(OpenVisits) /\ Cardinality(OpenVisits) \in Nat
    /\ IsFiniteSet(Underway) /\ Cardinality(Underway) \in Nat
    /\ IsFiniteSet(Queued) /\ Cardinality(Queued) \in Nat
    /\ \A r : IsFiniteSet(Owed(r)) /\ Cardinality(Owed(r)) \in Nat
<1>1. /\ OpenExchanges \in SUBSET Exchanges /\ Underway \in SUBSET Exchanges
      /\ Queued \in SUBSET Exchanges /\ OpenVisits \in SUBSET Visits
      /\ \A r : Owed(r) \in SUBSET Exchanges
  BY DEF OpenExchanges, Underway, Queued, OpenVisits, Owed
<1> QED
  BY <1>1, ExchangeSets, VisitSets

LEMMA SizesNext ==
    /\ Cardinality(OpenExchanges)' \in Nat /\ Cardinality(OpenVisits)' \in Nat
    /\ Cardinality(Underway)' \in Nat /\ Cardinality(Queued)' \in Nat
    /\ \A r : Cardinality(Owed(r))' \in Nat
<1>1. /\ OpenExchanges' \in SUBSET Exchanges /\ Underway' \in SUBSET Exchanges
      /\ Queued' \in SUBSET Exchanges /\ OpenVisits' \in SUBSET Visits
      /\ \A r : Owed(r)' \in SUBSET Exchanges
  BY DEF OpenExchanges, Underway, Queued, OpenVisits, Owed
<1> QED
  BY <1>1, ExchangeSets, VisitSets

-----------------------------------------------------------------------------
(* Types. *)

LEMMA InitInv == Init => Inv
<1> SUFFICES ASSUME Init PROVE Inv
  OBVIOUS
<1>1. TypeOK
  BY MaxClearsAssumption DEF Init, TypeOK, EmptyProtocol, EmptyService
<1>2. Coupled
  BY DEF Init, Coupled
<1>3. /\ OpenExchanges = {} /\ OpenVisits = {} /\ Underway = {} /\ Queued = {}
      /\ \A r \in ServiceRows : Owed(r) = {}
  BY DEF Init, OpenExchanges, OpenVisits, Underway, Queued, Owed
<1>4. Cardinality({}) = 0
  BY FS_EmptySet
<1>5. /\ \A c \in Columns : protocol[c] = 0
      /\ \A r \in ServiceRows : service[r].sent = 0 /\ service[r].received = 0
      /\ carried.out = 0 /\ carried.in = 0 /\ carried.counted = 0 /\ carried.queued = 0
      /\ \A r \in ServiceRows : carried.service[r] = 0
  BY DEF Init, EmptyProtocol, EmptyService
<1>6. OutBalance /\ InBalance /\ SentRoom /\ ReceivedRoom
  BY <1>3, <1>4, <1>5 DEF OutBalance, InBalance, SentRoom, ReceivedRoom, Columns
<1>7. RowBalance
  <2> SUFFICES ASSUME NEW r \in ServiceRows
               PROVE  service[r].received + Cardinality(Owed(r))
                        <= service[r].sent + carried.service[r]
    BY DEF RowBalance
  <2>1. Cardinality(Owed(r)) = 0
    BY <1>3, <1>4
  <2> QED
    BY <1>5, <2>1
<1>8. ServiceSent = 0 /\ ServiceReceived = 0
  BY <1>5 DEF ServiceRows, ServiceSent, ServiceReceived
<1>9. SentAgree /\ ReceivedAgree
  BY <1>3, <1>4, <1>5, <1>8 DEF SentAgree, ReceivedAgree, Columns
<1> QED
  BY <1>1, <1>2, <1>6, <1>7, <1>9 DEF Inv, Balances

\* Counting keeps the tables tables.
LEMMA CountedType ==
  ASSUME TypeOK, NEW c \in Columns, StatProtocol(c)
  PROVE  protocol' \in [Columns -> Nat]
BY DEF TypeOK, StatProtocol

LEMMA RowType == "API01" \in ServiceRows /\ "API02" \in ServiceRows
BY DEF ServiceRows

\* A console's CLR-REPT clears the protocol table, and then the service table.
LEMMA ClearSteps ==
  ASSUME TypeOK, NEW k \in Consoles, ClearReports(k)
  PROVE  /\ UNCHANGED <<sending, reply, visit>>
         /\ clears' \in 0..MaxClears
         /\ \/ clearing' = [clearing EXCEPT ![k] = 1] /\ ClearProtocol
            \/ clearing' = [clearing EXCEPT ![k] = 0] /\ ClearService
<1>1. clearing[k] = 0 \/ clearing[k] = 1
  BY DEF TypeOK
<1>2. UNCHANGED <<sending, reply, visit>>
  BY DEF ClearReports
<1>3. ClearOrder[1] = "protocol" /\ ClearOrder[2] = "service"
  BY DEF ClearOrder
<1>4. CASE clearing[k] = 0
  <2>1. clears' \in 0..MaxClears
    BY <1>4, MaxClearsAssumption DEF ClearReports, TypeOK
  <2>2. (0 + 1) % 2 = 1 /\ 0 + 1 = 1
    OBVIOUS
  <2>3. clearing' = [clearing EXCEPT ![k] = 1] /\ ClearProtocol
    BY <1>3, <1>4, <2>2 DEF ClearReports
  <2> QED
    BY <1>2, <2>1, <2>3
<1>5. CASE clearing[k] = 1
  <2>1. clears' \in 0..MaxClears
    BY <1>5 DEF ClearReports, TypeOK
  <2>2. (1 + 1) % 2 = 0 /\ 1 + 1 = 2
    OBVIOUS
  <2>3. clearing' = [clearing EXCEPT ![k] = 0] /\ ClearService
    BY <1>3, <1>5, <2>2 DEF ClearReports
  <2> QED
    BY <1>2, <2>1, <2>3
<1> QED
  BY <1>1, <1>4, <1>5

LEMMA TypeStep == TypeOK /\ [Next]_vars => TypeOK'
<1> SUFFICES ASSUME TypeOK, [Next]_vars PROVE TypeOK'
  OBVIOUS
<1> USE DEF Columns
<1>1. ASSUME NEW x \in Exchanges, CountRequest(x) PROVE TypeOK'
  <2>1. protocol' \in [Columns -> Nat]
    BY <1>1, CountedType DEF CountRequest
  <2> QED
    BY <1>1, <2>1 DEF TypeOK, CountRequest, Sending
<1>2. ASSUME NEW x \in Exchanges, RequestLeaves(x) PROVE TypeOK'
  BY <1>2 DEF TypeOK, RequestLeaves, Sending
<1>3. ASSUME NEW x \in Exchanges, SendFails(x) PROVE TypeOK'
  BY <1>3 DEF TypeOK, SendFails, Sending
<1>4. ASSUME NEW x \in Exchanges, CountSent(x) PROVE TypeOK'
  <2>1. service' \in [ServiceRows -> [sent : Nat, received : Nat]]
    BY <1>4, RowType DEF TypeOK, CountSent, Row
  <2> QED
    BY <1>4, <2>1 DEF TypeOK, CountSent, Sending
<1>5. ASSUME NEW x \in Exchanges, CountResponse(x) PROVE TypeOK'
  <2>1. protocol' \in [Columns -> Nat]
    BY <1>5, CountedType DEF CountResponse
  <2> QED
    BY <1>5, <2>1 DEF TypeOK, CountResponse, Replying
<1>6. ASSUME NEW x \in Exchanges, NoReply(x) PROVE TypeOK'
  BY <1>6 DEF TypeOK, NoReply, Replying
<1>7. ASSUME NEW x \in Exchanges, CountReceived(x) PROVE TypeOK'
  <2>1. service' \in [ServiceRows -> [sent : Nat, received : Nat]]
    BY <1>7, RowType DEF TypeOK, CountReceived, Row
  <2> QED
    BY <1>7, <2>1 DEF TypeOK, CountReceived, Replying
<1>8. ASSUME NEW x \in Exchanges, ReplyTooLate(x) PROVE TypeOK'
  BY <1>8 DEF TypeOK, ReplyTooLate, Replying
<1>9. ASSUME NEW v \in Visits, ReceiveRequest(v) PROVE TypeOK'
  <2>1. protocol' \in [Columns -> Nat]
    BY <1>9, CountedType DEF ReceiveRequest
  <2> QED
    BY <1>9, <2>1 DEF TypeOK, ReceiveRequest
<1>10. ASSUME NEW v \in Visits, SendResponse(v) PROVE TypeOK'
  <2>1. protocol' \in [Columns -> Nat]
    BY <1>10, CountedType DEF SendResponse
  <2> QED
    BY <1>10, <2>1 DEF TypeOK, SendResponse
<1>11. ASSUME NEW k \in Consoles, ClearReports(k) PROVE TypeOK'
  <2>1. /\ UNCHANGED <<sending, reply, visit>> /\ clears' \in 0..MaxClears
        /\ clearing' \in [Consoles -> {0, 1}]
    BY <1>11, ClearSteps DEF TypeOK
  <2>2. ClearProtocol \/ ClearService
    BY <1>11, ClearSteps
  <2>3. protocol' \in [Columns -> Nat]
    BY <2>2 DEF ClearProtocol, ClearService, EmptyProtocol, TypeOK
  <2>4. service' \in [ServiceRows -> [sent : Nat, received : Nat]]
    BY <2>2 DEF ClearProtocol, ClearService, EmptyService, TypeOK
  <2>5. carried' \in [out : Nat, in : Nat, counted : Nat, queued : Nat,
                      service : [ServiceRows -> Nat]]
    <3>1. CASE ClearProtocol
      BY <3>1, Sizes DEF ClearProtocol, TypeOK
    <3>2. CASE ClearService
      <4>1. [r \in ServiceRows |-> Cardinality(Owed(r))] \in [ServiceRows -> Nat]
        BY Sizes
      <4> QED
        BY <3>2, <4>1 DEF ClearService, TypeOK
    <3> QED
      BY <2>2, <3>1, <3>2
  <2> QED
    BY <2>1, <2>3, <2>4, <2>5 DEF TypeOK
<1>12. ASSUME UNCHANGED vars PROVE TypeOK'
  BY <1>12 DEF TypeOK, vars
<1> QED
  BY <1>1, <1>2, <1>3, <1>4, <1>5, <1>6, <1>7, <1>8, <1>9, <1>10, <1>11, <1>12 DEF Next

\* Type correctness of the two tables and of everything that counts in them.
THEOREM TypeCorrect == Spec => []TypeOK
<1>1. Init => TypeOK
  BY InitInv DEF Inv
<1> QED
  BY <1>1, TypeStep, PTL DEF Spec

-----------------------------------------------------------------------------
(* The balances. *)

LEMMA Counted ==
  ASSUME TypeOK, NEW c \in Columns, StatProtocol(c)
  PROVE  \A d \in Columns : protocol'[d] = IF d = c THEN protocol[d] + 1 ELSE protocol[d]
BY DEF TypeOK, StatProtocol

LEMMA ColumnNames ==
    /\ "requestSent" \in Columns /\ "responseReceived" \in Columns
    /\ "requestReceived" \in Columns /\ "responseSent" \in Columns
BY DEF Columns

LEMMA Numbers ==
  ASSUME TypeOK
  PROVE  /\ \A c \in Columns : protocol[c] \in Nat
         /\ \A r \in ServiceRows : service[r].sent \in Nat /\ service[r].received \in Nat
                                   /\ carried.service[r] \in Nat
         /\ carried.out \in Nat /\ carried.in \in Nat
         /\ carried.counted \in Nat /\ carried.queued \in Nat
BY DEF TypeOK

LEMMA Totals ==
  ASSUME TypeOK
  PROVE  ServiceSent \in Nat /\ ServiceReceived \in Nat
BY Numbers, RowType DEF ServiceSent, ServiceReceived

\* No step but CLR-REPT lets the difference of a balance shrink.
Upheld ==
    /\ UNCHANGED <<clearing, carried>>
    /\ protocol'["responseReceived"] + Cardinality(OpenExchanges)' + protocol["requestSent"]
         <= protocol["responseReceived"] + Cardinality(OpenExchanges) + protocol'["requestSent"]
    /\ protocol'["responseSent"] + Cardinality(OpenVisits)' + protocol["requestReceived"]
         <= protocol["responseSent"] + Cardinality(OpenVisits) + protocol'["requestReceived"]
    /\ \A r \in ServiceRows :
         service'[r].received + Cardinality(Owed(r))' + service[r].sent
           <= service[r].received + Cardinality(Owed(r)) + service'[r].sent
    /\ Cardinality(Underway)' + protocol["requestSent"]
         <= Cardinality(Underway) + protocol'["requestSent"]
    /\ Cardinality(Queued)' + protocol["responseReceived"]
         <= Cardinality(Queued) + protocol'["responseReceived"]
    /\ ServiceSent' + Cardinality(Underway)' + protocol["requestSent"]
         <= ServiceSent + Cardinality(Underway) + protocol'["requestSent"]
    /\ ServiceReceived' + Cardinality(Queued)' + protocol["responseReceived"]
         <= ServiceReceived + Cardinality(Queued) + protocol'["responseReceived"]

LEMMA NumbersNext ==
  ASSUME TypeOK'
  PROVE  /\ \A c \in Columns : protocol'[c] \in Nat
         /\ \A r \in ServiceRows : service'[r].sent \in Nat /\ service'[r].received \in Nat
         /\ ServiceSent' \in Nat /\ ServiceReceived' \in Nat
BY RowType DEF TypeOK, ServiceSent, ServiceReceived

LEMMA Kept ==
  ASSUME TypeOK, TypeOK', Balances, Upheld
  PROVE  Balances'
<1>1. OutBalance'
  BY Sizes, SizesNext, Numbers, NumbersNext, ColumnNames DEF Balances, OutBalance, Upheld
<1>2. InBalance'
  BY Sizes, SizesNext, Numbers, NumbersNext, ColumnNames DEF Balances, InBalance, Upheld
<1>3. RowBalance'
  <2> SUFFICES ASSUME NEW r \in ServiceRows
               PROVE  service'[r].received + Cardinality(Owed(r))'
                        <= service'[r].sent + carried'.service[r]
    BY DEF RowBalance
  <2>1. service[r].received + Cardinality(Owed(r)) <= service[r].sent + carried.service[r]
    BY DEF Balances, RowBalance
  <2>2. service'[r].received + Cardinality(Owed(r))' + service[r].sent
          <= service[r].received + Cardinality(Owed(r)) + service'[r].sent
        /\ carried' = carried
    BY DEF Upheld
  <2> QED
    BY <2>1, <2>2, Sizes, SizesNext, Numbers, NumbersNext
<1>4. SentRoom' /\ ReceivedRoom'
  BY Sizes, SizesNext, Numbers, NumbersNext, ColumnNames
  DEF Balances, SentRoom, ReceivedRoom, Upheld
<1>5. NoClearUnderway' <=> NoClearUnderway
  BY DEF NoClearUnderway, Upheld
<1>6. SentAgree'
  BY <1>5, Sizes, SizesNext, Numbers, NumbersNext, Totals, ColumnNames
  DEF Balances, SentAgree, Upheld
<1>7. ReceivedAgree'
  BY <1>5, Sizes, SizesNext, Numbers, NumbersNext, Totals, ColumnNames
  DEF Balances, ReceivedAgree, Upheld
<1> QED
  BY <1>1, <1>2, <1>3, <1>4, <1>6, <1>7 DEF Balances

\* What an exchange's sender and its reply change, each alone.
LEMMA CountRequestStep ==
  ASSUME Inv, TypeOK', NEW x \in Exchanges, CountRequest(x)
  PROVE  Coupled' /\ Upheld
<1>1. sending[x] = "ready" /\ sending' = [sending EXCEPT ![x] = "counted"] /\ reply' = reply
      /\ UNCHANGED <<visit, service, clearing, carried>>
  BY DEF CountRequest, Sending
<1>2. TypeOK /\ Coupled
  BY DEF Inv
<1>3. Coupled'
  BY <1>1, <1>2 DEF Coupled, TypeOK
<1>4. /\ OpenExchanges' \subseteq OpenExchanges \cup {x}
      /\ Underway' \subseteq Underway \cup {x}
      /\ OpenVisits' = OpenVisits /\ Queued' = Queued
      /\ \A r : Owed(r)' = Owed(r)
  BY <1>1, <1>2 DEF TypeOK, OpenExchanges, Underway, OpenVisits, Queued, Owed, Row
<1>5. /\ Cardinality(OpenExchanges)' <= Cardinality(OpenExchanges) + 1
      /\ Cardinality(Underway)' <= Cardinality(Underway) + 1
  BY <1>4, Sizes, Grows
<1>6. /\ protocol'["requestSent"] = protocol["requestSent"] + 1
      /\ \A c \in Columns : c # "requestSent" => protocol'[c] = protocol[c]
  BY <1>2, Counted, ColumnNames DEF CountRequest
<1>7. ServiceSent' = ServiceSent /\ ServiceReceived' = ServiceReceived
  BY <1>1 DEF ServiceSent, ServiceReceived
<1> QED
  BY <1>1, <1>2, <1>3, <1>4, <1>5, <1>6, <1>7, Sizes, SizesNext, Numbers, NumbersNext, Totals,
     ColumnNames DEF Upheld

LEMMA RequestLeavesStep ==
  ASSUME Inv, TypeOK', NEW x \in Exchanges, RequestLeaves(x)
  PROVE  Coupled' /\ Upheld
<1>1. /\ sending[x] = "counted" /\ sending' = [sending EXCEPT ![x] = "left"]
      /\ reply' = [reply EXCEPT ![x] = "awaited"]
      /\ UNCHANGED <<visit, protocol, service, clearing, carried>>
  BY DEF RequestLeaves, Sending
<1>2. TypeOK /\ Coupled
  BY DEF Inv
<1>3. reply[x] = "none"
  BY <1>1, <1>2 DEF Coupled
<1>4. Coupled'
  BY <1>1, <1>2 DEF Coupled, TypeOK
<1>5. /\ OpenExchanges' = OpenExchanges /\ Underway' = Underway
      /\ OpenVisits' = OpenVisits /\ Queued' = Queued
      /\ \A r : Owed(r)' = Owed(r)
  BY <1>1, <1>2, <1>3 DEF TypeOK, OpenExchanges, Underway, OpenVisits, Queued, Owed, Row
<1>6. ServiceSent' = ServiceSent /\ ServiceReceived' = ServiceReceived
  BY <1>1 DEF ServiceSent, ServiceReceived
<1>7. \A r \in ServiceRows :
        service'[r].received + Cardinality(Owed(r))' + service[r].sent
          <= service[r].received + Cardinality(Owed(r)) + service'[r].sent
  BY <1>1, <1>2, <1>5, Sizes, Numbers
<1> QED
  BY <1>1, <1>2, <1>4, <1>5, <1>6, <1>7, Sizes, Numbers, Totals, ColumnNames DEF Upheld

LEMMA SendFailsStep ==
  ASSUME Inv, TypeOK', NEW x \in Exchanges, SendFails(x)
  PROVE  Coupled' /\ Upheld
<1>1. /\ sending[x] = "counted" /\ sending' = [sending EXCEPT ![x] = "failed"]
      /\ UNCHANGED <<reply, visit, protocol, service, clearing, carried>>
  BY DEF SendFails, Sending
<1>2. TypeOK /\ Coupled
  BY DEF Inv
<1>3. Coupled'
  BY <1>1, <1>2 DEF Coupled, TypeOK
<1>4. /\ OpenExchanges' \subseteq OpenExchanges /\ Underway' \subseteq Underway
      /\ OpenVisits' = OpenVisits /\ Queued' = Queued
      /\ \A r : Owed(r)' = Owed(r)
  BY <1>1, <1>2 DEF TypeOK, OpenExchanges, Underway, OpenVisits, Queued, Owed, Row
<1>5. /\ Cardinality(OpenExchanges)' <= Cardinality(OpenExchanges)
      /\ Cardinality(Underway)' <= Cardinality(Underway)
  BY <1>4, Sizes, Within
<1>6. ServiceSent' = ServiceSent /\ ServiceReceived' = ServiceReceived
  BY <1>1 DEF ServiceSent, ServiceReceived
<1>7. \A r \in ServiceRows :
        service'[r].received + Cardinality(Owed(r))' + service[r].sent
          <= service[r].received + Cardinality(Owed(r)) + service'[r].sent
  BY <1>1, <1>2, <1>4, Sizes, Numbers
<1> QED
  BY <1>1, <1>2, <1>3, <1>4, <1>5, <1>6, <1>7, Sizes, SizesNext, Numbers, Totals, ColumnNames
  DEF Upheld

LEMMA CountSentStep ==
  ASSUME Inv, TypeOK', NEW x \in Exchanges, CountSent(x)
  PROVE  Coupled' /\ Upheld
<1>1. /\ sending[x] = "left" /\ sending' = [sending EXCEPT ![x] = "unlocked"]
      /\ service' = [service EXCEPT !["API01"].sent = @ + 1]
      /\ UNCHANGED <<reply, visit, protocol, clearing, carried>>
  BY DEF CountSent, Sending, Row
<1>2. TypeOK /\ Coupled
  BY DEF Inv
<1>3. Coupled'
  BY <1>1, <1>2 DEF Coupled, TypeOK
<1>4. /\ OpenExchanges' = OpenExchanges /\ x \in Underway /\ Underway' \subseteq Underway \ {x}
      /\ OpenVisits' = OpenVisits /\ Queued' = Queued
      /\ Owed("API01")' \subseteq Owed("API01") \cup {x}
      /\ \A r : r # "API01" => Owed(r)' = Owed(r)
  BY <1>1, <1>2 DEF TypeOK, OpenExchanges, Underway, OpenVisits, Queued, Owed, Row
<1>5. /\ Cardinality(Underway)' + 1 <= Cardinality(Underway)
      /\ Cardinality(Owed("API01"))' <= Cardinality(Owed("API01")) + 1
  BY <1>4, Sizes, Shrinks, Grows
<1>6. /\ service'["API01"].sent = service["API01"].sent + 1
      /\ service'["API01"].received = service["API01"].received
      /\ \A r \in ServiceRows : r # "API01" => service'[r] = service[r]
  BY <1>1, <1>2, RowType DEF TypeOK
<1>7. ServiceSent' = ServiceSent + 1 /\ ServiceReceived' = ServiceReceived
  BY <1>2, <1>6, RowType, Numbers DEF ServiceSent, ServiceReceived
<1>8. ASSUME NEW r \in ServiceRows
      PROVE  service'[r].received + Cardinality(Owed(r))' + service[r].sent
               <= service[r].received + Cardinality(Owed(r)) + service'[r].sent
  <2>1. CASE r = "API01"
    BY <1>2, <1>5, <1>6, <2>1, RowType, Sizes, SizesNext, Numbers, NumbersNext
  <2>2. CASE r # "API01"
    BY <1>2, <1>4, <1>6, <2>2, Sizes, Numbers
  <2> QED
    BY <2>1, <2>2
<1> QED
  BY <1>1, <1>2, <1>3, <1>4, <1>5, <1>7, <1>8, Sizes, SizesNext, Numbers, Totals, ColumnNames
  DEF Upheld

LEMMA CountResponseStep ==
  ASSUME Inv, TypeOK', NEW x \in Exchanges, CountResponse(x)
  PROVE  Coupled' /\ Upheld
<1>1. reply[x] = "awaited" /\ reply' = [reply EXCEPT ![x] = "queued"]
      /\ UNCHANGED <<sending, visit, service, clearing, carried>>
  BY DEF CountResponse, Replying
<1>2. TypeOK /\ Coupled
  BY DEF Inv
<1>3. sending[x] # "counted"
  BY <1>1, <1>2 DEF Coupled
<1>4. Coupled'
  BY <1>1, <1>2 DEF Coupled, TypeOK
<1>5. /\ x \in OpenExchanges /\ OpenExchanges' \subseteq OpenExchanges \ {x}
      /\ Queued' \subseteq Queued \cup {x}
      /\ OpenVisits' = OpenVisits /\ Underway' = Underway
      /\ \A r : Owed(r)' = Owed(r)
  BY <1>1, <1>2, <1>3 DEF TypeOK, OpenExchanges, Underway, OpenVisits, Queued, Owed, Row
<1>6. /\ Cardinality(OpenExchanges)' + 1 <= Cardinality(OpenExchanges)
      /\ Cardinality(Queued)' <= Cardinality(Queued) + 1
  BY <1>5, Sizes, Shrinks, Grows
<1>7. /\ protocol'["responseReceived"] = protocol["responseReceived"] + 1
      /\ \A c \in Columns : c # "responseReceived" => protocol'[c] = protocol[c]
  BY <1>2, Counted, ColumnNames DEF CountResponse
<1>8. ServiceSent' = ServiceSent /\ ServiceReceived' = ServiceReceived
  BY <1>1 DEF ServiceSent, ServiceReceived
<1> QED
  BY <1>1, <1>2, <1>4, <1>5, <1>6, <1>7, <1>8, Sizes, SizesNext, Numbers, NumbersNext, Totals,
     ColumnNames DEF Upheld
LEMMA NoReplyStep ==
  ASSUME Inv, TypeOK', NEW x \in Exchanges, NoReply(x)
  PROVE  Coupled' /\ Upheld
<1>1. reply[x] = "awaited" /\ reply' = [reply EXCEPT ![x] = "ended"]
      /\ UNCHANGED <<sending, visit, protocol, service, clearing, carried>>
  BY DEF NoReply, Replying
<1>2. TypeOK /\ Coupled
  BY DEF Inv
<1>3. Coupled'
  BY <1>1, <1>2 DEF Coupled, TypeOK
<1>4. /\ OpenExchanges' \subseteq OpenExchanges /\ Underway' = Underway
      /\ OpenVisits' = OpenVisits /\ Queued' = Queued
      /\ \A r : Owed(r)' \subseteq Owed(r)
  BY <1>1, <1>2 DEF TypeOK, OpenExchanges, Underway, OpenVisits, Queued, Owed, Row
<1>5. /\ Cardinality(OpenExchanges)' <= Cardinality(OpenExchanges)
      /\ \A r : Cardinality(Owed(r))' <= Cardinality(Owed(r))
  BY <1>4, Sizes, Within
<1>6. ServiceSent' = ServiceSent /\ ServiceReceived' = ServiceReceived
  BY <1>1 DEF ServiceSent, ServiceReceived
<1>7. \A r \in ServiceRows :
        service'[r].received + Cardinality(Owed(r))' + service[r].sent
          <= service[r].received + Cardinality(Owed(r)) + service'[r].sent
  BY <1>1, <1>2, <1>5, Sizes, SizesNext, Numbers
<1> QED
  BY <1>1, <1>2, <1>3, <1>4, <1>5, <1>6, <1>7, Sizes, SizesNext, Numbers, Totals, ColumnNames
  DEF Upheld

LEMMA ReplyTooLateStep ==
  ASSUME Inv, TypeOK', NEW x \in Exchanges, ReplyTooLate(x)
  PROVE  Coupled' /\ Upheld
<1>1. reply[x] = "queued" /\ reply' = [reply EXCEPT ![x] = "ended"]
      /\ UNCHANGED <<sending, visit, protocol, service, clearing, carried>>
  BY DEF ReplyTooLate, Replying
<1>2. TypeOK /\ Coupled
  BY DEF Inv
<1>3. Coupled'
  BY <1>1, <1>2 DEF Coupled, TypeOK
<1>4. /\ OpenExchanges' = OpenExchanges /\ Underway' = Underway
      /\ OpenVisits' = OpenVisits /\ Queued' \subseteq Queued
      /\ \A r : Owed(r)' \subseteq Owed(r)
  BY <1>1, <1>2 DEF TypeOK, OpenExchanges, Underway, OpenVisits, Queued, Owed, Row
<1>5. /\ Cardinality(Queued)' <= Cardinality(Queued)
      /\ \A r : Cardinality(Owed(r))' <= Cardinality(Owed(r))
  BY <1>4, Sizes, Within
<1>6. ServiceSent' = ServiceSent /\ ServiceReceived' = ServiceReceived
  BY <1>1 DEF ServiceSent, ServiceReceived
<1>7. \A r \in ServiceRows :
        service'[r].received + Cardinality(Owed(r))' + service[r].sent
          <= service[r].received + Cardinality(Owed(r)) + service'[r].sent
  BY <1>1, <1>2, <1>5, Sizes, SizesNext, Numbers
<1> QED
  BY <1>1, <1>2, <1>3, <1>4, <1>5, <1>6, <1>7, Sizes, SizesNext, Numbers, Totals, ColumnNames
  DEF Upheld

\* Here the session's lock is needed: the reply's request is among those owed.
LEMMA CountReceivedStep ==
  ASSUME Inv, TypeOK', NEW x \in Exchanges, CountReceived(x)
  PROVE  Coupled' /\ Upheld
<1>1. /\ sending[x] = "unlocked" /\ reply[x] = "queued"
      /\ reply' = [reply EXCEPT ![x] = "ended"]
      /\ service' = [service EXCEPT !["API01"].received = @ + 1]
      /\ UNCHANGED <<sending, visit, protocol, clearing, carried>>
  BY DEF CountReceived, LockFree, Replying, Row
<1>2. TypeOK /\ Coupled
  BY DEF Inv
<1>3. Coupled'
  BY <1>1, <1>2 DEF Coupled, TypeOK
<1>4. /\ OpenExchanges' = OpenExchanges /\ Underway' = Underway /\ OpenVisits' = OpenVisits
      /\ x \in Queued /\ Queued' \subseteq Queued \ {x}
      /\ x \in Owed("API01") /\ Owed("API01")' \subseteq Owed("API01") \ {x}
      /\ \A r : r # "API01" => Owed(r)' = Owed(r)
  BY <1>1, <1>2 DEF TypeOK, OpenExchanges, Underway, OpenVisits, Queued, Owed, Row
<1>5. /\ Cardinality(Queued)' + 1 <= Cardinality(Queued)
      /\ Cardinality(Owed("API01"))' + 1 <= Cardinality(Owed("API01"))
  BY <1>4, Sizes, Shrinks
<1>6. /\ service'["API01"].received = service["API01"].received + 1
      /\ service'["API01"].sent = service["API01"].sent
      /\ \A r \in ServiceRows : r # "API01" => service'[r] = service[r]
  BY <1>1, <1>2, RowType DEF TypeOK
<1>7. ServiceSent' = ServiceSent /\ ServiceReceived' = ServiceReceived + 1
  BY <1>2, <1>6, RowType, Numbers DEF ServiceSent, ServiceReceived
<1>8. ASSUME NEW r \in ServiceRows
      PROVE  service'[r].received + Cardinality(Owed(r))' + service[r].sent
               <= service[r].received + Cardinality(Owed(r)) + service'[r].sent
  <2>1. CASE r = "API01"
    BY <1>2, <1>5, <1>6, <2>1, RowType, Sizes, SizesNext, Numbers, NumbersNext
  <2>2. CASE r # "API01"
    BY <1>2, <1>4, <1>6, <2>2, Sizes, Numbers
  <2> QED
    BY <2>1, <2>2
<1> QED
  BY <1>1, <1>2, <1>3, <1>4, <1>5, <1>7, <1>8, Sizes, SizesNext, Numbers, Totals, ColumnNames
  DEF Upheld

LEMMA VisitStep ==
  ASSUME Inv, TypeOK', NEW v \in Visits, ReceiveRequest(v) \/ SendResponse(v)
  PROVE  Coupled' /\ Upheld
<1>1. UNCHANGED <<sending, reply, service, clearing, carried>>
  BY DEF ReceiveRequest, SendResponse
<1>2. TypeOK /\ Coupled
  BY DEF Inv
<1>3. Coupled'
  BY <1>1, <1>2 DEF Coupled
<1>4. /\ OpenExchanges' = OpenExchanges /\ Underway' = Underway /\ Queued' = Queued
      /\ \A r : Owed(r)' = Owed(r)
  BY <1>1 DEF OpenExchanges, Underway, Queued, Owed, Row
<1>5. protocol'["responseSent"] + Cardinality(OpenVisits)' + protocol["requestReceived"]
        <= protocol["responseSent"] + Cardinality(OpenVisits) + protocol'["requestReceived"]
  <2>1. CASE ReceiveRequest(v)
    <3>1. OpenVisits' \subseteq OpenVisits \cup {v}
      BY <1>2, <2>1 DEF ReceiveRequest, OpenVisits, TypeOK
    <3>2. Cardinality(OpenVisits)' <= Cardinality(OpenVisits) + 1
      BY <3>1, Sizes, Grows
    <3>3. /\ protocol'["requestReceived"] = protocol["requestReceived"] + 1
          /\ protocol'["responseSent"] = protocol["responseSent"]
      BY <1>2, <2>1, Counted, ColumnNames DEF ReceiveRequest
    <3> QED
      BY <1>2, <3>2, <3>3, Sizes, SizesNext, Numbers, ColumnNames
  <2>2. CASE SendResponse(v)
    <3>1. v \in OpenVisits /\ OpenVisits' \subseteq OpenVisits \ {v}
      BY <1>2, <2>2 DEF SendResponse, OpenVisits, TypeOK
    <3>2. Cardinality(OpenVisits)' + 1 <= Cardinality(OpenVisits)
      BY <3>1, Sizes, Shrinks
    <3>3. /\ protocol'["responseSent"] = protocol["responseSent"] + 1
          /\ protocol'["requestReceived"] = protocol["requestReceived"]
      BY <1>2, <2>2, Counted, ColumnNames DEF SendResponse
    <3> QED
      BY <1>2, <3>2, <3>3, Sizes, SizesNext, Numbers, ColumnNames
  <2> QED
    BY <2>1, <2>2
<1>6. /\ protocol'["requestSent"] = protocol["requestSent"]
      /\ protocol'["responseReceived"] = protocol["responseReceived"]
  BY <1>2, Counted, ColumnNames DEF ReceiveRequest, SendResponse
<1>7. ServiceSent' = ServiceSent /\ ServiceReceived' = ServiceReceived
  BY <1>1 DEF ServiceSent, ServiceReceived
<1>8. \A r \in ServiceRows :
        service'[r].received + Cardinality(Owed(r))' + service[r].sent
          <= service[r].received + Cardinality(Owed(r)) + service'[r].sent
  BY <1>1, <1>2, <1>4, Sizes, Numbers
<1> QED
  BY <1>1, <1>2, <1>3, <1>4, <1>5, <1>6, <1>7, <1>8, Sizes, SizesNext, Numbers, Totals,
     ColumnNames DEF Upheld

\* Clearing one table records what is open; clearing the second finds the room
\* the first one left.
LEMMA ClearReportsStep ==
  ASSUME Inv, TypeOK', NEW k \in Consoles, ClearReports(k)
  PROVE  Coupled' /\ Balances'
<1>1. TypeOK /\ Coupled /\ Balances
  BY DEF Inv
<1>2. UNCHANGED <<sending, reply, visit>>
  BY <1>1, ClearSteps
<1>3. Coupled'
  BY <1>1, <1>2 DEF Coupled
<1>4. /\ OpenExchanges' = OpenExchanges /\ Underway' = Underway /\ Queued' = Queued
      /\ OpenVisits' = OpenVisits
      /\ \A r : Owed(r)' = Owed(r)
  BY <1>2 DEF OpenExchanges, Underway, Queued, OpenVisits, Owed, Row
<1>5. CASE clearing' = [clearing EXCEPT ![k] = 1] /\ ClearProtocol
  <2>1. \A c \in Columns : protocol'[c] = 0
    BY <1>5 DEF ClearProtocol, EmptyProtocol
  <2>2. /\ carried'.out = Cardinality(OpenExchanges) /\ carried'.in = Cardinality(OpenVisits)
        /\ carried'.counted = Cardinality(Underway) /\ carried'.queued = Cardinality(Queued)
        /\ carried'.service = carried.service /\ service' = service
    BY <1>1, <1>5 DEF ClearProtocol, TypeOK
  <2>3. OutBalance' /\ InBalance' /\ SentRoom' /\ ReceivedRoom'
    BY <1>4, <2>1, <2>2, Sizes, ColumnNames
    DEF OutBalance, InBalance, SentRoom, ReceivedRoom
  <2>4. RowBalance'
    BY <1>1, <1>4, <2>2 DEF Balances, RowBalance
  <2>5. ~ NoClearUnderway'
    BY <1>1, <1>5 DEF NoClearUnderway, TypeOK
  <2>6. SentAgree' /\ ReceivedAgree'
    BY <2>5 DEF SentAgree, ReceivedAgree
  <2> QED
    BY <1>3, <2>3, <2>4, <2>6 DEF Balances
<1>6. CASE clearing' = [clearing EXCEPT ![k] = 0] /\ ClearService
  <2>1. /\ \A r \in ServiceRows : /\ service'[r].sent = 0 /\ service'[r].received = 0
                                 /\ carried'.service[r] = Cardinality(Owed(r))
        /\ carried'.out = carried.out /\ carried'.in = carried.in
        /\ carried'.counted = carried.counted /\ carried'.queued = carried.queued
        /\ protocol' = protocol
    BY <1>1, <1>6 DEF ClearService, EmptyService, TypeOK
  <2>2. OutBalance' /\ InBalance' /\ SentRoom' /\ ReceivedRoom'
    BY <1>1, <1>4, <2>1 DEF Balances, OutBalance, InBalance, SentRoom, ReceivedRoom
  <2>3. RowBalance'
    <3> SUFFICES ASSUME NEW r \in ServiceRows
                 PROVE  service'[r].received + Cardinality(Owed(r))'
                          <= service'[r].sent + carried'.service[r]
      BY DEF RowBalance
    <3> QED
      BY <1>4, <2>1, Sizes
  <2>4. ServiceSent' = 0 /\ ServiceReceived' = 0
    BY <2>1, RowType DEF ServiceSent, ServiceReceived
  <2>5. SentAgree' /\ ReceivedAgree'
    BY <1>1, <2>2, <2>4, SizesNext DEF SentRoom, ReceivedRoom, SentAgree, ReceivedAgree
  <2> QED
    BY <1>3, <2>2, <2>3, <2>5 DEF Balances
<1> QED
  BY <1>1, <1>5, <1>6, ClearSteps

LEMMA Step == Inv /\ [Next]_vars => Inv'
<1> SUFFICES ASSUME Inv, [Next]_vars PROVE Inv'
  OBVIOUS
<1>1. TypeOK'
  BY TypeStep DEF Inv
<1>2. ASSUME Coupled' /\ Upheld PROVE Inv'
  BY <1>1, <1>2, Kept DEF Inv
<1>3. ASSUME NEW x \in Exchanges,
             CountRequest(x) \/ RequestLeaves(x) \/ SendFails(x) \/ CountSent(x)
      PROVE  Inv'
  BY <1>1, <1>2, <1>3, CountRequestStep, RequestLeavesStep, SendFailsStep, CountSentStep
<1>4. ASSUME NEW x \in Exchanges,
             CountResponse(x) \/ NoReply(x) \/ CountReceived(x) \/ ReplyTooLate(x)
      PROVE  Inv'
  BY <1>1, <1>2, <1>4, CountResponseStep, NoReplyStep, CountReceivedStep, ReplyTooLateStep
<1>5. ASSUME NEW v \in Visits, ReceiveRequest(v) \/ SendResponse(v) PROVE Inv'
  BY <1>1, <1>2, <1>5, VisitStep
<1>6. ASSUME NEW k \in Consoles, ClearReports(k) PROVE Inv'
  BY <1>1, <1>6, ClearReportsStep DEF Inv
<1>7. ASSUME UNCHANGED vars PROVE Inv'
  BY <1>7 DEF vars, Inv, TypeOK, Coupled, Balances, OutBalance, InBalance, RowBalance, SentRoom,
     ReceivedRoom, SentAgree, ReceivedAgree, NoClearUnderway, ServiceSent, ServiceReceived,
     OpenExchanges, OpenVisits, Underway, Queued, Owed
<1> QED
  BY <1>3, <1>4, <1>5, <1>6, <1>7 DEF Next

LEMMA InvImplies == Inv => ResponsesExplained /\ TablesAgree
<1> SUFFICES ASSUME Inv PROVE ResponsesExplained /\ TablesAgree
  OBVIOUS
<1>1. TypeOK /\ Balances
  BY DEF Inv
<1>2. /\ protocol["responseReceived"] <= protocol["requestSent"] + carried.out
      /\ protocol["responseSent"] <= protocol["requestReceived"] + carried.in
  BY <1>1, Sizes, Numbers, ColumnNames DEF Balances, OutBalance, InBalance
<1>3. ASSUME NEW r \in ServiceRows
      PROVE  service[r].received <= service[r].sent + carried.service[r]
  <2>1. service[r].received + Cardinality(Owed(r)) <= service[r].sent + carried.service[r]
    BY <1>1 DEF Balances, RowBalance
  <2> QED
    BY <1>1, <2>1, Sizes, Numbers
<1>4. TablesAgree
  BY <1>1, Sizes, Numbers, Totals, ColumnNames
  DEF Balances, SentAgree, ReceivedAgree, NoClearUnderway, TablesAgree
<1> QED
  BY <1>2, <1>3, <1>4 DEF ResponsesExplained

\* However many threads count and consoles clear, the responses a table shows are
\* explained by its requests and by those open when it was last cleared.
THEOREM Explained == Spec => []ResponsesExplained
<1>1. Init => Inv
  BY InitInv
<1> QED
  BY <1>1, Step, InvImplies, PTL DEF Spec

\* With no CLR-REPT half done, the service table shows nothing that the protocol
\* table does not.
THEOREM Agreement == Spec => []TablesAgree
<1>1. Init => Inv
  BY InitInv
<1> QED
  BY <1>1, Step, InvImplies, PTL DEF Spec

=============================================================================
