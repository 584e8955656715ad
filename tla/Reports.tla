------------------------------- MODULE Reports --------------------------------
(***************************************************************************)
(* What RTRV-REPT and SCHED-REPT show: ih::Statistics (main/statistics.cpp), *)
(* and the places that count.  A request of ours is counted in the protocol  *)
(* table before it leaves (main/http1_api.cpp:126) and in the service table  *)
(* after it left (tum/fsm_api_*.cpp), its reply in the protocol table by the *)
(* thread that receives it and in the service table by the worker that       *)
(* delivers it.  Between any two of these a console may give CLR-REPT, which *)
(* clears the two tables one after the other and takes no lock.              *)
(*                                                                         *)
(* A table is an object of the library; one count, and the clearing of one   *)
(* table, are taken to be one step.  protocol::code knows only the method    *)
(* "PUSH", which no HTTP message has: all counts fall into one protocol row. *)
(***************************************************************************)
EXTENDS Integers, FiniteSets

CONSTANTS
    Exchanges,  \* requests the transactions send, each with its reply
    Visits,     \* requests that arrive from outside
    Consoles,   \* command line sessions
    MaxClears   \* bound: CLR-REPTs given

ASSUME SetsAssumption == IsFiniteSet(Exchanges) /\ IsFiniteSet(Visits)

ASSUME MaxClearsAssumption == MaxClears \in Nat

VARIABLES
    sending,   \* [Exchanges -> how far the sender got]
    reply,     \* [Exchanges -> where the reply is]
    visit,     \* [Visits -> whether the request is here, answered]
    protocol,  \* Statistics::protocol_stat_
    service,   \* Statistics::service_stat_
    clearing,  \* [Consoles -> tables this console's CLR-REPT has cleared]
    clears,    \* CLR-REPTs given so far
    carried    \* auxiliary: what was under way when a table was last cleared

vars == <<sending, reply, visit, protocol, service, clearing, clears, carried>>

-----------------------------------------------------------------------------
(* The tables. *)

Columns == {"requestSent", "responseReceived", "requestReceived", "responseSent"}

ServiceRows == {"API01", "API02"}

EmptyProtocol == [c \in Columns |-> 0]
EmptyService == [r \in ServiceRows |-> [sent |-> 0, received |-> 0]]

\* FsmApi1 and FsmApi2 both count under API01: the row API02 stays empty.
Row(x) == "API01"

StatProtocol(column) == protocol' = [protocol EXCEPT ![column] = @ + 1]

ServiceSent == service["API01"].sent + service["API02"].sent
ServiceReceived == service["API01"].received + service["API02"].received

Init ==
    /\ sending = [x \in Exchanges |-> "ready"]
    /\ reply = [x \in Exchanges |-> "none"]
    /\ visit = [v \in Visits |-> "away"]
    /\ protocol = EmptyProtocol
    /\ service = EmptyService
    /\ clearing = [k \in Consoles |-> 0]
    /\ clears = 0
    /\ carried = [out |-> 0, in |-> 0, counted |-> 0, queued |-> 0,
                  service |-> [r \in ServiceRows |-> 0]]

-----------------------------------------------------------------------------
(* A transaction sends its request (SendRequest, Http1Api::Send). *)

Sending(x, from, to) == sending[x] = from /\ sending' = [sending EXCEPT ![x] = to]

CountRequest(x) ==
    /\ Sending(x, "ready", "counted")
    /\ StatProtocol("requestSent")
    /\ UNCHANGED <<reply, visit, service, clearing, clears, carried>>

\* The request leaves; from now on its reply may come.
RequestLeaves(x) ==
    /\ Sending(x, "counted", "left")
    /\ reply' = [reply EXCEPT ![x] = "awaited"]
    /\ UNCHANGED <<visit, protocol, service, clearing, clears, carried>>

\* Mutation: a send that fails takes its count back.
SendFailsUncounted(x) ==
    /\ Sending(x, "counted", "failed")
    /\ protocol' = [protocol EXCEPT !["requestSent"] = @ - 1]
    /\ UNCHANGED <<reply, visit, service, clearing, clears, carried>>

\* No connection, or the library refuses: the transaction ends uncounted.
SendFails(x) ==
    /\ Sending(x, "counted", "failed")
    /\ UNCHANGED <<reply, visit, protocol, service, clearing, clears, carried>>

\* StatService(send); only then is the session's lock released.
CountSent(x) ==
    /\ Sending(x, "left", "unlocked")
    /\ service' = [service EXCEPT ![Row(x)].sent = @ + 1]
    /\ UNCHANGED <<reply, visit, protocol, clearing, clears, carried>>

-----------------------------------------------------------------------------
(* Its reply. *)

Replying(x, from, to) == reply[x] = from /\ reply' = [reply EXCEPT ![x] = to]

\* Http1Api::OnReceive counts before the session is looked for.
CountResponse(x) ==
    /\ Replying(x, "awaited", "queued")
    /\ StatProtocol("responseReceived")
    /\ UNCHANGED <<sending, visit, service, clearing, clears, carried>>

\* The request was lost, or never answered.
NoReply(x) ==
    /\ Replying(x, "awaited", "ended")
    /\ UNCHANGED <<sending, visit, protocol, service, clearing, clears, carried>>

\* Mutation: the reply is delivered without the session's lock.
LockFreeAlways(x) == TRUE

\* ih::Session::lock_ is free: the sender is not between sending and counting.
LockFree(x) == sending[x] = "unlocked"

\* ProcessHttpResponse.
CountReceived(x) ==
    /\ LockFree(x)
    /\ Replying(x, "queued", "ended")
    /\ service' = [service EXCEPT ![Row(x)].received = @ + 1]
    /\ UNCHANGED <<sending, visit, protocol, clearing, clears, carried>>

\* A timer ended the transaction first: the reply finds no session.
ReplyTooLate(x) ==
    /\ LockFree(x)
    /\ Replying(x, "queued", "ended")
    /\ UNCHANGED <<sending, visit, protocol, service, clearing, clears, carried>>

-----------------------------------------------------------------------------
(* A client's request, and the 200 or 500 it is answered. *)

ReceiveRequest(v) ==
    /\ visit[v] = "away"
    /\ visit' = [visit EXCEPT ![v] = "open"]
    /\ StatProtocol("requestReceived")
    /\ UNCHANGED <<sending, reply, service, clearing, clears, carried>>

SendResponse(v) ==
    /\ visit[v] = "open"
    /\ visit' = [visit EXCEPT ![v] = "answered"]
    /\ StatProtocol("responseSent")
    /\ UNCHANGED <<sending, reply, service, clearing, clears, carried>>

-----------------------------------------------------------------------------
(* CLR-REPT. *)

\* Counted in the protocol table, and a response may still be.
OpenExchanges ==
    {x \in Exchanges : sending[x] = "counted" \/ reply[x] = "awaited"}

OpenVisits == {v \in Visits : visit[v] = "open"}

\* Counted in the protocol table, and in the service table not yet.
Underway == {x \in Exchanges : sending[x] \in {"counted", "left"}}
Queued == {x \in Exchanges : reply[x] = "queued"}

\* Counted as sent in row r, and its reply not yet.
Owed(r) ==
    {x \in Exchanges : Row(x) = r /\ sending[x] = "unlocked" /\ reply[x] # "ended"}

ClearProtocol ==
    /\ protocol' = EmptyProtocol
    /\ carried' = [carried EXCEPT
         !.out = Cardinality(OpenExchanges), !.in = Cardinality(OpenVisits),
         !.counted = Cardinality(Underway), !.queued = Cardinality(Queued)]
    /\ UNCHANGED service

ClearService ==
    /\ service' = EmptyService
    /\ carried' = [carried EXCEPT !.service = [r \in ServiceRows |-> Cardinality(Owed(r))]]
    /\ UNCHANGED protocol

\* Mutation: the service table first.
ServiceFirst == <<"service", "protocol">>

\* The order in which Statistics::Clear goes through the tables.
ClearOrder == <<"protocol", "service">>

\* One table per step: the worker threads, and other consoles, go on between.
ClearReports(k) ==
    LET done == clearing[k]
        table == ClearOrder[done + 1]
    IN  /\ \/ done = 0 /\ clears < MaxClears /\ clears' = clears + 1
           \/ done # 0 /\ clears' = clears
        /\ clearing' = [clearing EXCEPT ![k] = (done + 1) % 2]
        /\ IF table = "protocol" THEN ClearProtocol ELSE ClearService
        /\ UNCHANGED <<sending, reply, visit>>

-----------------------------------------------------------------------------
Next ==
    \/ \E x \in Exchanges :
         \/ CountRequest(x) \/ RequestLeaves(x) \/ SendFails(x) \/ CountSent(x)
         \/ CountResponse(x) \/ NoReply(x) \/ CountReceived(x) \/ ReplyTooLate(x)
    \/ \E v \in Visits : ReceiveRequest(v) \/ SendResponse(v)
    \/ \E k \in Consoles : ClearReports(k)

Spec == Init /\ [][Next]_vars

-----------------------------------------------------------------------------
(* Correctness. *)

TypeOK ==
    /\ sending \in [Exchanges -> {"ready", "counted", "left", "failed", "unlocked"}]
    /\ reply \in [Exchanges -> {"none", "awaited", "queued", "ended"}]
    /\ visit \in [Visits -> {"away", "open", "answered"}]
    /\ protocol \in [Columns -> Nat]
    /\ service \in [ServiceRows -> [sent : Nat, received : Nat]]
    /\ clearing \in [Consoles -> {0, 1}]
    /\ clears \in 0..MaxClears
    /\ carried \in [out : Nat, in : Nat, counted : Nat, queued : Nat,
                    service : [ServiceRows -> Nat]]

\* Whenever a table is shown, its responses are explained by the requests it
\* shows and by those that were open when it was last cleared, although every
\* count is made by another thread and CLR-REPT (cli.cpp:1151-1159) stops none.
ResponsesExplained ==
    /\ protocol["responseReceived"] <= protocol["requestSent"] + carried.out
    /\ protocol["responseSent"] <= protocol["requestReceived"] + carried.in
    /\ \A r \in ServiceRows : service[r].received <= service[r].sent + carried.service[r]

\* Two reports taken one after the other do not contradict each other: what the
\* service table shows the protocol table shows too, but for what was between
\* its two counts when the protocol table was cleared, because each message is
\* counted there first and CLR-REPT clears that table first (statistics.cpp:125).
TablesAgree ==
    (\A k \in Consoles : clearing[k] = 0) =>
        /\ ServiceSent <= protocol["requestSent"] + carried.counted
        /\ ServiceReceived <= protocol["responseReceived"] + carried.queued

=============================================================================
