----------------------------- MODULE UdpRequest -----------------------------
(***************************************************************************)
(* UDPRequest: requests to the SCP over UDP, numbered, answered by         *)
(* datagrams of the same number, sent again when the answer is late.  Its  *)
(* owner sends requests and polls:                                         *)
(*     update(); while (recv()) { handle the reply or the timeout }        *)
(* The service is the one of services/udp_server.py.                       *)
(*                                                                         *)
(* Time is counted in seconds, as time() does; instead of the deadline of  *)
(* a request the model keeps the seconds since it was last sent.           *)
(***************************************************************************)
EXTENDS Naturals, FiniteSets

CONSTANTS
    MAX_REQUEST_COUNT,
    sendAttempts,
    sendTimeout,
    MaxSends,       \* bound: requests the owner makes
    RoundTrip,      \* seconds, at most, until the reply to a datagram can be read
    MaxCycle,       \* bound: seconds that may begin while the owner polls once
    MaxLost         \* bound: datagrams that are lost

ASSUME UdpAssumption ==
    /\ MAX_REQUEST_COUNT \in Nat \ {0}
    /\ sendAttempts \in Nat \ {0} /\ sendTimeout \in Nat
    /\ MaxSends \in Nat /\ RoundTrip \in Nat /\ MaxCycle \in Nat /\ MaxLost \in Nat

VARIABLES
    requests,           \* the array of requests
    socketProcessed, currentReqIndex,
    at,                 \* where the owner is: "outside" a poll, "between" two
                        \* recv calls of it, or recv is "looping"
    sent,               \* requests made so far
    net,                \* datagrams on the way, or waiting in the socket
    cycle,              \* seconds that have begun during this poll
    lost,               \* datagrams lost so far
    report              \* what recv last returned

ownVars == <<requests, socketProcessed, currentReqIndex, at, sent, report>>
vars    == <<ownVars, net, cycle, lost>>

ReqID   == 0..(MAX_REQUEST_COUNT - 1)
Tag     == 1..MaxSends          \* stands for the data of a request
NoTag   == 0
Waited  == 0..(sendTimeout + 1) \* more seconds make no difference

Request  == [isActive : BOOLEAN, tag : Tag \cup {NoTag}, attemptNum : 0..sendAttempts,
             waited : Waited]
Datagram == [to : {"server", "client"}, id : ReqID, tag : Tag, attempt : 1..sendAttempts,
             age : 0..RoundTrip]
Report   == [id : ReqID, tag : Tag, kind : {"reply", "timeout"}]
NoReport == [id |-> 0, tag |-> NoTag, kind |-> "none"]

\* Every variable keeps its type; a request that is active has been sent.
TypeOK ==
    /\ requests \in [ReqID -> Request]
    /\ \A i \in ReqID : requests[i].isActive => requests[i].tag \in 1..sent
    /\ socketProcessed \in BOOLEAN
    /\ currentReqIndex \in 0..MAX_REQUEST_COUNT
    /\ at \in {"outside", "between", "looping"}
    /\ at = "looping" => socketProcessed
    /\ sent \in 0..MaxSends
    /\ net \subseteq Datagram
    /\ \A m \in net : m.tag <= sent
    /\ cycle \in 0..MaxCycle
    /\ lost \in 0..MaxLost
    /\ report \in Report \cup {NoReport}

Init ==
    /\ requests = [i \in ReqID |->
           [isActive |-> FALSE, tag |-> NoTag, attemptNum |-> 0, waited |-> 0]]
    /\ socketProcessed = FALSE
    /\ currentReqIndex = 0
    /\ at = "outside"
    /\ sent = 0
    /\ net = {}
    /\ cycle = 0
    /\ lost = 0
    /\ report = NoReport

-----------------------------------------------------------------------------
(* The owner's calls. *)

Sending(i, t, n) ==
    net' = net \cup {[to |-> "server", id |-> i, tag |-> t, attempt |-> n, age |-> 0]}

\* send(req_id, data, len): refused while a request of that number is active.
send(i) ==
    /\ at # "looping"
    /\ ~requests[i].isActive
    /\ sent < MaxSends
    /\ sent' = sent + 1
    /\ requests' = [requests EXCEPT
           ![i] = [isActive |-> TRUE, tag |-> sent + 1, attemptNum |-> 1, waited |-> 0]]
    /\ Sending(i, sent + 1, 1)
    /\ UNCHANGED <<socketProcessed, currentReqIndex, at, cycle, lost, report>>

\* (variant) The index stays at the end of the array.
updateSocketOnly ==
    /\ at = "outside" /\ at' = "between"
    /\ socketProcessed' = FALSE
    /\ cycle' = 0
    /\ UNCHANGED <<requests, currentReqIndex, sent, net, lost, report>>

update ==
    /\ at = "outside" /\ at' = "between"
    /\ socketProcessed' = FALSE
    /\ currentReqIndex' = 0
    /\ cycle' = 0
    /\ UNCHANGED <<requests, sent, net, lost, report>>

-----------------------------------------------------------------------------
(* recv, in its parts. *)

\* (variant) The request stays active.
NotClosed(i) == UNCHANGED requests

Closed(i) == requests' = [requests EXCEPT ![i].isActive = FALSE]

\* tryReceiveFromSocket succeeds.  Whether a request of that number is active,
\* and which, is not looked at.
ReceiveReply(m) ==
    /\ at = "between" /\ ~socketProcessed
    /\ m.to = "client"
    /\ net' = net \ {m}
    /\ Closed(m.id)
    /\ report' = [id |-> m.id, tag |-> m.tag, kind |-> "reply"]
    /\ UNCHANGED <<socketProcessed, currentReqIndex, at, sent, cycle, lost>>

\* It fails: nothing can be read, for the socket is empty or has an error to
\* report first (a reply behind one is a reply that can be read later).
SocketDone ==
    /\ at = "between" /\ ~socketProcessed
    /\ \A m \in net : m.to # "client"
    /\ socketProcessed' = TRUE
    /\ at' = "looping"
    /\ UNCHANGED <<requests, currentReqIndex, sent, net, cycle, lost, report>>

\* A recv after the one that emptied the socket.
RecvAgain ==
    /\ at = "between" /\ socketProcessed
    /\ at' = "looping"
    /\ UNCHANGED <<requests, socketProcessed, currentReqIndex, sent, net, cycle, lost, report>>

\* (variants) deadline <= time(NULL); time(NULL) < deadline.
ExpiredAtOnce(i) == requests[i].isActive /\ requests[i].waited >= sendTimeout

NotExpired(i) == requests[i].isActive /\ requests[i].waited < sendTimeout

\* deadline < time(NULL).
Expired(i) == requests[i].isActive /\ requests[i].waited > sendTimeout

Looking(i) == at = "looping" /\ currentReqIndex = i

Skip(i) ==
    /\ Looking(i)
    /\ ~Expired(i)
    /\ currentReqIndex' = i + 1
    /\ UNCHANGED <<requests, socketProcessed, at, sent, net, cycle, lost, report>>

\* (variant) The attempts are not looked at.
ResendAlways(i) ==
    /\ Looking(i)
    /\ Expired(i)
    /\ requests' = [requests EXCEPT ![i].attemptNum = @ + 1, ![i].waited = 0]
    /\ Sending(i, requests[i].tag, requests[i].attemptNum + 1)
    /\ currentReqIndex' = i + 1
    /\ UNCHANGED <<socketProcessed, at, sent, cycle, lost, report>>

Resend(i) ==
    /\ Looking(i)
    /\ Expired(i)
    /\ requests[i].attemptNum < sendAttempts
    /\ requests' = [requests EXCEPT ![i].attemptNum = @ + 1, ![i].waited = 0]
    /\ Sending(i, requests[i].tag, requests[i].attemptNum + 1)
    /\ currentReqIndex' = i + 1
    /\ UNCHANGED <<socketProcessed, at, sent, cycle, lost, report>>

\* recv returns; the index is not moved on.
ReportTimeout(i) ==
    /\ Looking(i)
    /\ Expired(i)
    /\ requests[i].attemptNum >= sendAttempts
    /\ Closed(i)
    /\ report' = [id |-> i, tag |-> requests[i].tag, kind |-> "timeout"]
    /\ at' = "between"
    /\ UNCHANGED <<socketProcessed, currentReqIndex, sent, net, cycle, lost>>

\* recv returns false: the poll is over.
NothingLeft ==
    /\ at = "looping" /\ currentReqIndex = MAX_REQUEST_COUNT
    /\ at' = "outside"
    /\ UNCHANGED <<requests, socketProcessed, currentReqIndex, sent, net, cycle, lost, report>>

-----------------------------------------------------------------------------
(* The service, the network and time. *)

\* handle: every request is answered, by a command or by an echo of itself.
Reply(m) == [m EXCEPT !.to = "client", !.age = 0]

handle(m) ==
    /\ m.to = "server"
    /\ net' = (net \ {m}) \cup {Reply(m)}
    /\ UNCHANGED <<ownVars, cycle, lost>>

\* A datagram is lost in the network, or by send(); a malformed one is ignored.
Lose(m) ==
    /\ lost < MaxLost /\ lost' = lost + 1
    /\ net' = net \ {m}
    /\ UNCHANGED <<ownVars, cycle>>

\* A second begins.
Tick ==
    /\ at # "outside" => cycle < MaxCycle
    /\ \A m \in net : m.to = "server" => m.age < RoundTrip
    /\ cycle' = IF at = "outside" THEN cycle ELSE cycle + 1
    /\ requests' = [i \in ReqID |->
           IF requests[i].isActive /\ requests[i].waited <= sendTimeout
           THEN [requests[i] EXCEPT !.waited = @ + 1] ELSE requests[i]]
    /\ net' = {IF m.to = "server" THEN [m EXCEPT !.age = @ + 1] ELSE m : m \in net}
    /\ UNCHANGED <<socketProcessed, currentReqIndex, at, sent, lost, report>>

-----------------------------------------------------------------------------
recv ==
    \/ \E m \in net : ReceiveReply(m)
    \/ SocketDone
    \/ RecvAgain
    \/ \E i \in ReqID : Skip(i) \/ Resend(i) \/ ReportTimeout(i)
    \/ NothingLeft

Network == \E m \in net : handle(m) \/ Lose(m)

Next ==
    \/ \E i \in ReqID : send(i)
    \/ update
    \/ recv
    \/ Network
    \/ Tick

Spec == Init /\ [][Next]_vars

\* The owner polls again and again, datagrams arrive or are lost, time goes on.
FairSpec ==
    Spec /\ WF_vars(update) /\ WF_vars(recv) /\ WF_vars(Network) /\ WF_vars(Tick)

-----------------------------------------------------------------------------
(* Properties. *)

Pending(i, t) == requests[i].isActive /\ requests[i].tag = t

Promise == INSTANCE RequestReply WITH
    Id   <- ReqID,
    None <- NoTag,
    open <- [i \in ReqID |-> IF requests[i].isActive THEN requests[i].tag ELSE NoTag]

\* While replies can be read within RoundTrip, and a poll takes no longer than is
\* left of sendTimeout: the only datagram of a number that is still on its way is
\* the last attempt of its active request, younger than the timeout, and each
\* active request has one unless some were lost.
PromptInv ==
    /\ \A m \in net : Pending(m.id, m.tag) /\ requests[m.id].attemptNum = m.attempt
    /\ \A m, k \in net : m.id = k.id => m = k
    /\ \A m \in net : m.to = "server" => m.age = requests[m.id].waited
    /\ \A m \in net : (m.to = "client" /\ at # "outside" /\ socketProcessed) =>
                           requests[m.id].waited <= RoundTrip + cycle
    /\ lost = 0 => \A i \in ReqID : requests[i].isActive => \E m \in net : m.id = i

\* When a request and its reply take no longer than sendTimeout, the poll that
\* finds the reply included, every report is about the open request of its number
\* and is the only one, whatever is lost and resent.
ImplementsRequestReply == Promise!Spec

\* ... and when nothing is lost either, no request times out.
NoNeedlessTimeout ==
    (lost = 0 /\ report # NoReport) => report.kind = "reply"

\* Every request is reported some time, even if every datagram is lost, and also
\* one that is made between the recv calls of a poll.
EveryRequestEnds ==
    \A i \in ReqID, t \in Tag : Pending(i, t) ~> ~Pending(i, t)

\* udp_request.cpp:146: "responce is ready, or request is timed out": what recv
\* reports is a change of a request that was active.
ReportsAreChanges ==
    [][\A m \in net : ReceiveReply(m) => Pending(m.id, m.tag)]_vars

=============================================================================
