-------------------------- MODULE UdpRequestProofs --------------------------
(***************************************************************************)
(* UDPRequest, for every value of the constants: its type invariant, and   *)
(* what it promises when requests and replies are never late.              *)
(***************************************************************************)
EXTENDS UdpRequest, TLAPS

\* The first state is well typed.
LEMMA TypeInit == Init => TypeOK
<1> SUFFICES ASSUME Init PROVE TypeOK
  OBVIOUS
<1> USE UdpAssumption
<1>1. [isActive |-> FALSE, tag |-> NoTag, attemptNum |-> 0, waited |-> 0] \in Request
  BY DEF Request, Waited, NoTag
<1>2. /\ requests \in [ReqID -> Request]
      /\ \A i \in ReqID : ~requests[i].isActive
  BY <1>1 DEF Init
<1>3. lost \in 0..MaxLost
  BY DEF Init
<1>4. /\ socketProcessed \in BOOLEAN /\ at \in {"outside", "between", "looping"}
      /\ at # "looping" /\ net = {} /\ report = NoReport
  BY DEF Init
<1>5. currentReqIndex \in 0..MAX_REQUEST_COUNT /\ sent \in 0..MaxSends /\ cycle \in 0..MaxCycle
  BY DEF Init
<1>6. QED
  BY <1>2, <1>3, <1>4, <1>5 DEF TypeOK

\* Nothing of the index range is lost.
LEMMA IndexType ==
    ASSUME NEW i \in ReqID
    PROVE  i + 1 \in 0..MAX_REQUEST_COUNT
  BY UdpAssumption DEF ReqID

\* Closing a request only makes it inactive.
ClosedType(i) ==
    /\ requests' \in [ReqID -> Request]
    /\ ~requests'[i].isActive
    /\ \A j \in ReqID : j # i => requests'[j] = requests[j]
    /\ \A j \in ReqID : requests'[j].isActive => requests'[j] = requests[j]

\* Closing a request leaves the others as they are.
LEMMA ClosedKeepsType ==
    ASSUME TypeOK, NEW i \in ReqID, Closed(i)
    PROVE  ClosedType(i)
<1> DEFINE r == [requests[i] EXCEPT !.isActive = FALSE]
<1>1. requests[i] \in Request
  BY DEF TypeOK
<1>2. r \in Request /\ r.isActive = FALSE
  BY <1>1 DEF Request
<1>3. requests' = [requests EXCEPT ![i] = r]
  BY DEF Closed
<1>4. QED
  BY <1>2, <1>3 DEF TypeOK, ClosedType

\* Every step keeps the types.
LEMMA TypeNext == TypeOK /\ [Next]_vars => TypeOK'
<1> SUFFICES ASSUME TypeOK, [Next]_vars PROVE TypeOK'
  OBVIOUS
<1> USE UdpAssumption
<1>1. ASSUME NEW i \in ReqID, send(i) PROVE TypeOK'
  <2> DEFINE r == [isActive |-> TRUE, tag |-> sent + 1, attemptNum |-> 1, waited |-> 0]
             m == [to |-> "server", id |-> i, tag |-> sent + 1, attempt |-> 1, age |-> 0]
  <2>1. sent + 1 \in Tag /\ sent' = sent + 1
    BY <1>1 DEF send, TypeOK, Tag
  <2>2. r \in Request /\ m \in Datagram
    BY <2>1 DEF Request, Waited, Datagram
  <2>3. requests' \in [ReqID -> Request]
    BY <1>1, <2>2 DEF send, TypeOK
  <2>4. \A j \in ReqID : requests'[j].isActive => requests'[j].tag \in 1..sent'
    <3>1. \A j \in ReqID : requests'[j] = IF j = i THEN r ELSE requests[j]
      BY <1>1 DEF send, TypeOK
    <3>2. r.tag \in 1..sent'
      BY <2>1 DEF Tag
    <3>3. 1..sent \subseteq 1..sent'
      BY <2>1 DEF TypeOK
    <3>4. QED
      BY <3>1, <3>2, <3>3 DEF TypeOK
  <2>5. net' \subseteq Datagram /\ \A d \in net' : d.tag <= sent'
    <3>1. net' = net \cup {m}
      BY <1>1 DEF send, Sending
    <3>2. \A d \in net : d.tag <= sent + 1
      BY DEF TypeOK, Datagram, Tag
    <3>3. QED
      BY <2>1, <2>2, <3>1, <3>2 DEF TypeOK
  <2>6. QED
    BY <1>1, <2>1, <2>3, <2>4, <2>5 DEF send, TypeOK
<1>2. CASE update
  <2>1. socketProcessed' = FALSE /\ at' = "between" /\ currentReqIndex' = 0 /\ cycle' = 0
    BY <1>2 DEF update
  <2>2. currentReqIndex' \in 0..MAX_REQUEST_COUNT /\ cycle' \in 0..MaxCycle
    BY <2>1
  <2>3. QED
    BY <1>2, <2>1, <2>2 DEF update, TypeOK
<1>3. ASSUME NEW m \in net, ReceiveReply(m) PROVE TypeOK'
  <2>1. m \in Datagram
    BY DEF TypeOK
  <2>2. report' \in Report
    BY <1>3, <2>1 DEF ReceiveReply, Datagram, Report
  <2>3. ClosedType(m.id)
    BY <1>3, <2>1, ClosedKeepsType DEF ReceiveReply, Datagram
  <2>4. net' \subseteq net
    BY <1>3 DEF ReceiveReply
  <2>5. QED
    BY <1>3, <2>2, <2>3, <2>4 DEF ReceiveReply, ClosedType, TypeOK
<1>4. CASE SocketDone
  BY <1>4 DEF SocketDone, TypeOK
<1>5. CASE RecvAgain
  BY <1>5 DEF RecvAgain, TypeOK
<1>6. ASSUME NEW i \in ReqID, Skip(i) PROVE TypeOK'
  BY <1>6, IndexType DEF Skip, TypeOK
<1>7. ASSUME NEW i \in ReqID, Resend(i) PROVE TypeOK'
  <2>1. /\ requests[i].tag \in Tag /\ requests[i].tag <= sent
        /\ requests[i].attemptNum + 1 \in 1..sendAttempts
    BY <1>7 DEF Resend, Expired, TypeOK, Request, Tag, NoTag
  <2>2. /\ requests' \in [ReqID -> Request]
        /\ \A j \in ReqID : /\ requests'[j].isActive = requests[j].isActive
                           /\ requests'[j].tag = requests[j].tag
    <3> DEFINE r == [requests[i] EXCEPT !.attemptNum = @ + 1, !.waited = 0]
    <3>1. /\ requests[i] \in Request
          /\ requests[i].attemptNum + 1 \in 0..sendAttempts /\ 0 \in Waited
      BY <2>1 DEF TypeOK, Waited
    <3>2. r \in Request /\ r.isActive = requests[i].isActive /\ r.tag = requests[i].tag
      BY <3>1 DEF Request
    <3>3. requests' = [requests EXCEPT ![i] = r]
      BY <1>7, <3>1 DEF Resend, TypeOK, Request
    <3>4. QED
      BY <3>2, <3>3 DEF TypeOK
  <2>3. QED
    BY <1>7, <2>1, <2>2, IndexType DEF Resend, Sending, TypeOK, Datagram
<1>8. ASSUME NEW i \in ReqID, ReportTimeout(i) PROVE TypeOK'
  <2>1. requests[i].tag \in Tag
    BY <1>8 DEF ReportTimeout, Expired, TypeOK, Tag
  <2>2. report' \in Report
    BY <1>8, <2>1 DEF ReportTimeout, Report
  <2>3. ClosedType(i)
    BY <1>8, ClosedKeepsType DEF ReportTimeout
  <2>4. QED
    BY <1>8, <2>2, <2>3 DEF ReportTimeout, ClosedType, TypeOK
<1>9. CASE NothingLeft
  BY <1>9 DEF NothingLeft, TypeOK
<1>10. ASSUME NEW m \in net, handle(m) \/ Lose(m) PROVE TypeOK'
  <2>1. m \in Datagram /\ m.tag <= sent
    BY DEF TypeOK
  <2>2. Reply(m) \in Datagram /\ Reply(m).tag = m.tag
    <3>1. 0 \in 0..RoundTrip
      OBVIOUS
    <3>2. QED
      BY <2>1, <3>1 DEF Reply, Datagram
  <2>3. net' \subseteq Datagram /\ \A d \in net' : d.tag <= sent
    BY <1>10, <2>1, <2>2 DEF handle, Lose, TypeOK
  <2>4. lost' \in 0..MaxLost
    BY <1>10 DEF handle, Lose, TypeOK
  <2>5. QED
    BY <1>10, <2>3, <2>4 DEF handle, Lose, ownVars, TypeOK
<1>11. CASE Tick
  <2>1. requests' \in [ReqID -> Request]
    BY <1>11 DEF Tick, TypeOK, Request, Waited
  <2>2. \A i \in ReqID : requests'[i].isActive => requests'[i].tag \in 1..sent
    BY <1>11 DEF Tick, TypeOK, Request
  <2>3. net' \subseteq Datagram /\ \A d \in net' : d.tag <= sent
    BY <1>11 DEF Tick, TypeOK, Datagram
  <2>4. cycle' \in 0..MaxCycle
    BY <1>11 DEF Tick, TypeOK
  <2>5. QED
    BY <1>11, <2>1, <2>2, <2>3, <2>4 DEF Tick, TypeOK
<1>12. CASE UNCHANGED vars
  BY <1>12 DEF vars, ownVars, TypeOK
<1>13. QED
  BY <1>1, <1>2, <1>3, <1>4, <1>5, <1>6, <1>7, <1>8, <1>9, <1>10, <1>11, <1>12
  DEF Next, recv, Network

\* UDPRequest: the array of requests, the datagrams and what recv returns keep
\* their types, and a request that is active was sent.
THEOREM TypeCorrect == Spec => []TypeOK
<1>1. Init => TypeOK
  BY TypeInit
<1>2. TypeOK /\ [Next]_vars => TypeOK'
  BY TypeNext
<1>3. QED
  BY <1>1, <1>2, PTL DEF Spec

-----------------------------------------------------------------------------
(* Replies that are not late. *)

\* A reply that can be read within RoundTrip is read, by a poll that lasts no
\* longer than MaxCycle, before its request expires.
Prompt == RoundTrip + MaxCycle <= sendTimeout

\* At first nothing is on its way.
LEMMA PromptInit == Init => PromptInv
  BY DEF Init, PromptInv

\* A datagram on its way holds its request back from expiring.
LEMMA TravellingNotExpired ==
    ASSUME Prompt, TypeOK, PromptInv, at = "looping", NEW m \in net
    PROVE  ~Expired(m.id)
<1> USE UdpAssumption
<1>1. /\ m \in Datagram /\ requests[m.id] \in Request /\ cycle \in 0..MaxCycle
      /\ socketProcessed
  BY DEF TypeOK, Datagram
<1>2. requests[m.id].waited <= RoundTrip + MaxCycle
  <2>1. CASE m.to = "server"
    BY <1>1, <2>1 DEF PromptInv, Datagram
  <2>2. CASE m.to = "client"
    BY <1>1, <2>2 DEF PromptInv, Request, Waited
  <2>3. QED
    BY <1>1, <2>1, <2>2 DEF Datagram
<1>3. QED
  BY <1>1, <1>2 DEF Prompt, Expired, Request, Waited

\* A first or a further attempt is sent when no datagram of the number travels.
LEMMA AttemptSent ==
    ASSUME TypeOK, PromptInv, NEW i \in ReqID, NEW m,
           \A k \in net : k.id # i,
           net' = net \cup {m},
           m.to = "server" /\ m.id = i /\ m.age = 0,
           requests'[i].isActive /\ requests'[i].tag = m.tag,
           requests'[i].attemptNum = m.attempt /\ requests'[i].waited = 0,
           \A j \in ReqID : j # i => requests'[j] = requests[j],
           UNCHANGED <<socketProcessed, at, cycle, lost>>
    PROVE  PromptInv'
<1>1. \A k \in net : k.id \in ReqID /\ requests'[k.id] = requests[k.id]
  BY DEF TypeOK, Datagram
<1>2. \A k \in net' : Pending(k.id, k.tag)' /\ requests'[k.id].attemptNum = k.attempt
  BY <1>1 DEF PromptInv, Pending
<1>3. \A k, d \in net' : k.id = d.id => k = d
  BY DEF PromptInv
<1>4. \A k \in net' : k.to = "server" => k.age = requests'[k.id].waited
  BY <1>1 DEF PromptInv
<1>5. \A k \in net' : (k.to = "client" /\ at' # "outside" /\ socketProcessed') =>
                          requests'[k.id].waited <= RoundTrip + cycle'
  BY <1>1 DEF PromptInv
<1>6. lost' = 0 => \A j \in ReqID : requests'[j].isActive => \E k \in net' : k.id = j
  BY DEF PromptInv
<1>7. QED
  BY <1>2, <1>3, <1>4, <1>5, <1>6 DEF PromptInv

\* PromptInv is inductive, relative to the types, when replies are prompt.
LEMMA PromptNext ==
    ASSUME Prompt, TypeOK, PromptInv, [Next]_vars
    PROVE  PromptInv'
<1> USE UdpAssumption
<1>1. ASSUME NEW i \in ReqID, send(i) PROVE PromptInv'
  <2> DEFINE m == [to |-> "server", id |-> i, tag |-> sent + 1, attempt |-> 1, age |-> 0]
  <2>1. net' = net \cup {m}
    BY <1>1 DEF send, Sending
  <2>2. \A k \in net : k.id # i
    BY <1>1 DEF send, PromptInv, Pending
  <2>3. /\ \A j \in ReqID : j # i => requests'[j] = requests[j]
        /\ requests'[i] = [isActive |-> TRUE, tag |-> sent + 1, attemptNum |-> 1, waited |-> 0]
    BY <1>1 DEF send, TypeOK
  <2>4. /\ m.to = "server" /\ m.id = i /\ m.age = 0
        /\ requests'[i].isActive /\ requests'[i].tag = m.tag
        /\ requests'[i].attemptNum = m.attempt /\ requests'[i].waited = 0
        /\ UNCHANGED <<socketProcessed, at, cycle, lost>>
    BY <1>1, <2>3 DEF send
  <2> HIDE DEF m
  <2>5. QED
    BY <2>1, <2>2, <2>3, <2>4, AttemptSent
<1>2. CASE update
  BY <1>2 DEF update, PromptInv, Pending
<1>3. ASSUME NEW m \in net, ReceiveReply(m) PROVE PromptInv'
  <2>1. m \in Datagram
    BY DEF TypeOK
  <2>2. net' = net \ {m} /\ ClosedType(m.id)
    BY <1>3, <2>1, ClosedKeepsType DEF ReceiveReply, Datagram
  <2>3. \A k \in net' : k \in net /\ k.id \in ReqID /\ k.id # m.id
    BY <2>2 DEF PromptInv, TypeOK, Datagram
  <2>4. \A k \in net' : requests'[k.id] = requests[k.id]
    BY <2>2, <2>3 DEF ClosedType
  <2>5. \A i \in ReqID : requests'[i].isActive => requests[i].isActive /\ i # m.id
    BY <2>2 DEF ClosedType
  <2>6. QED
    BY <1>3, <2>2, <2>3, <2>4, <2>5 DEF ReceiveReply, PromptInv, Pending
<1>4. CASE SocketDone
  BY <1>4 DEF SocketDone, PromptInv, Pending
<1>5. CASE RecvAgain
  BY <1>5 DEF RecvAgain, PromptInv, Pending
<1>6. ASSUME NEW i \in ReqID, Skip(i) PROVE PromptInv'
  BY <1>6 DEF Skip, Looking, PromptInv, Pending
<1>7. ASSUME NEW i \in ReqID, Resend(i) PROVE PromptInv'
  <2> DEFINE m == [to |-> "server", id |-> i, tag |-> requests[i].tag,
                   attempt |-> requests[i].attemptNum + 1, age |-> 0]
  <2>1. \A k \in net : k.id # i
    BY <1>7, TravellingNotExpired DEF Resend, Looking
  <2>2. net' = net \cup {m}
    BY <1>7 DEF Resend, Sending
  <2>3. /\ requests[i] \in Request
        /\ requests[i].isActive
    BY <1>7 DEF Resend, Expired, TypeOK
  <2>4. /\ \A j \in ReqID : j # i => requests'[j] = requests[j]
        /\ requests'[i].isActive /\ requests'[i].tag = requests[i].tag
        /\ requests'[i].attemptNum = requests[i].attemptNum + 1
        /\ requests'[i].waited = 0
    BY <1>7, <2>3 DEF Resend, TypeOK, Request
  <2>5. /\ m.to = "server" /\ m.id = i /\ m.age = 0
        /\ m.tag = requests[i].tag /\ m.attempt = requests[i].attemptNum + 1
        /\ UNCHANGED <<socketProcessed, at, cycle, lost>>
    BY <1>7 DEF Resend
  <2> HIDE DEF m
  <2>6. QED
    BY <2>1, <2>2, <2>4, <2>5, AttemptSent
<1>8. ASSUME NEW i \in ReqID, ReportTimeout(i) PROVE PromptInv'
  <2>1. \A k \in net : k.id # i
    BY <1>8, TravellingNotExpired DEF ReportTimeout, Looking
  <2>2. ClosedType(i)
    BY <1>8, ClosedKeepsType DEF ReportTimeout
  <2>3. \A k \in net : k.id \in ReqID /\ requests'[k.id] = requests[k.id]
    BY <2>1, <2>2 DEF TypeOK, Datagram, ClosedType
  <2>4. \A j \in ReqID : requests'[j].isActive => requests[j].isActive
    BY <2>2 DEF ClosedType
  <2>5. QED
    BY <1>8, <2>3, <2>4 DEF ReportTimeout, Looking, PromptInv, Pending
<1>9. CASE NothingLeft
  BY <1>9 DEF NothingLeft, PromptInv, Pending
<1>10. ASSUME NEW m \in net, handle(m) PROVE PromptInv'
  <2> DEFINE r == Reply(m)
  <2>1. /\ m \in Datagram /\ m.to = "server" /\ cycle \in 0..MaxCycle
        /\ net' = (net \ {m}) \cup {r}
        /\ UNCHANGED <<requests, at, socketProcessed, cycle, lost>>
    BY <1>10 DEF handle, ownVars, TypeOK
  <2>2. r.to = "client" /\ r.id = m.id /\ r.tag = m.tag /\ r.attempt = m.attempt
    BY <2>1 DEF Reply, Datagram
  <2>3. requests[m.id].waited <= RoundTrip + cycle
    BY <2>1 DEF PromptInv, Datagram
  <2>4. \A k \in net \ {m} : k.id # m.id
    BY DEF PromptInv
  <2>5. \A k \in net' : \E d \in net : k.id = d.id /\ k.tag = d.tag /\ k.attempt = d.attempt
    BY <2>1, <2>2
  <2>6. \A k \in net' : Pending(k.id, k.tag)' /\ requests'[k.id].attemptNum = k.attempt
    BY <2>1, <2>5 DEF PromptInv, Pending
  <2>7. \A k, d \in net' : k.id = d.id => k = d
    BY <2>1, <2>2, <2>4 DEF PromptInv
  <2>8. \A k \in net' : k.to = "server" => k.age = requests'[k.id].waited
    BY <2>1, <2>2 DEF PromptInv
  <2>9. \A k \in net' : (k.to = "client" /\ at' # "outside" /\ socketProcessed') =>
                            requests'[k.id].waited <= RoundTrip + cycle'
    BY <2>1, <2>2, <2>3 DEF PromptInv
  <2>10. lost' = 0 => \A i \in ReqID : requests'[i].isActive => \E k \in net' : k.id = i
    BY <2>1, <2>2 DEF PromptInv
  <2>11. QED
    BY <2>6, <2>7, <2>8, <2>9, <2>10 DEF PromptInv
<1>11. ASSUME NEW m \in net, Lose(m) PROVE PromptInv'
  <2>1. lost' # 0
    BY <1>11 DEF Lose, TypeOK
  <2>2. QED
    BY <1>11, <2>1 DEF Lose, ownVars, PromptInv, Pending
<1>12. CASE Tick
  <2> DEFINE Aged(m) == IF m.to = "server" THEN [m EXCEPT !.age = @ + 1] ELSE m
  <2>1. /\ \A k \in net' : \E m \in net : k = Aged(m)
        /\ \A m \in net : Aged(m) \in net'
        /\ UNCHANGED <<at, socketProcessed, lost>>
    BY <1>12 DEF Tick
  <2>2. \A m \in net :
           /\ m \in Datagram /\ requests[m.id] \in Request /\ m.id \in ReqID
           /\ Aged(m).to = m.to /\ Aged(m).id = m.id /\ Aged(m).tag = m.tag
           /\ Aged(m).attempt = m.attempt
           /\ m.to = "server" => Aged(m).age = m.age + 1
    BY DEF TypeOK, Datagram
  <2> HIDE DEF Aged
  <2>3. \A i \in ReqID :
           /\ requests'[i].isActive = requests[i].isActive
           /\ requests'[i].tag = requests[i].tag
           /\ requests'[i].attemptNum = requests[i].attemptNum
           /\ requests'[i].waited \in {requests[i].waited, requests[i].waited + 1}
           /\ requests[i].isActive /\ requests[i].waited <= sendTimeout =>
                  requests'[i].waited = requests[i].waited + 1
    BY <1>12 DEF Tick, TypeOK, Request
  <2>4. \A k \in net' : Pending(k.id, k.tag)' /\ requests'[k.id].attemptNum = k.attempt
    BY <2>1, <2>2, <2>3 DEF PromptInv, Pending
  <2>5. \A k, d \in net' : k.id = d.id => k = d
    BY <2>1, <2>2 DEF PromptInv
  <2>6. \A k \in net' : k.to = "server" => k.age = requests'[k.id].waited
    <3>1. \A m \in net : m.to = "server" => requests[m.id].waited <= sendTimeout
      BY <2>2 DEF PromptInv, Prompt, Datagram, TypeOK
    <3>2. QED
      BY <2>1, <2>2, <2>3, <3>1 DEF PromptInv, Pending
  <2>7. \A k \in net' : (k.to = "client" /\ at' # "outside" /\ socketProcessed') =>
                            requests'[k.id].waited <= RoundTrip + cycle'
    <3>1. at # "outside" => cycle' = cycle + 1 /\ cycle \in Nat
      BY <1>12 DEF Tick, TypeOK
    <3>2. QED
      BY <2>1, <2>2, <2>3, <3>1 DEF PromptInv, Request, Waited
  <2>8. lost' = 0 => \A i \in ReqID : requests'[i].isActive => \E k \in net' : k.id = i
    BY <2>1, <2>2, <2>3 DEF PromptInv
  <2>9. QED
    BY <2>4, <2>5, <2>6, <2>7, <2>8 DEF PromptInv
<1>13. CASE UNCHANGED vars
  BY <1>13 DEF vars, ownVars, PromptInv, Pending
<1>14. QED
  BY <1>1, <1>2, <1>3, <1>4, <1>5, <1>6, <1>7, <1>8, <1>9, <1>10, <1>11, <1>12, <1>13
  DEF Next, recv, Network

\* The inductive invariant: what is on its way belongs to the last attempt of an
\* active request.
THEOREM PromptCorrect ==
    ASSUME Prompt PROVE Spec => []PromptInv
<1>1. Init => PromptInv
  BY PromptInit
<1>2. TypeOK /\ PromptInv /\ [Next]_vars => PromptInv'
  BY PromptNext
<1>3. QED
  BY <1>1, <1>2, TypeCorrect, PTL DEF Spec

\* A request is given up only when no datagram of it travels, so one was lost.
LEMMA GivenUpAfterLoss ==
    ASSUME Prompt, TypeOK, PromptInv, NEW i \in ReqID, ReportTimeout(i)
    PROVE  lost # 0
<1>1. \A m \in net : m.id # i
  BY TravellingNotExpired DEF ReportTimeout, Looking
<1>2. requests[i].isActive
  BY DEF ReportTimeout, Expired
<1>3. QED
  BY <1>1, <1>2 DEF PromptInv

\* No request times out as long as nothing is lost: a poll never takes a reply
\* that can be read for a late one (udp_request.cpp:176 is asked after the socket
\* was emptied, and only of earlier seconds).
THEOREM NoTimeoutWithoutLoss ==
    ASSUME Prompt PROVE Spec => []NoNeedlessTimeout
<1>1. Init => NoNeedlessTimeout
  BY DEF Init, NoNeedlessTimeout
<1>2. ASSUME TypeOK, PromptInv, NoNeedlessTimeout, [Next]_vars
      PROVE  NoNeedlessTimeout'
  <2>1. UNCHANGED report /\ (UNCHANGED lost \/ lost' # 0) => NoNeedlessTimeout'
    BY <1>2 DEF NoNeedlessTimeout
  <2>2. ASSUME NEW m \in net, ReceiveReply(m) PROVE NoNeedlessTimeout'
    BY <2>2 DEF ReceiveReply, NoNeedlessTimeout
  <2>3. ASSUME NEW i \in ReqID, ReportTimeout(i) PROVE NoNeedlessTimeout'
    BY <1>2, <2>3, GivenUpAfterLoss DEF ReportTimeout, NoNeedlessTimeout
  <2>4. ASSUME NEW m \in net, Lose(m) PROVE NoNeedlessTimeout'
    BY <1>2, <2>1, <2>4, UdpAssumption DEF Lose, ownVars, TypeOK
  <2>5. QED
    BY <1>2, <2>1, <2>2, <2>3, <2>4
    DEF Next, recv, Network, send, update, SocketDone, RecvAgain, Skip, Resend,
        NothingLeft, handle, Tick, vars, ownVars
<1>3. QED
  BY <1>1, <1>2, TypeCorrect, PromptCorrect, PTL DEF Spec

-----------------------------------------------------------------------------
(* Refinement. *)

\* The request of a number that is open, as RequestReply sees it.
Open == [i \in ReqID |-> IF requests[i].isActive THEN requests[i].tag ELSE NoTag]

\* Closing a request that was active is Close.
LEMMA CloseRefined ==
    ASSUME TypeOK, NEW i \in ReqID, NEW kind, Closed(i), requests[i].isActive,
           report' = [id |-> i, tag |-> requests[i].tag, kind |-> kind]
    PROVE  Promise!Close(i, kind)
<1>1. ClosedType(i)
  BY ClosedKeepsType
<1>2. requests[i].tag # NoTag
  BY DEF TypeOK, NoTag
<1>3. Open' = [Open EXCEPT ![i] = NoTag]
  BY <1>1 DEF Open, ClosedType
<1>4. QED
  BY <1>2, <1>3 DEF Promise!Close, Open

\* Every step is one of RequestReply, or is not seen there.
LEMMA StepRefined ==
    ASSUME Prompt, TypeOK, PromptInv, [Next]_vars
    PROVE  [Promise!Next]_(Promise!vars)
<1>1. ASSUME UNCHANGED report,
             \A i \in ReqID : /\ requests'[i].isActive = requests[i].isActive
                              /\ requests'[i].tag = requests[i].tag
      PROVE  UNCHANGED Promise!vars
  BY <1>1 DEF Promise!vars
<1>2. UNCHANGED <<requests, report>> => UNCHANGED Promise!vars
  BY DEF Promise!vars
<1>3. ASSUME NEW i \in ReqID, send(i) PROVE \E t \in Tag : Promise!Ask(i, t)
  <2>1. PICK t \in Tag : t = sent + 1
    BY <1>3, UdpAssumption DEF send, TypeOK, Tag
  <2>2. Open' = [Open EXCEPT ![i] = t]
    BY <1>3, <2>1 DEF send, Open, TypeOK
  <2>3. Open[i] = NoTag /\ UNCHANGED report
    BY <1>3 DEF send, Open
  <2>4. Promise!Ask(i, t)
    BY <2>2, <2>3 DEF Promise!Ask, Open
  <2>5. QED
    BY <2>4
<1>4. ASSUME NEW m \in net, ReceiveReply(m) PROVE m.id \in ReqID /\ Promise!Close(m.id, "reply")
  BY <1>4, CloseRefined DEF ReceiveReply, PromptInv, Pending, TypeOK, Datagram
<1>5. ASSUME NEW i \in ReqID, ReportTimeout(i) PROVE Promise!Close(i, "timeout")
  BY <1>5, CloseRefined DEF ReportTimeout, Expired
<1>6. ASSUME NEW i \in ReqID, Resend(i) PROVE UNCHANGED Promise!vars
  <2>1. \A j \in ReqID : /\ requests'[j].isActive = requests[j].isActive
                         /\ requests'[j].tag = requests[j].tag
    BY <1>6 DEF Resend, TypeOK, Request
  <2>2. QED
    BY <1>1, <1>6, <2>1 DEF Resend
<1>7. CASE Tick
  <2>1. \A j \in ReqID : /\ requests'[j].isActive = requests[j].isActive
                         /\ requests'[j].tag = requests[j].tag
    BY <1>7 DEF Tick, TypeOK, Request
  <2>2. QED
    BY <1>1, <1>7, <2>1 DEF Tick
<1>8. ASSUME NEW m, NEW i,
             \/ update \/ SocketDone \/ RecvAgain \/ Skip(i) \/ NothingLeft
             \/ handle(m) \/ Lose(m) \/ UNCHANGED vars
      PROVE  UNCHANGED Promise!vars
  BY <1>2, <1>8 DEF update, SocketDone, RecvAgain, Skip, NothingLeft, handle, Lose,
                    vars, ownVars
<1>9. ASSUME \/ \E i \in ReqID : send(i) \/ ReportTimeout(i)
             \/ \E m \in net : ReceiveReply(m)
      PROVE  Promise!Next
  <2>1. CASE \E i \in ReqID : send(i)
    <3>1. PICK i \in ReqID : send(i)
      BY <2>1
    <3>2. \E t \in Tag : Promise!Ask(i, t)
      BY <1>3, <3>1
    <3>3. QED
      BY <3>2 DEF Promise!Next
  <2>2. CASE \E i \in ReqID : ReportTimeout(i)
    BY <1>5, <2>2 DEF Promise!Next
  <2>3. CASE \E m \in net : ReceiveReply(m)
    <3>1. PICK m \in net : ReceiveReply(m)
      BY <2>3
    <3>2. m.id \in ReqID /\ Promise!Close(m.id, "reply")
      BY <1>4, <3>1
    <3>3. QED
      BY <3>2 DEF Promise!Next
  <2>4. QED
    BY <1>9, <2>1, <2>2, <2>3
<1>10. QED
  BY <1>6, <1>7, <1>8, <1>9 DEF Next, recv, Network

\* UDPRequest implements RequestReply as long as replies are not late, however
\* many datagrams are lost: each report is the one report of the open request.
THEOREM RequestReplyImplemented ==
    ASSUME Prompt PROVE Spec => ImplementsRequestReply
<1>1. Init => Promise!Init
  BY DEF Init, Promise!Init
<1>2. TypeOK /\ PromptInv /\ [Next]_vars => [Promise!Next]_(Promise!vars)
  BY StepRefined
<1>3. QED
  BY <1>1, <1>2, TypeCorrect, PromptCorrect, PTL DEF Spec, ImplementsRequestReply, Promise!Spec
=============================================================================
