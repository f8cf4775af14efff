--------------------------- MODULE MissedCallProofs ---------------------------
(***************************************************************************)
(* The missed-call service behind UDPRequest, for every value of the       *)
(* constants: it is one of the services UdpRequest allows, and no call is  *)
(* entered in the history more often than losses explain.                  *)
(***************************************************************************)
EXTENDS MissedCallService, UdpRequestProofs

\* Every step of the service is a step of UdpRequest, or is not seen there.
LEMMA ServiceStep == [ServiceNext]_serviceVars => [Next]_vars
<1>1. Serve => [Next]_vars
  <2>1. Record => UNCHANGED vars
    BY DEF Record, addToHistory, saveSMSHistory, DatabaseFails
  <2>2. (\E m \in net : Take(m)) => Next
    BY DEF Take, Next, Network
  <2>3. QED
    BY <2>1, <2>2 DEF Serve
<1>2. QED
  BY <1>1 DEF ServiceNext, Outside, Next, Network, serviceVars

\* UDPRequest with this service behaves as UdpRequest says, so that what is proved
\* of UdpRequest holds of the two together.
THEOREM ServiceIsAllowed == ServiceSpec => Spec
<1>1. ServiceInit => Init
  BY DEF ServiceInit
<1>2. QED
  BY <1>1, ServiceStep, PTL DEF ServiceSpec, Spec

\* Both the types of UDPRequest and of the service's own state are kept: what is
\* in hand is a missed call.
THEOREM ServiceTypeCorrect == ServiceSpec => []ServiceTypeOK
<1> USE UdpAssumption, ServiceAssumption
<1>1. ServiceInit => ServiceTypeOK
  BY TypeInit DEF ServiceInit, ServiceTypeOK
<1>2. ASSUME ServiceTypeOK, [ServiceNext]_serviceVars PROVE ServiceTypeOK'
  <2>1. TypeOK'
    BY <1>2, ServiceStep, TypeNext DEF ServiceTypeOK
  <2>2. UNCHANGED databaseVars => ServiceTypeOK'
    BY <1>2, <2>1 DEF databaseVars, ServiceTypeOK
  <2>3. ASSUME NEW m \in net, Take(m) PROVE ServiceTypeOK'
    BY <1>2, <2>1, <2>3 DEF Take, ServiceTypeOK, Stage
  <2>4. CASE addToHistory
    <3>1. serving \in [tag : Missed, next : Stage] /\ serving.tag \in Tag
      BY <1>2, <2>4 DEF addToHistory, ServiceTypeOK, Idle, Tag
    <3>2. serving' \in [tag : Missed, next : Stage]
      BY <2>4, <3>1 DEF addToHistory, Stage
    <3>3. history' \in [Tag -> Nat]
      BY <1>2, <2>4, <3>1 DEF addToHistory, ServiceTypeOK
    <3>4. QED
      BY <1>2, <2>1, <2>4, <3>2, <3>3 DEF addToHistory, ServiceTypeOK
  <2>5. CASE saveSMSHistory
    <3>1. serving \in [tag : Missed, next : Stage] /\ serving.tag \in Tag
      <4>1. serving # Idle
        BY <2>5 DEF saveSMSHistory, Idle
      <4>2. serving \in [tag : Missed, next : Stage]
        BY <1>2, <4>1 DEF ServiceTypeOK
      <4>3. QED
        BY <4>2 DEF Tag
    <3>2. sms' \in [Tag -> Nat]
      BY <1>2, <2>5, <3>1 DEF saveSMSHistory, ServiceTypeOK
    <3>3. QED
      BY <1>2, <2>1, <2>5, <3>2 DEF saveSMSHistory, ServiceTypeOK
  <2>6. CASE DatabaseFails
    <3>1. serving.tag \in Missed
      <4>1. serving \in [tag : Missed, next : Stage]
        BY <1>2, <2>6 DEF DatabaseFails, ServiceTypeOK
      <4>2. QED
        BY <4>1
    <3>2. failed' \subseteq Missed
      BY <1>2, <2>6, <3>1 DEF DatabaseFails, ServiceTypeOK
    <3>3. errors' \in 0..MaxErrors
      BY <1>2, <2>6 DEF DatabaseFails, ServiceTypeOK
    <3>4. QED
      BY <1>2, <2>1, <2>6, <3>2, <3>3 DEF DatabaseFails, ServiceTypeOK
  <2>7. QED
    BY <1>2, <2>2, <2>3, <2>4, <2>5, <2>6
    DEF ServiceNext, Outside, Serve, Record, serviceVars
<1>3. QED
  BY <1>1, <1>2, PTL DEF ServiceSpec

-----------------------------------------------------------------------------
(* Entries in the history.  The argument counts, for each request, the      *)
(* entries that were made, the one that is due and the datagram that will   *)
(* lead to another.                                                         *)

DueIn(s, t)     == IF s.tag = t /\ s.next = "addToHistory" THEN 1 ELSE 0
TravelsIn(n, t) == IF \E m \in n : m.to = "server" /\ m.tag = t THEN 1 ELSE 0
Load(h, s, n, t) == h[t] + DueIn(s, t) + TravelsIn(n, t)

\* A datagram of number i is on its way.
OnWay(n, i) == IF \E m \in n : m.id = i THEN 1 ELSE 0

\* The inductive invariant: a request accounts for no more entries than attempts,
\* and for no more attempts than losses, and the one that is on its way.
RecordInv ==
    /\ \A t \in Tag : /\ Load(history, serving, net, t) <= sendAttempts
                      /\ Load(history, serving, net, t) <= lost + 1
                      /\ t > sent => Load(history, serving, net, t) = 0
    /\ \A i \in ReqID : requests[i].isActive =>
          /\ Load(history, serving, net, requests[i].tag) <= requests[i].attemptNum
          /\ requests[i].attemptNum <= lost + OnWay(net, i)
    /\ \A i, j \in ReqID :
          (requests[i].isActive /\ requests[j].isActive /\ requests[i].tag = requests[j].tag)
              => i = j

\* The numbers that are added up.
LEMMA LoadType ==
    ASSUME NEW h \in [Tag -> Nat], NEW s, NEW n, NEW t \in Tag
    PROVE  /\ h[t] \in Nat
           /\ DueIn(s, t) \in {0, 1} /\ TravelsIn(n, t) \in {0, 1}
           /\ Load(h, s, n, t) \in Nat
  BY DEF DueIn, TravelsIn, Load

\* ... and the bounds they are compared with.
LEMMA BoundType ==
    ASSUME ServiceTypeOK
    PROVE  /\ lost \in Nat /\ sendAttempts \in Nat /\ sent \in Nat /\ Tag \subseteq Nat
           /\ \A t \in Tag : Load(history, serving, net, t) \in Nat
           /\ \A i \in ReqID : /\ requests[i].isActive => requests[i].tag \in Tag
                               /\ requests[i].attemptNum \in 0..sendAttempts
           /\ \A i \in ReqID : OnWay(net, i) \in {0, 1}
<1>1. history \in [Tag -> Nat] /\ TypeOK
  BY DEF ServiceTypeOK
<1>2. \A i \in ReqID : /\ requests[i].isActive => requests[i].tag \in Tag
                      /\ requests[i].attemptNum \in 0..sendAttempts
  <2>1. sent \in 0..MaxSends
    BY <1>1 DEF TypeOK
  <2>2. 1..sent \subseteq Tag
    BY <2>1, UdpAssumption DEF Tag
  <2>3. QED
    BY <1>1, <2>2 DEF TypeOK, Request
<1>3. \A t \in Tag : Load(history, serving, net, t) \in Nat
  BY <1>1, LoadType
<1>4. lost \in Nat /\ sent \in Nat /\ sendAttempts \in Nat /\ Tag \subseteq Nat
  BY <1>1, UdpAssumption DEF TypeOK, Tag
<1>5. \A i \in ReqID : OnWay(net, i) \in {0, 1}
  BY DEF OnWay
<1>6. QED
  BY <1>2, <1>3, <1>4, <1>5

\* The same of the next state.
LEMMA BoundTypeNext ==
    ASSUME ServiceTypeOK'
    PROVE  /\ sent' \in Nat
           /\ \A t \in Tag : Load(history', serving', net', t) \in Nat
           /\ \A i \in ReqID : /\ requests'[i].isActive => requests'[i].tag \in Tag
                               /\ requests'[i].attemptNum \in 0..sendAttempts
           /\ \A i \in ReqID : OnWay(net', i) \in {0, 1}
<1>1. history' \in [Tag -> Nat] /\ TypeOK'
  BY DEF ServiceTypeOK
<1>2. \A i \in ReqID : /\ requests'[i].isActive => requests'[i].tag \in Tag
                      /\ requests'[i].attemptNum \in 0..sendAttempts
  <2>1. sent' \in 0..MaxSends
    BY <1>1 DEF TypeOK
  <2>2. 1..sent' \subseteq Tag
    BY <2>1, UdpAssumption DEF Tag
  <2>3. QED
    BY <1>1, <2>2 DEF TypeOK, Request
<1>3. \A t \in Tag : Load(history', serving', net', t) \in Nat
  BY <1>1, LoadType
<1>4. sent' \in Nat
  BY <1>1, UdpAssumption DEF TypeOK
<1>5. \A i \in ReqID : OnWay(net', i) \in {0, 1}
  BY DEF OnWay
<1>6. QED
  BY <1>2, <1>3, <1>4, <1>5

\* A step that adds to no request's load, opens none and loses what it takes away.
LEMMA NoMoreLoad ==
    ASSUME ServiceTypeOK, ServiceTypeOK', RecordInv,
           sent' = sent, lost' \in {lost, lost + 1},
           \A t \in Tag : Load(history', serving', net', t) <= Load(history, serving, net, t),
           \A i \in ReqID : requests'[i].isActive =>
               /\ requests[i].isActive
               /\ requests'[i].tag = requests[i].tag
               /\ requests'[i].attemptNum = requests[i].attemptNum
               /\ lost + OnWay(net, i) <= lost' + OnWay(net', i)
    PROVE  RecordInv'
<1>1. lost' \in Nat
  BY BoundType
<1> USE BoundType, BoundTypeNext, <1>1
<1> HIDE DEF Load, OnWay
<1>2. ASSUME NEW t \in Tag
      PROVE  /\ Load(history', serving', net', t) <= sendAttempts
             /\ Load(history', serving', net', t) <= lost' + 1
             /\ t > sent' => Load(history', serving', net', t) = 0
  BY DEF RecordInv
<1>3. ASSUME NEW i \in ReqID, requests'[i].isActive
      PROVE  /\ Load(history', serving', net', requests'[i].tag) <= requests'[i].attemptNum
             /\ requests'[i].attemptNum <= lost' + OnWay(net', i)
  BY <1>3 DEF RecordInv
<1>4. \A i, j \in ReqID :
          (requests'[i].isActive /\ requests'[j].isActive
               /\ requests'[i].tag = requests'[j].tag) => i = j
  BY DEF RecordInv
<1>5. QED
  BY <1>2, <1>3, <1>4 DEF RecordInv

\* An attempt is sent, the first or a further one.
LEMMA AttemptLoads ==
    ASSUME ServiceTypeOK, ServiceTypeOK', RecordInv,
           NEW i \in ReqID, NEW m, NEW t \in Tag,
           net' = net \cup {m}, m.to = "server", m.id = i, m.tag = t,
           TravelsIn(net, t) = 0,
           requests'[i].tag = t, requests'[i].attemptNum <= lost + 1,
           Load(history, serving, net, t) < requests'[i].attemptNum,
           \A j \in ReqID : j # i => requests'[j] = requests[j],
           \A j \in ReqID : (j # i /\ requests[j].isActive) => requests[j].tag # t,
           sent <= sent', t <= sent', UNCHANGED <<history, serving, lost>>
    PROVE  RecordInv'
<1> USE BoundType, BoundTypeNext
<1>2. /\ Load(history, serving, net', t) = Load(history, serving, net, t) + 1
      /\ \A u \in Tag : u # t =>
             Load(history, serving, net', u) = Load(history, serving, net, u)
  <2>1. TravelsIn(net', t) = 1
    BY DEF TravelsIn
  <2>2. \A u \in Tag : u # t => TravelsIn(net', u) = TravelsIn(net, u)
    BY DEF TravelsIn
  <2>3. \A u \in Tag : history[u] \in Nat /\ DueIn(serving, u) \in {0, 1}
    BY LoadType DEF ServiceTypeOK
  <2>4. Load(history, serving, net', t) = Load(history, serving, net, t) + 1
    BY <2>1, <2>3 DEF Load
  <2>5. ASSUME NEW u \in Tag, u # t
        PROVE  Load(history, serving, net', u) = Load(history, serving, net, u)
    BY <2>2, <2>5 DEF Load
  <2>6. QED
    BY <2>4, <2>5
<1>3. /\ OnWay(net', i) = 1
      /\ \A j \in ReqID : OnWay(net, j) \in {0, 1} /\ OnWay(net', j) \in {0, 1}
      /\ \A j \in ReqID : j # i => OnWay(net', j) = OnWay(net, j)
  BY DEF OnWay
<1>4. ASSUME NEW u \in Tag
      PROVE  /\ Load(history', serving', net', u) <= sendAttempts
             /\ Load(history', serving', net', u) <= lost' + 1
             /\ u > sent' => Load(history', serving', net', u) = 0
  <2>1. CASE u = t
    <3>1. requests'[i].attemptNum \in 0..sendAttempts
      OBVIOUS
    <3>2. Load(history', serving', net', u) = Load(history, serving, net, t) + 1
      BY <1>2, <2>1
    <3>3. ~(u > sent')
      BY <2>1
    <3>4. Load(history', serving', net', u) <= requests'[i].attemptNum
      BY <3>1, <3>2
    <3>5. QED
      BY <3>1, <3>2, <3>3, <3>4
  <2>2. CASE u # t
    <3>1. Load(history', serving', net', u) = Load(history, serving, net, u)
      BY <1>2, <2>2
    <3>2. u > sent' => u > sent
      OBVIOUS
    <3>3. QED
      BY <3>1, <3>2 DEF RecordInv
  <2>3. QED
    BY <2>1, <2>2
<1>5. ASSUME NEW j \in ReqID, requests'[j].isActive
      PROVE  /\ Load(history', serving', net', requests'[j].tag) <= requests'[j].attemptNum
             /\ requests'[j].attemptNum <= lost' + OnWay(net', j)
  <2>1. CASE j = i
    BY <1>2, <1>3, <2>1
  <2>2. CASE j # i
    <3>1. /\ requests'[j] = requests[j] /\ requests[j].tag # t /\ requests[j].tag \in Tag
          /\ OnWay(net', j) = OnWay(net, j)
      BY <1>3, <1>5, <2>2
    <3>2. Load(history', serving', net', requests'[j].tag)
              = Load(history, serving, net, requests[j].tag)
      BY <1>2, <3>1
    <3>3. QED
      BY <1>5, <3>1, <3>2 DEF RecordInv
  <2>3. QED
    BY <2>1, <2>2
<1>6. \A j, k \in ReqID :
          (requests'[j].isActive /\ requests'[k].isActive
               /\ requests'[j].tag = requests'[k].tag) => j = k
  BY DEF RecordInv
<1>7. QED
  BY <1>4, <1>5, <1>6 DEF RecordInv

\* At first nothing is entered, due or on its way.
LEMMA RecordInit == ServiceInit => RecordInv
<1> SUFFICES ASSUME ServiceInit PROVE RecordInv
  OBVIOUS
<1>1. net = {} /\ lost = 0 /\ \A i \in ReqID : ~requests[i].isActive
  BY DEF ServiceInit, Init
<1>2. \A t \in Tag : Load(history, serving, net, t) = 0
  BY <1>1 DEF ServiceInit, Idle, Load, DueIn, TravelsIn
<1>3. QED
  BY <1>1, <1>2, UdpAssumption DEF RecordInv

\* A request is sent again only when none of its datagrams travels.
LEMMA ResentAlone ==
    ASSUME Prompt, TypeOK, PromptInv, RecordInv, NEW i \in ReqID, Resend(i)
    PROVE  /\ OnWay(net, i) = 0
           /\ TravelsIn(net, requests[i].tag) = 0
<1>1. at = "looping" /\ Expired(i) /\ requests[i].isActive
  BY DEF Resend, Looking, Expired
<1>2. \A m \in net : m.id # i
  BY <1>1, TravellingNotExpired
<1>3. ASSUME NEW m \in net, m.tag = requests[i].tag PROVE FALSE
  <2>1. Pending(m.id, m.tag) /\ m.id \in ReqID
    BY DEF PromptInv, TypeOK, Datagram
  <2>2. m.id = i
    BY <1>1, <1>3, <2>1 DEF Pending, RecordInv
  <2>3. QED
    BY <1>2, <2>2
<1>4. QED
  BY <1>2, <1>3 DEF OnWay, TravelsIn

\* A datagram that is taken was the only one of its request to lead to an entry.
LEMMA TakenAlone ==
    ASSUME TypeOK, PromptInv, RecordInv, NEW m \in net, Take(m)
    PROVE  /\ TravelsIn(net, m.tag) = 1 /\ TravelsIn(net', m.tag) = 0
           /\ \A t \in Tag : t # m.tag => TravelsIn(net', t) = TravelsIn(net, t)
           /\ \A i \in ReqID : OnWay(net', i) = OnWay(net, i)
<1>1. /\ m \in Datagram /\ m.to = "server"
      /\ net' = (net \ {m}) \cup {Reply(m)}
  BY DEF Take, handle, TypeOK
<1>2. Reply(m).to = "client" /\ Reply(m).id = m.id
  BY <1>1 DEF Reply, Datagram
<1>3. ASSUME NEW k \in net, k.tag = m.tag PROVE k = m
  <2>1. /\ Pending(k.id, k.tag) /\ k.id \in ReqID
        /\ Pending(m.id, m.tag) /\ m.id \in ReqID
    BY DEF PromptInv, TypeOK, Datagram
  <2>2. k.id = m.id
    BY <1>3, <2>1 DEF Pending, RecordInv
  <2>3. QED
    BY <2>2 DEF PromptInv
<1>4. TravelsIn(net, m.tag) = 1
  BY <1>1 DEF TravelsIn
<1>5. TravelsIn(net', m.tag) = 0
  BY <1>1, <1>2, <1>3 DEF TravelsIn
<1>6. \A t \in Tag : t # m.tag => TravelsIn(net', t) = TravelsIn(net, t)
  BY <1>1, <1>2 DEF TravelsIn
<1>7. \A i \in ReqID : OnWay(net', i) = OnWay(net, i)
  BY <1>1, <1>2 DEF OnWay
<1>8. QED
  BY <1>4, <1>5, <1>6, <1>7

\* RecordInv is inductive, relative to the types and to PromptInv.
LEMMA RecordNext ==
    ASSUME Prompt, ServiceTypeOK, ServiceTypeOK', PromptInv, RecordInv,
           [ServiceNext]_serviceVars
    PROVE  RecordInv'
<1> USE UdpAssumption
<1>0. TypeOK
  BY DEF ServiceTypeOK
<1>1. ASSUME NEW i \in ReqID, send(i), UNCHANGED databaseVars PROVE RecordInv'
  <2> DEFINE t == sent + 1
             m == [to |-> "server", id |-> i, tag |-> t, attempt |-> 1, age |-> 0]
  <2>1. /\ t \in Tag /\ t > sent /\ sent <= sent' /\ t <= sent' /\ sent \in Nat
        /\ lost \in Nat
    BY <1>0, <1>1 DEF send, TypeOK, Tag
  <2>2. Load(history, serving, net, t) = 0
    BY <2>1 DEF RecordInv
  <2>3. TravelsIn(net, t) = 0
    BY <1>0, <2>1 DEF TravelsIn, TypeOK
  <2>4. /\ net' = net \cup {m} /\ m.to = "server" /\ m.id = i /\ m.tag = t
        /\ UNCHANGED <<history, serving, lost>>
    BY <1>1 DEF send, Sending, databaseVars
  <2>5. /\ requests'[i].tag = t /\ requests'[i].attemptNum = 1
        /\ \A j \in ReqID : j # i => requests'[j] = requests[j]
    BY <1>0, <1>1 DEF send, TypeOK
  <2>6. \A j \in ReqID : requests[j].isActive => requests[j].tag # t
    BY <1>0, <2>1 DEF TypeOK
  <2> HIDE DEF m, t
  <2>7. requests'[i].attemptNum <= lost + 1
        /\ Load(history, serving, net, t) < requests'[i].attemptNum
    BY <2>1, <2>2, <2>5
  <2>8. QED
    BY <2>1, <2>3, <2>4, <2>5, <2>6, <2>7, AttemptLoads
<1>2. ASSUME NEW i \in ReqID, Resend(i), UNCHANGED databaseVars PROVE RecordInv'
  <2> DEFINE t == requests[i].tag
             m == [to |-> "server", id |-> i, tag |-> t,
                   attempt |-> requests[i].attemptNum + 1, age |-> 0]
  <2>1. requests[i].isActive /\ t \in Tag /\ requests[i] \in Request
    BY <1>0, <1>2, BoundType DEF Resend, Expired, TypeOK
  <2>2. OnWay(net, i) = 0 /\ TravelsIn(net, t) = 0
    BY <1>0, <1>2, ResentAlone
  <2>3. /\ net' = net \cup {m} /\ m.to = "server" /\ m.id = i /\ m.tag = t
        /\ UNCHANGED <<history, serving, lost, sent>>
    BY <1>2 DEF Resend, Sending, databaseVars
  <2>4. /\ requests'[i].tag = t /\ requests'[i].attemptNum = requests[i].attemptNum + 1
        /\ \A j \in ReqID : j # i => requests'[j] = requests[j]
    BY <1>0, <1>2, <2>1 DEF Resend, TypeOK, Request
  <2>5. \A j \in ReqID : (j # i /\ requests[j].isActive) => requests[j].tag # t
    BY <2>1 DEF RecordInv
  <2>6. t <= sent /\ sent \in Nat /\ sent <= sent'
    BY <1>0, <2>1, <2>3 DEF TypeOK
  <2>7. /\ Load(history, serving, net, t) <= requests[i].attemptNum
        /\ requests[i].attemptNum <= lost + OnWay(net, i)
        /\ requests[i].attemptNum \in Nat /\ lost \in Nat
        /\ Load(history, serving, net, t) \in Nat
    BY <2>1, BoundType DEF RecordInv
  <2> HIDE DEF m, t
  <2>8. /\ requests'[i].attemptNum <= lost + 1
        /\ Load(history, serving, net, t) < requests'[i].attemptNum
    BY <2>2, <2>4, <2>7
  <2>9. QED
    BY <2>1, <2>2, <2>3, <2>4, <2>5, <2>6, <2>8, AttemptLoads
<1>3. ASSUME NEW i \in ReqID, Closed(i), UNCHANGED <<databaseVars, sent, lost>>,
             \A t \in Tag : TravelsIn(net', t) = TravelsIn(net, t),
             \A j \in ReqID : j # i => OnWay(net', j) = OnWay(net, j)
      PROVE  RecordInv'
  <2>1. ClosedType(i)
    BY <1>0, <1>3, ClosedKeepsType
  <2>2. \A t \in Tag : /\ Load(history', serving', net', t) = Load(history, serving, net, t)
                       /\ Load(history, serving, net, t) \in Nat
    BY <1>3, BoundType DEF Load, databaseVars
  <2>3. \A j \in ReqID : requests'[j].isActive => requests'[j] = requests[j] /\ j # i
    BY <2>1 DEF ClosedType
  <2>4. \A j \in ReqID : lost \in Nat /\ OnWay(net, j) \in {0, 1}
    BY BoundType
  <2> HIDE DEF Load, OnWay, TravelsIn
  <2>5. QED
    BY <1>3, <2>2, <2>3, <2>4, NoMoreLoad
<1>4. ASSUME NEW m \in net, ReceiveReply(m), UNCHANGED databaseVars PROVE RecordInv'
  <2>1. m.to = "client" /\ net' = net \ {m} /\ m.id \in ReqID
    BY <1>0, <1>4 DEF ReceiveReply, TypeOK, Datagram
  <2>2. \A t \in Tag : TravelsIn(net', t) = TravelsIn(net, t)
    BY <2>1 DEF TravelsIn
  <2>3. \A j \in ReqID : j # m.id => OnWay(net', j) = OnWay(net, j)
    BY <2>1 DEF OnWay
  <2>4. QED
    BY <1>3, <1>4, <2>1, <2>2, <2>3 DEF ReceiveReply
<1>5. ASSUME NEW i \in ReqID, ReportTimeout(i), UNCHANGED databaseVars PROVE RecordInv'
  BY <1>3, <1>5 DEF ReportTimeout
<1>6. ASSUME UNCHANGED <<databaseVars, requests, net, sent, lost>> PROVE RecordInv'
  BY <1>6 DEF RecordInv, databaseVars
<1>7. ASSUME NEW m \in net, Lose(m), UNCHANGED databaseVars PROVE RecordInv'
  <2>1. /\ net' = net \ {m} /\ lost' = lost + 1
        /\ UNCHANGED <<history, serving, requests, sent>>
    BY <1>7 DEF Lose, ownVars, databaseVars
  <2>2. \A t \in Tag : TravelsIn(net', t) <= TravelsIn(net, t)
    BY <2>1 DEF TravelsIn
  <2>3. ASSUME NEW t \in Tag
        PROVE  Load(history', serving', net', t) <= Load(history, serving, net, t)
    <3>1. /\ history[t] \in Nat /\ DueIn(serving, t) \in {0, 1}
          /\ TravelsIn(net', t) \in {0, 1} /\ TravelsIn(net, t) \in {0, 1}
      BY LoadType DEF ServiceTypeOK, DueIn, TravelsIn
    <3>2. TravelsIn(net', t) <= TravelsIn(net, t)
      BY <2>2
    <3>3. /\ Load(history', serving', net', t)
                 = history[t] + DueIn(serving, t) + TravelsIn(net', t)
          /\ Load(history, serving, net, t)
                 = history[t] + DueIn(serving, t) + TravelsIn(net, t)
      BY <2>1 DEF Load
    <3> HIDE DEF Load, DueIn, TravelsIn
    <3>4. QED
      BY <3>1, <3>2, <3>3
  <2>4. /\ lost \in Nat
        /\ \A j \in ReqID : OnWay(net, j) \in {0, 1} /\ OnWay(net', j) \in {0, 1}
    BY BoundType, BoundTypeNext
  <2> HIDE DEF Load, OnWay
  <2>5. QED
    BY <2>1, <2>3, <2>4, NoMoreLoad
<1>8. ASSUME Tick, UNCHANGED databaseVars PROVE RecordInv'
  <2> DEFINE Aged(m) == IF m.to = "server" THEN [m EXCEPT !.age = @ + 1] ELSE m
  <2>1. /\ net' = {Aged(m) : m \in net}
        /\ UNCHANGED <<history, serving, sent, lost>>
    BY <1>8 DEF Tick, databaseVars
  <2>2. \A m \in net : Aged(m).to = m.to /\ Aged(m).id = m.id /\ Aged(m).tag = m.tag
    BY <1>0 DEF TypeOK, Datagram
  <2> HIDE DEF Aged
  <2>3. \A t \in Tag : TravelsIn(net', t) = TravelsIn(net, t)
    BY <2>1, <2>2 DEF TravelsIn
  <2>4. \A j \in ReqID : OnWay(net', j) = OnWay(net, j)
    BY <2>1, <2>2 DEF OnWay
  <2>5. \A j \in ReqID : /\ requests'[j].isActive = requests[j].isActive
                         /\ requests'[j].tag = requests[j].tag
                         /\ requests'[j].attemptNum = requests[j].attemptNum
    BY <1>0, <1>8 DEF Tick, TypeOK, Request
  <2>6. \A t \in Tag : /\ Load(history', serving', net', t) = Load(history, serving, net, t)
                       /\ Load(history, serving, net, t) \in Nat
    BY <2>1, <2>3, BoundType DEF Load
  <2>7. \A j \in ReqID : lost \in Nat /\ OnWay(net, j) \in {0, 1}
    BY BoundType
  <2> HIDE DEF Load, OnWay, TravelsIn
  <2>8. QED
    BY <2>1, <2>4, <2>5, <2>6, <2>7, NoMoreLoad
<1>9. ASSUME NEW m \in net, Take(m) PROVE RecordInv'
  <2>1. /\ serving = Idle
        /\ serving'.next = "addToHistory" => serving'.tag = m.tag
        /\ UNCHANGED <<history, requests, sent, lost>>
    BY <1>9 DEF Take, handle, ownVars, Idle
  <2>2. /\ TravelsIn(net, m.tag) = 1 /\ TravelsIn(net', m.tag) = 0
        /\ \A t \in Tag : t # m.tag => TravelsIn(net', t) = TravelsIn(net, t)
        /\ \A j \in ReqID : OnWay(net', j) = OnWay(net, j)
    BY <1>0, <1>9, TakenAlone
  <2>3. \A t \in Tag : /\ history[t] \in Nat /\ DueIn(serving, t) = 0
                       /\ DueIn(serving', t) \in {0, 1}
                       /\ t # m.tag => DueIn(serving', t) = 0
                       /\ TravelsIn(net, t) \in {0, 1}
    BY <2>1, LoadType DEF DueIn, Idle, ServiceTypeOK
  <2>4. ASSUME NEW t \in Tag
        PROVE  Load(history', serving', net', t) <= Load(history, serving, net, t)
    <3>1. CASE t = m.tag
      BY <2>1, <2>2, <2>3, <3>1 DEF Load
    <3>2. CASE t # m.tag
      BY <2>1, <2>2, <2>3, <3>2 DEF Load
    <3>3. QED
      BY <3>1, <3>2
  <2>5. \A j \in ReqID : lost \in Nat /\ OnWay(net, j) \in {0, 1}
    BY BoundType
  <2> HIDE DEF Load, OnWay, TravelsIn, DueIn
  <2>6. QED
    BY <2>1, <2>2, <2>4, <2>5, NoMoreLoad
<1>10. ASSUME UNCHANGED vars,
              \A t \in Tag : history'[t] + DueIn(serving', t) <= history[t] + DueIn(serving, t)
       PROVE  RecordInv'
  <2>1. UNCHANGED <<requests, net, sent, lost>>
    BY <1>10 DEF vars, ownVars
  <2>2. history \in [Tag -> Nat] /\ history' \in [Tag -> Nat]
    BY DEF ServiceTypeOK
  <2>3. ASSUME NEW t \in Tag
        PROVE  Load(history', serving', net', t) <= Load(history, serving, net, t)
    <3>1. /\ history[t] \in Nat /\ history'[t] \in Nat
          /\ DueIn(serving, t) \in {0, 1} /\ DueIn(serving', t) \in {0, 1}
          /\ TravelsIn(net, t) \in {0, 1} /\ TravelsIn(net', t) = TravelsIn(net, t)
      BY <2>1, <2>2, LoadType DEF DueIn
    <3>2. QED
      BY <1>10, <3>1 DEF Load
  <2>4. \A j \in ReqID : lost \in Nat /\ OnWay(net, j) \in {0, 1}
    BY BoundType
  <2> HIDE DEF Load, OnWay
  <2>5. QED
    BY <2>1, <2>3, <2>4, NoMoreLoad
<1>11. CASE Record
  <2>1. history \in [Tag -> Nat]
    BY DEF ServiceTypeOK
  <2>2. CASE addToHistory
    <3>1. \A t \in Tag :
              history'[t] + DueIn(serving', t) <= history[t] + DueIn(serving, t)
      <4>1. /\ history' = [history EXCEPT ![serving.tag] = @ + 1]
            /\ serving.next = "addToHistory"
            /\ serving'.next = "saveSMSHistory"
        <5>1. serving \in [tag : Missed, next : Stage]
          BY <2>2 DEF addToHistory, ServiceTypeOK, Idle
        <5>2. QED
          BY <2>2, <5>1 DEF addToHistory
      <4>2. ASSUME NEW t \in Tag
            PROVE  history'[t] + DueIn(serving', t) <= history[t] + DueIn(serving, t)
        <5>1. /\ history'[t] = IF t = serving.tag THEN history[t] + 1 ELSE history[t]
              /\ history[t] \in Nat
          BY <2>1, <4>1
        <5>2. DueIn(serving', t) = 0 /\ DueIn(serving, t) = IF t = serving.tag THEN 1 ELSE 0
          BY <4>1 DEF DueIn
        <5>3. QED
          BY <5>1, <5>2
      <4>3. QED
        BY <4>2
    <3>2. QED
      BY <1>10, <2>2, <3>1 DEF addToHistory
  <2>3. CASE saveSMSHistory \/ DatabaseFails
    <3>1. \A t \in Tag :
              history'[t] + DueIn(serving', t) <= history[t] + DueIn(serving, t)
      <4>1. history' = history /\ serving' = Idle /\ UNCHANGED vars
        BY <2>3 DEF saveSMSHistory, DatabaseFails
      <4>2. \A t \in Tag : /\ DueIn(serving', t) = 0 /\ DueIn(serving, t) \in {0, 1}
                           /\ history[t] \in Nat
        BY <2>1, <4>1 DEF DueIn, Idle
      <4>3. QED
        BY <4>1, <4>2
    <3>2. QED
      BY <1>10, <2>3, <3>1 DEF saveSMSHistory, DatabaseFails
  <2>4. QED
    BY <1>11, <2>2, <2>3 DEF Record
<1>12. CASE UNCHANGED serviceVars
  BY <1>6, <1>12 DEF serviceVars, vars, ownVars
<1>13. ASSUME recv, UNCHANGED databaseVars PROVE RecordInv'
  BY <1>2, <1>4, <1>5, <1>6, <1>13 DEF recv, SocketDone, RecvAgain, Skip, NothingLeft
<1>14. ASSUME update, UNCHANGED databaseVars PROVE RecordInv'
  BY <1>6, <1>14 DEF update
<1>15. QED
  BY <1>1, <1>7, <1>8, <1>9, <1>11, <1>12, <1>13, <1>14 DEF ServiceNext, Outside, Serve

\* What makes EntriesWithinLosses inductive: the entries made, due and on the way.
THEOREM RecordCorrect ==
    ASSUME Prompt PROVE ServiceSpec => []RecordInv
<1>1. ServiceInit => RecordInv
  BY RecordInit
<1>2. ServiceTypeOK /\ ServiceTypeOK' /\ PromptInv /\ RecordInv /\ [ServiceNext]_serviceVars
          => RecordInv'
  BY RecordNext
<1>3. QED
  BY <1>1, <1>2, ServiceIsAllowed, ServiceTypeCorrect, PromptCorrect, PTL DEF ServiceSpec

\* A missed call is entered in the history at most once more than datagrams were
\* lost, and at most once per attempt, however requests, replies and the database
\* interleave: as long as answers are prompt only a loss makes a duplicate.
THEOREM FewEntries ==
    ASSUME Prompt PROVE ServiceSpec => []EntriesWithinLosses
<1>1. ASSUME ServiceTypeOK, RecordInv PROVE EntriesWithinLosses
  <2>1. ASSUME NEW t \in Tag PROVE history[t] <= Load(history, serving, net, t)
    <3>1. history[t] \in Nat /\ DueIn(serving, t) \in {0, 1} /\ TravelsIn(net, t) \in {0, 1}
      BY <1>1, LoadType DEF ServiceTypeOK
    <3>2. QED
      BY <3>1 DEF Load
  <2>2. \A t \in Tag : /\ history[t] \in Nat /\ Load(history, serving, net, t) \in Nat
                       /\ lost \in Nat /\ sendAttempts \in Nat
    BY <1>1, BoundType DEF ServiceTypeOK
  <2> HIDE DEF Load
  <2>3. QED
    BY <1>1, <2>1, <2>2 DEF RecordInv, EntriesWithinLosses
<1>2. QED
  BY <1>1, ServiceTypeCorrect, RecordCorrect, PTL

\* Together with the service UDPRequest implements RequestReply.
THEOREM ServiceRequestReply ==
    ASSUME Prompt PROVE ServiceSpec => ImplementsRequestReply
  BY ServiceIsAllowed, RequestReplyImplemented, PTL
=============================================================================
