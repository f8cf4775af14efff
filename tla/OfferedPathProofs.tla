------------------------- MODULE OfferedPathProofs -------------------------
(***************************************************************************)
(* Theorems about OfferedPath, the sessions of WrapSessions, the headers of *)
(* SipDiversion and the bytes of ScpWire it is built on, for any width of   *)
(* the session number, fields of any size, any calls, headers and texts.    *)
(***************************************************************************)
EXTENDS OfferedPath, SequenceTheorems, WellFoundedInduction, TLAPS

-----------------------------------------------------------------------------
(* Sessions. *)

\* The strengthening: numbers are handed out one after the other.  Of a session
\* among the last M, lastSession tells how long ago it was created: the distance,
\* or the distance minus M when the number has wrapped since.
Distance(k) == Len(created) - k + 1

Numbered ==
    \A k \in 1..Len(created) :
        Distance(k) <= M =>
            \/ created[k].session = lastSession - Distance(k)
            \/ created[k].session = lastSession - Distance(k) + M

\* Before the first wrap the numbers are the positions.
NotWrapped ==
    /\ Len(created) < M => lastSession = Len(created)
    /\ \A k \in 1..Len(created) : k < M => created[k].session = k - 1

SInv == SessionTypeOK /\ Numbered /\ NotWrapped /\ RecentIsRouted /\ NewestIsUsed
        /\ UnknownOnlyAtWrap

\* The variables of SessionList keep their types and hold what SInv says.
LEMMA Initially == SessionInit => SInv
<1> SUFFICES ASSUME SessionInit PROVE SInv
  OBVIOUS
<1>1. 0 \in TSessionID /\ M - 1 \in TSessionID
  BY WrapAssumption DEF TSessionID
<1>2. SessionTypeOK
  BY <1>1 DEF SessionInit, SessionTypeOK, UNKNOWN_SESSION
<1>3. Len(created) = 0
  BY DEF SessionInit
<1> QED
  BY <1>2, <1>3 DEF SInv, SessionInit, Numbered, NotWrapped, RecentIsRouted, NewestIsUsed,
      UnknownOnlyAtWrap

\* ... and so they do after a session was created.
LEMMA Creation == SInv /\ [\E c \in Channels : createSession(c)]_sessionVars => SInv'
<1> SUFFICES ASSUME SInv, [\E c \in Channels : createSession(c)]_sessionVars PROVE SInv'
  OBVIOUS
<1>1. CASE UNCHANGED sessionVars
  BY <1>1 DEF sessionVars, SInv, SessionTypeOK, Numbered, Distance, NotWrapped, RecentIsRouted,
      NewestIsUsed, UnknownOnlyAtWrap, getChannelBySession, getSessionByChannel
<1>2. ASSUME NEW c \in Channels, createSession(c) PROVE SInv'
  <2> DEFINE n == Len(created)
             r == [channel |-> c, session |-> lastSession]
  <2>1. /\ lastSession' = (IF lastSession = M - 1 THEN 0 ELSE lastSession + 1)
        /\ channel2session' = [channel2session EXCEPT ![c] = lastSession]
        /\ session2channel' = [session2channel EXCEPT ![lastSession] = c]
        /\ created' = Append(created, r)
    BY <1>2 DEF createSession, Following
  <2>2. /\ lastSession \in TSessionID
        /\ channel2session \in [Channels -> TSessionID]
        /\ session2channel \in [TSessionID -> Channels \cup {NoChannel}]
        /\ created \in Seq([channel : Channels, session : TSessionID])
    BY DEF SInv, SessionTypeOK
  <2>3. M \in Nat /\ M > 0
    BY WrapAssumption
  <2>4. n \in Nat /\ Len(created') = n + 1 /\ created'[n + 1] = r
        /\ \A k \in 1..n : created'[k] = created[k]
    BY <2>1, <2>2
  <2>5. SessionTypeOK'
    BY <2>1, <2>2, <2>3 DEF SessionTypeOK, TSessionID
  <2>6. \A k \in 1..n : created[k].session \in 0..(M - 1) /\ created[k].channel \in Channels
    <3> DEFINE S == [channel : Channels, session : TSessionID]
    <3>1. created \in Seq(S)
      BY <2>2
    <3> HIDE DEF S
    <3>2. \A k \in 1..n : created[k] \in S
      BY <3>1
    <3> QED
      BY <3>2 DEF S, TSessionID
  <2>7. lastSession \in 0..(M - 1)
    BY <2>2 DEF TSessionID
  <2> HIDE DEF n
  <2>8. Numbered'
    <3> SUFFICES ASSUME NEW k \in 1..(n + 1), n + 1 - k + 1 <= M
                 PROVE  \/ created'[k].session = lastSession' - (n + 1 - k + 1)
                        \/ created'[k].session = lastSession' - (n + 1 - k + 1) + M
      BY <2>4 DEF Numbered, Distance
    <3>1. CASE k = n + 1
      BY <2>1, <2>3, <2>4, <2>7, <3>1
    <3>2. CASE k \in 1..n
      <4>1. \/ created[k].session = lastSession - (n - k + 1)
            \/ created[k].session = lastSession - (n - k + 1) + M
        <5>1. n - k + 1 <= M
          BY <2>3, <2>4, <3>2
        <5> QED
          BY <3>2, <5>1 DEF SInv, Numbered, Distance, n
      <4>2. created'[k].session = created[k].session /\ created[k].session \in 0..(M - 1)
        BY <2>4, <2>6, <3>2
      <4>3. (lastSession' = 0 /\ lastSession = M - 1) \/ lastSession' = lastSession + 1
        BY <2>1
      <4> QED
        BY <2>3, <2>4, <2>7, <3>2, <4>1, <4>2, <4>3
    <3> QED
      BY <2>4, <3>1, <3>2
  <2>9. NotWrapped'
    <3>1. n + 1 < M => lastSession' = n + 1
      BY <2>1, <2>3, <2>4 DEF SInv, NotWrapped, n
    <3>2. ASSUME NEW k \in 1..(n + 1), k < M PROVE created'[k].session = k - 1
      <4>1. CASE k = n + 1
        BY <2>3, <2>4, <3>2, <4>1 DEF SInv, NotWrapped, n
      <4>2. CASE k \in 1..n
        BY <2>4, <3>2, <4>2 DEF SInv, NotWrapped, n
      <4> QED
        BY <2>4, <4>1, <4>2
    <3> QED
      BY <2>4, <3>1, <3>2 DEF NotWrapped
  <2>10. RecentIsRouted'
    <3> SUFFICES ASSUME NEW k \in 1..(n + 1), n + 1 - k < M
                 PROVE  session2channel'[created'[k].session] = created'[k].channel
      BY <2>4 DEF RecentIsRouted, getChannelBySession
    <3>1. CASE k = n + 1
      BY <2>1, <2>2, <2>4, <3>1
    <3>2. CASE k \in 1..n
      <4>1. session2channel[created[k].session] = created[k].channel
        BY <2>3, <2>4, <3>2 DEF SInv, RecentIsRouted, getChannelBySession, n
      <4>2. \/ created[k].session = lastSession - (n - k + 1)
            \/ created[k].session = lastSession - (n - k + 1) + M
        BY <2>3, <2>4, <3>2 DEF SInv, Numbered, Distance, n
      <4>3. created[k].session # lastSession
        BY <2>3, <2>4, <2>7, <3>2, <4>2
      <4> QED
        BY <2>1, <2>2, <2>4, <2>6, <3>2, <4>1, <4>3 DEF TSessionID
    <3> QED
      BY <2>4, <3>1, <3>2
  <2>11. NewestIsUsed'
    <3> SUFFICES ASSUME NEW k \in 1..(n + 1),
                        \A j \in (k + 1)..(n + 1) : created'[j].channel # created'[k].channel
                 PROVE  channel2session'[created'[k].channel] = created'[k].session
      BY <2>4 DEF NewestIsUsed, getSessionByChannel
    <3>1. CASE k = n + 1
      BY <2>1, <2>2, <2>4, <3>1
    <3>2. CASE k \in 1..n
      <4>1. created[k].channel # c
        BY <2>4, <3>2
      <4>2. \A j \in (k + 1)..n : created[j].channel # created[k].channel
        BY <2>4, <3>2
      <4>3. channel2session[created[k].channel] = created[k].session
        BY <3>2, <4>2 DEF SInv, NewestIsUsed, getSessionByChannel, n
      <4> QED
        BY <2>1, <2>2, <2>4, <2>6, <3>2, <4>1, <4>3
    <3> QED
      BY <2>4, <3>1, <3>2
  <2>12. UnknownOnlyAtWrap'
    <3> SUFFICES ASSUME NEW k \in 1..(n + 1), n + 1 < M
                 PROVE  channel2session'[created'[k].channel] # M - 1
      BY <2>3, <2>4 DEF UnknownOnlyAtWrap, getSessionByChannel, UNKNOWN_SESSION
    <3>1. lastSession # M - 1
      BY <2>3, <2>4 DEF SInv, NotWrapped, n
    <3>2. CASE created'[k].channel = c
      BY <2>1, <2>2, <3>1, <3>2
    <3>3. CASE k \in 1..n /\ created[k].channel # c
      <4>1. channel2session[created[k].channel] # M - 1
        BY <2>3, <2>4, <3>3 DEF SInv, UnknownOnlyAtWrap, getSessionByChannel, UNKNOWN_SESSION, n
      <4> QED
        BY <2>1, <2>2, <2>4, <2>6, <3>3, <4>1
    <3> QED
      BY <2>4, <3>2, <3>3
  <2> QED
    BY <2>5, <2>8, <2>9, <2>10, <2>11, <2>12 DEF SInv
<1> QED
  BY <1>1, <1>2

\* SInv holds whenever sessions are created.
LEMMA SessionsHold == SessionSpec => []SInv
BY Initially, Creation, PTL DEF SessionSpec

\* A reply reaches the channel it is for while no more than M - 1 sessions were
\* created after its own, wherever the numbers wrap.
THEOREM RecentRouted == SessionSpec => []RecentIsRouted
<1>1. SInv => RecentIsRouted
  BY DEF SInv
<1> QED
  BY <1>1, SessionsHold, PTL

\* Events are sent under the channel's newest session.
THEOREM NewestUsed == SessionSpec => []NewestIsUsed
<1>1. SInv => NewestIsUsed
  BY DEF SInv
<1> QED
  BY <1>1, SessionsHold, PTL

\* The assertions on a channel's session cannot fail before M sessions were created.
THEOREM UnknownAfterWrap == SessionSpec => []UnknownOnlyAtWrap
<1>1. SInv => UnknownOnlyAtWrap
  BY DEF SInv
<1> QED
  BY <1>1, SessionsHold, PTL

-----------------------------------------------------------------------------
(* The path of an offered call. *)

\* Among the sessions of a channel one is the newest.
HasNewest ==
    \A c \in Channels :
        (\E k \in 1..Len(created) : created[k].channel = c) =>
            \E k \in 1..Len(created) :
                /\ created[k].channel = c
                /\ \A j \in (k + 1)..Len(created) : created[j].channel # c

\* While an event or its command is on the way, it is under the newest session of the
\* channel that asked.
AskedUnderNewest ==
    /\ message = [kind |-> message.kind, session |-> message.session,
                  payload |-> message.payload]
    /\ (ending = "none" /\ message.kind # "none") =>
          /\ asked.channel \in Channels
          /\ message.session = getSessionByChannel(asked.channel)

PathInv == SInv /\ HasNewest /\ AskedUnderNewest /\ AssertionOnlyAtWrap

\* A session is only ever added to those created.
LEMMA CreationAppends ==
    ASSUME SInv, NEW c \in Channels, createSession(c)
    PROVE  /\ Len(created) \in Nat /\ Len(created') = Len(created) + 1
           /\ created'[Len(created) + 1].channel = c
           /\ \A k \in 1..Len(created) : created'[k] = created[k]
           /\ channel2session'[c] = lastSession
<1>1. /\ created \in Seq([channel : Channels, session : TSessionID])
      /\ channel2session \in [Channels -> TSessionID]
  BY DEF SInv, SessionTypeOK
<1>2. /\ created' = Append(created, [channel |-> c, session |-> lastSession])
      /\ channel2session' = [channel2session EXCEPT ![c] = lastSession]
  BY DEF createSession
<1>3. QED
  BY <1>1, <1>2

\* A new session is the newest of its channel, and none of another.
LEMMA CreationNewest ==
    ASSUME SInv, HasNewest, NEW c \in Channels, createSession(c)
    PROVE  HasNewest'
<1> DEFINE n == Len(created)
<1>1. /\ n \in Nat /\ Len(created') = n + 1 /\ created'[n + 1].channel = c
      /\ \A k \in 1..n : created'[k] = created[k]
  BY CreationAppends
<1>2. ASSUME NEW d \in Channels, \E k \in 1..(n + 1) : created'[k].channel = d
      PROVE  \E k \in 1..(n + 1) :
                 /\ created'[k].channel = d
                 /\ \A j \in (k + 1)..(n + 1) : created'[j].channel # d
  <2>1. CASE d = c
    <3>1. n + 1 \in 1..(n + 1) /\ ~(\E j \in (n + 1 + 1)..(n + 1) : TRUE)
      BY <1>1
    <3>2. QED
      BY <1>1, <2>1, <3>1
  <2>2. CASE d # c
    <3>1. \E k \in 1..n : created[k].channel = d
      BY <1>1, <1>2, <2>2
    <3>2. PICK k \in 1..n : /\ created[k].channel = d
                            /\ \A j \in (k + 1)..n : created[j].channel # d
      BY <3>1 DEF HasNewest
    <3> HIDE DEF n
    <3>3. \A j \in (k + 1)..(n + 1) : j = n + 1 \/ (j \in (k + 1)..n /\ j \in 1..n)
      BY <1>1
    <3>4. \A j \in (k + 1)..(n + 1) : created'[j].channel # d
      BY <1>1, <2>2, <3>2, <3>3
    <3>5. k \in 1..(n + 1) /\ created'[k].channel = d
      BY <1>1, <3>2
    <3>6. QED
      BY <3>4, <3>5
  <2>3. QED
    BY <2>1, <2>2
<1>3. QED
  BY <1>1, <1>2 DEF HasNewest

\* A channel that had a session is told it has none only at the wrap.
LEMMA UnknownChannel ==
    ASSUME SInv, NEW c, \E k \in 1..Len(created) : created[k].channel = c,
           getSessionByChannel(c) = UNKNOWN_SESSION
    PROVE  Len(created) >= M
BY DEF SInv, UnknownOnlyAtWrap

\* What every step of the path keeps.
LEMMA PathNext == PathInv /\ [Next]_vars => PathInv'
<1> SUFFICES ASSUME PathInv, [Next]_vars PROVE PathInv'
  OBVIOUS
<1>1. SInv /\ HasNewest /\ AskedUnderNewest /\ AssertionOnlyAtWrap
  BY DEF PathInv
<1>2. Len(created) \in Nat /\ M \in Nat
  BY <1>1, WrapAssumption DEF SInv, SessionTypeOK
<1>3. ASSUME UNCHANGED sessionVars
      PROVE  SInv' /\ HasNewest' /\ (ending' = ending => AssertionOnlyAtWrap')
  <2>1. SInv'
    BY <1>1, <1>3, Creation
  <2>2. QED
    BY <1>1, <1>3, <2>1 DEF HasNewest, AssertionOnlyAtWrap, sessionVars
<1>4. ASSUME NEW c \in Channels, createSession(c), ending' # "assertion"
      PROVE  SInv' /\ HasNewest' /\ AssertionOnlyAtWrap'
  <2>1. SInv'
    BY <1>1, <1>4, Creation
  <2>2. HasNewest'
    BY <1>1, <1>4, CreationNewest
  <2>3. QED
    BY <1>4, <2>1, <2>2 DEF AssertionOnlyAtWrap
<1>5. ASSUME NEW c \in Channels, NEW call \in Calls, Offered(c, call) PROVE PathInv'
  <2>1. SInv' /\ HasNewest' /\ AssertionOnlyAtWrap'
    BY <1>4, <1>5 DEF Offered
  <2>2. AskedUnderNewest'
    <3>1. channel2session'[c] = lastSession
      BY <1>1, <1>5, CreationAppends DEF Offered
    <3>2. asked'.channel = c
      BY <1>5 DEF Offered
    <3>3. /\ message' = [kind |-> message'.kind, session |-> message'.session,
                         payload |-> message'.payload]
          /\ message'.session = lastSession
      BY <1>5 DEF Offered, send
    <3>4. QED
      BY <3>1, <3>2, <3>3 DEF AskedUnderNewest, getSessionByChannel
  <2>3. QED
    BY <2>1, <2>2 DEF PathInv
<1>6. ASSUME NEW c \in Channels, NEW payload, Later(c, payload) PROVE PathInv'
  <2>1. UNCHANGED sessionVars
    BY <1>6 DEF Later
  <2>2. SInv' /\ HasNewest'
    BY <1>3, <2>1
  <2>3. AssertionOnlyAtWrap'
    <3>1. CASE getSessionByChannel(c) = UNKNOWN_SESSION
      <4>1. Len(created) >= M
        BY <1>1, <1>6, <3>1, UnknownChannel DEF Later
      <4>2. QED
        BY <2>1, <4>1 DEF AssertionOnlyAtWrap, sessionVars
    <3>2. CASE getSessionByChannel(c) # UNKNOWN_SESSION
      BY <1>3, <1>6, <2>1, <3>2 DEF Later
    <3>3. QED
      BY <3>1, <3>2
  <2>4. AskedUnderNewest'
    <3>1. asked'.channel = c
      BY <1>6 DEF Later
    <3>2. CASE getSessionByChannel(c) = UNKNOWN_SESSION
      BY <1>1, <1>6, <3>2 DEF Later, AskedUnderNewest
    <3>3. CASE getSessionByChannel(c) # UNKNOWN_SESSION
      BY <1>6, <2>1, <3>1, <3>3 DEF Later, send, AskedUnderNewest, getSessionByChannel, sessionVars
    <3>4. QED
      BY <3>2, <3>3
  <2>5. QED
    BY <2>2, <2>3, <2>4 DEF PathInv
<1>7. ASSUME NEW c \in Channels, SecondEvent(c) PROVE PathInv'
  <2>1. SInv' /\ HasNewest' /\ AssertionOnlyAtWrap'
    <3>1. CASE createSession(c)
      BY <1>4, <1>7, <3>1 DEF SecondEvent
    <3>2. CASE UNCHANGED sessionVars
      BY <1>3, <1>7, <3>2 DEF SecondEvent, AssertionOnlyAtWrap
    <3>3. QED
      BY <1>7, <3>1, <3>2 DEF SecondEvent
  <2>2. AskedUnderNewest'
    BY <1>1, <1>7 DEF SecondEvent, AskedUnderNewest
  <2>3. QED
    BY <2>1, <2>2 DEF PathInv
<1>8. CASE OnOffered \/ OnUnreadable \/ OnOther
  <2>1. /\ UNCHANGED <<sessionVars, ending, asked>> /\ message.kind # "none"
        /\ \E kind, payload : \/ message' = [message EXCEPT !.kind = kind, !.payload = payload]
                              \/ message' = [message EXCEPT !.kind = kind]
    BY <1>8 DEF OnOffered, OnUnreadable, OnOther, Offers, replies
  <2>2. /\ message' = [kind |-> message'.kind, session |-> message'.session,
                       payload |-> message'.payload]
        /\ message'.session = message.session
    BY <1>1, <2>1 DEF AskedUnderNewest
  <2>3. AskedUnderNewest'
    BY <1>1, <2>1, <2>2 DEF AskedUnderNewest, getSessionByChannel, sessionVars
  <2>4. QED
    BY <1>3, <2>1, <2>3 DEF PathInv
<1>9. CASE processPacket
  <2>1. UNCHANGED sessionVars /\ ending' = ending /\ message' = NoMessage
    BY <1>9 DEF processPacket
  <2>2. AskedUnderNewest'
    BY <2>1 DEF AskedUnderNewest, NoMessage
  <2>3. QED
    BY <1>3, <2>1, <2>2 DEF PathInv
<1>10. CASE UNCHANGED vars
  <2>1. UNCHANGED sessionVars /\ ending' = ending /\ message' = message /\ asked' = asked
    BY <1>10 DEF vars, pathVars
  <2>2. AskedUnderNewest'
    BY <1>1, <2>1 DEF AskedUnderNewest, getSessionByChannel, sessionVars
  <2>3. QED
    BY <1>3, <2>1, <2>2 DEF PathInv
<1>11. QED
  BY <1>5, <1>6, <1>7, <1>8, <1>9, <1>10 DEF Next

\* No session, no message.
LEMMA PathInit == Init => PathInv
<1> SUFFICES ASSUME Init PROVE PathInv
  OBVIOUS
<1>1. SInv
  BY Initially DEF Init
<1>2. HasNewest
  BY DEF Init, SessionInit, HasNewest
<1>3. QED
  BY <1>1, <1>2 DEF Init, PathInv, AskedUnderNewest, AssertionOnlyAtWrap, NoMessage

\* PathInv holds on every path.
LEMMA PathHolds == Spec => []PathInv
BY PathInit, PathNext, PTL DEF Spec

\* On the whole path, the data of the messages included, a session leads back to its
\* channel while fewer than M were created after it.
THEOREM PathRouted == Spec => []RecentIsRouted
<1>1. PathInv => RecentIsRouted
  BY DEF PathInv, SInv
<1>2. QED
  BY <1>1, PathHolds, PTL

\* The assertions on a channel's session hold until M sessions were created.
THEOREM PathAssertions == Spec => []AssertionOnlyAtWrap
<1>1. PathInv => AssertionOnlyAtWrap
  BY DEF PathInv
<1>2. QED
  BY <1>1, PathHolds, PTL

\* A command acts on the channel whose event it answers, for any width of the number
\* and any number of wraps: nothing is created between the event and its command, so
\* the session of the event is the newest of its channel when the command comes.
THEOREM ReplyReaches == Spec => ReplyReachesAsker
<1> DEFINE A == (processPacket /\ \E k \in 1..Len(created) :
                     created[k].channel = asked.channel /\ Len(created) - k < M) =>
                    done'.channel = asked.channel
<1>1. PathInv /\ [Next]_vars => [A]_vars
  <2> SUFFICES ASSUME PathInv, processPacket,
                      NEW k \in 1..Len(created), created[k].channel = asked.channel,
                      Len(created) - k < M
               PROVE  done'.channel = asked.channel
    OBVIOUS
  <2>1. /\ SInv /\ HasNewest /\ Len(created) \in Nat /\ M \in Nat
        /\ asked.channel \in Channels
        /\ message.session = getSessionByChannel(asked.channel)
    BY WrapAssumption DEF PathInv, SInv, SessionTypeOK, AskedUnderNewest, processPacket
  <2>2. PICK j \in 1..Len(created) :
            /\ created[j].channel = asked.channel
            /\ \A i \in (j + 1)..Len(created) : created[i].channel # asked.channel
    BY <2>1 DEF HasNewest
  <2>3. ~(k \in (j + 1)..Len(created))
    BY <2>2
  <2>4. Len(created) - j < M
    BY <2>1, <2>3
  <2>5. getSessionByChannel(asked.channel) = created[j].session
    BY <2>1, <2>2 DEF SInv, NewestIsUsed
  <2>6. getChannelBySession(message.session) = asked.channel
    BY <2>1, <2>2, <2>4, <2>5 DEF SInv, RecentIsRouted
  <2>7. asked.channel # NoChannel
    BY <2>1, WrapAssumption
  <2>8. QED
    BY <2>6, <2>7 DEF processPacket
<1>2. QED
  BY <1>1, PathHolds, PTL DEF Spec, ReplyReachesAsker

-----------------------------------------------------------------------------
(* The diversion.  What the loops over headers and parameters compute is   *)
(* shown turn by turn, by induction as a fact about sets of numbers.       *)

\* Of some numbers one is the least.
LEMMA Least ==
    ASSUME NEW T \in SUBSET Nat, T # {} PROVE \E n \in T : \A m \in T : n <= m
<1>1. PICK n \in T : \A m \in T : ~(<<m, n>> \in OpToRel(<, Nat))
  BY WFMin, NatLessThanWellFounded
<1>2. \A m \in T : ~(m < n)
  BY <1>1 DEF OpToRel
<1>3. QED
  BY <1>2

\* A set with 0 that has the successor of each of its numbers has every number: of
\* the numbers it has not, none is the least.
LEMMA Induction ==
    ASSUME NEW S, 0 \in S, \A k \in Nat : k \in S => k + 1 \in S
    PROVE  \A k \in Nat : k \in S
<1> DEFINE T == {k \in Nat : k \notin S}
<1>1. SUFFICES ASSUME T # {} PROVE FALSE
  OBVIOUS
<1>2. PICK n \in T : \A m \in T : n <= m
  BY <1>1, T \in SUBSET Nat, Least
<1>3. n \in Nat /\ n # 0 /\ n - 1 \in Nat /\ ~(n <= n - 1)
  OBVIOUS
<1>4. n - 1 \notin T
  BY <1>2, <1>3
<1>5. n - 1 + 1 \in S
  BY <1>3, <1>4
<1>6. QED
  BY <1>3, <1>5

\* A set of positions has a last one.
LEMMA LastOne ==
    ASSUME NEW n \in Nat, NEW s \in SUBSET (1..n), s # {}
    PROVE  Max(s) \in s /\ \A x \in s : x <= Max(s)
<1> DEFINE S == {k \in Nat : \A t \in SUBSET (1..k) : t # {} => \E m \in t : \A x \in t : x <= m}
<1>1. 0 \in S
  <2>1. \A t \in SUBSET (1..0) : t = {}
    OBVIOUS
  <2>2. QED
    BY <2>1
<1>2. ASSUME NEW k \in Nat, k \in S PROVE k + 1 \in S
  <2>1. ASSUME NEW t \in SUBSET (1..(k + 1)), t # {}
        PROVE  \E m \in t : \A x \in t : x <= m
    <3>1. CASE k + 1 \in t
      <4>1. \A x \in t : x <= k + 1
        OBVIOUS
      <4>2. QED
        BY <3>1, <4>1
    <3>2. CASE k + 1 \notin t
      <4>1. t \in SUBSET (1..k)
        BY <3>2
      <4>2. QED
        BY <1>2, <2>1, <4>1
    <3>3. QED
      BY <3>1, <3>2
  <2>2. QED
    BY <2>1
<1>3. n \in S
  <2> HIDE DEF S
  <2>1. QED
    BY <1>1, <1>2, Induction
<1>4. PICK m \in s : \A x \in s : x <= m
  BY <1>3
<1>5. \A x \in s : x \in Int
  OBVIOUS
<1>6. QED
  BY <1>4, <1>5 DEF Max

\* What the fold over the headers is: a function of sets of positions.
FoldedTo(g, n, headers) ==
    g = [s \in SUBSET (1..n) |->
            IF s = {} THEN NoDiversion ELSE OfHeader(g[s \ {Max(s)}], headers[Max(s)])]

\* There is such a function.
LEMMA FoldExists == ASSUME NEW n \in Nat, NEW headers PROVE \E g : FoldedTo(g, n, headers)
<1> DEFINE S == {k \in Nat : \E g : FoldedTo(g, k, headers)}
<1>1. 0 \in S
  <2> DEFINE g == [s \in SUBSET (1..0) |-> NoDiversion]
  <2>1. \A s \in SUBSET (1..0) : s = {}
    OBVIOUS
  <2>2. FoldedTo(g, 0, headers)
    BY <2>1 DEF FoldedTo
  <2>3. QED
    BY <2>2
<1>2. ASSUME NEW k \in Nat, k \in S PROVE k + 1 \in S
  <2>1. PICK g : FoldedTo(g, k, headers)
    BY <1>2
  <2> DEFINE h == [s \in SUBSET (1..(k + 1)) |->
                      IF s = {} THEN NoDiversion
                      ELSE OfHeader(g[s \ {Max(s)}], headers[Max(s)])]
  <2>2. ASSUME NEW t \in SUBSET (1..k) PROVE h[t] = g[t]
    <3>1. t \in SUBSET (1..(k + 1))
      OBVIOUS
    <3>2. h[t] = IF t = {} THEN NoDiversion ELSE OfHeader(g[t \ {Max(t)}], headers[Max(t)])
      BY <3>1
    <3>3. g[t] = IF t = {} THEN NoDiversion ELSE OfHeader(g[t \ {Max(t)}], headers[Max(t)])
      BY <2>1 DEF FoldedTo
    <3>4. QED
      BY <3>2, <3>3
  <2>3. ASSUME NEW s \in SUBSET (1..(k + 1)), s # {} PROVE s \ {Max(s)} \in SUBSET (1..k)
    <3>1. Max(s) \in s /\ \A x \in s : x <= Max(s)
      BY <2>3, LastOne, k + 1 \in Nat
    <3>2. ASSUME NEW x \in s, x # Max(s) PROVE x \in 1..k
      <4>1. x \in 1..(k + 1) /\ Max(s) \in 1..(k + 1) /\ x <= Max(s)
        BY <3>1
      <4>2. QED
        BY <3>2, <4>1
    <3>3. QED
      BY <3>2
  <2>4. ASSUME NEW s \in SUBSET (1..(k + 1)), s # {}
        PROVE  h[s] = OfHeader(h[s \ {Max(s)}], headers[Max(s)])
    <3>1. h[s \ {Max(s)}] = g[s \ {Max(s)}]
      BY <2>2, <2>3, <2>4
    <3>2. h[s] = OfHeader(g[s \ {Max(s)}], headers[Max(s)])
      BY <2>4
    <3> HIDE DEF h
    <3>3. QED
      BY <3>1, <3>2
  <2>5. h[{}] = NoDiversion
    OBVIOUS
  <2>6. h = [s \in SUBSET (1..(k + 1)) |->
                IF s = {} THEN NoDiversion ELSE OfHeader(h[s \ {Max(s)}], headers[Max(s)])]
    <3>1. h = [s \in SUBSET (1..(k + 1)) |-> h[s]]
      OBVIOUS
    <3> HIDE DEF h
    <3>2. \A s \in SUBSET (1..(k + 1)) :
              h[s] = IF s = {} THEN NoDiversion ELSE OfHeader(h[s \ {Max(s)}], headers[Max(s)])
      BY <2>4, <2>5
    <3> DEFINE r == [s \in SUBSET (1..(k + 1)) |->
                        IF s = {} THEN NoDiversion
                        ELSE OfHeader(h[s \ {Max(s)}], headers[Max(s)])]
    <3>3. \A s \in SUBSET (1..(k + 1)) : h[s] = r[s]
      BY <3>2
    <3>4. r = [s \in SUBSET (1..(k + 1)) |-> r[s]]
      OBVIOUS
    <3> HIDE DEF r
    <3>5. h = r
      BY <3>1, <3>3, <3>4
    <3>6. QED
      BY <3>5 DEF r
  <2> HIDE DEF h
  <2>7. QED
    BY <2>6 DEF FoldedTo
<1>3. n \in S
  <2> HIDE DEF S
  <2>1. QED
    BY <1>1, <1>2, Induction
<1>4. QED
  BY <1>3

\* The loop of GetSIPRdPN: one turn after the other, from the first header to the last.
LEMMA Loop ==
    ASSUME NEW headers, NEW n \in Nat, DOMAIN headers = 1..n
    PROVE  \E turn : /\ turn[0] = NoDiversion /\ turn[n] = GetSIPRdPN(headers)
                     /\ \A k \in 1..n : turn[k] = OfHeader(turn[k - 1], headers[k])
<1> DEFINE g == CHOOSE g : FoldedTo(g, n, headers)
<1>1. GetSIPRdPN(headers) = g[1..n]
  BY DEF GetSIPRdPN, FoldLeft, MapThenFoldSet, FoldedTo
<1>2. FoldedTo(g, n, headers)
  BY FoldExists
<1> HIDE DEF g
<1>3. g[1..0] = NoDiversion
  <2>1. 1..0 = {} /\ 1..0 \in SUBSET (1..n)
    OBVIOUS
  <2>2. QED
    BY <1>2, <2>1 DEF FoldedTo
<1>4. ASSUME NEW k \in 1..n PROVE g[1..k] = OfHeader(g[1..(k - 1)], headers[k])
  <2>1. 1..k \in SUBSET (1..n) /\ k \in 1..k /\ k \in Nat
    OBVIOUS
  <2>2. Max(1..k) \in 1..k /\ k <= Max(1..k)
    BY <2>1, LastOne
  <2>3. Max(1..k) = k
    BY <2>2
  <2>4. (1..k) \ {k} = 1..(k - 1)
    OBVIOUS
  <2>5. g[1..k] = OfHeader(g[(1..k) \ {Max(1..k)}], headers[Max(1..k)])
    BY <1>2, <2>1 DEF FoldedTo
  <2>6. QED
    BY <2>3, <2>4, <2>5
<1> DEFINE turn == [k \in 0..n |-> g[1..k]]
<1>5. turn[0] = NoDiversion /\ turn[n] = GetSIPRdPN(headers)
  BY <1>1, <1>3
<1>6. ASSUME NEW k \in 1..n PROVE turn[k] = OfHeader(turn[k - 1], headers[k])
  <2>1. turn[k] = g[1..k] /\ turn[k - 1] = g[1..(k - 1)]
    OBVIOUS
  <2> HIDE DEF turn
  <2>2. QED
    BY <1>4, <2>1
<1> HIDE DEF turn
<1>7. QED
  BY <1>5, <1>6

\* What joining the first k of some texts is.
JoinedTo(f, k, texts) ==
    f = [i \in 1..k |-> IF i = 1 THEN texts[i] ELSE f[i - 1] \o texts[i]]

\* There is such a function.
LEMMA JoinExists == ASSUME NEW n \in Nat, NEW texts PROVE \E f : JoinedTo(f, n, texts)
<1> DEFINE S == {k \in Nat : \E f : JoinedTo(f, k, texts)}
<1>1. 0 \in S
  <2>1. JoinedTo([i \in 1..0 |-> 0], 0, texts)
    BY DEF JoinedTo
  <2>2. QED
    BY <2>1
<1>2. ASSUME NEW k \in Nat, k \in S PROVE k + 1 \in S
  <2>1. PICK f : JoinedTo(f, k, texts)
    BY <1>2
  <2> DEFINE h == [i \in 1..(k + 1) |-> IF i = 1 THEN texts[i] ELSE f[i - 1] \o texts[i]]
             r == [i \in 1..(k + 1) |-> IF i = 1 THEN texts[i] ELSE h[i - 1] \o texts[i]]
  <2>2. ASSUME NEW i \in 1..k PROVE h[i] = f[i]
    <3>1. f[i] = IF i = 1 THEN texts[i] ELSE f[i - 1] \o texts[i]
      BY <2>1 DEF JoinedTo
    <3>2. h[i] = IF i = 1 THEN texts[i] ELSE f[i - 1] \o texts[i]
      OBVIOUS
    <3>3. QED
      BY <3>1, <3>2
  <2>3. ASSUME NEW i \in 1..(k + 1) PROVE h[i] = r[i]
    <3>1. h[i] = IF i = 1 THEN texts[i] ELSE f[i - 1] \o texts[i]
      OBVIOUS
    <3>2. r[i] = IF i = 1 THEN texts[i] ELSE h[i - 1] \o texts[i]
      OBVIOUS
    <3>3. i # 1 => i - 1 \in 1..k
      OBVIOUS
    <3> HIDE DEF h, r
    <3>4. QED
      BY <2>2, <3>1, <3>2, <3>3
  <2>4. h = [i \in 1..(k + 1) |-> h[i]] /\ r = [i \in 1..(k + 1) |-> r[i]]
    OBVIOUS
  <2>5. h = r
    <3> HIDE DEF h, r
    <3>1. QED
      BY <2>3, <2>4
  <2>6. JoinedTo(h, k + 1, texts)
    <3> HIDE DEF h
    <3>1. QED
      BY <2>5 DEF JoinedTo
  <2>7. QED
    BY <2>6
<1>3. n \in S
  <2> HIDE DEF S
  <2>1. QED
    BY <1>1, <1>2, Induction
<1>4. QED
  BY <1>3

\* A text after the other is joined to those before.
LEMMA JoinSteps ==
    ASSUME NEW texts, NEW n \in Nat, n > 0, Len(texts) = n
    PROVE  \E f : /\ f[1] = texts[1] /\ f[n] = FlattenSeq(texts)
                  /\ \A k \in 1..(n - 1) : f[k + 1] = f[k] \o texts[k + 1]
<1> DEFINE f == CHOOSE f : JoinedTo(f, n, texts)
<1>1. FlattenSeq(texts) = f[n]
  BY DEF FlattenSeq, JoinedTo
<1>2. JoinedTo(f, n, texts)
  BY JoinExists
<1> HIDE DEF f
<1>3. \A i \in 1..n : f[i] = IF i = 1 THEN texts[i] ELSE f[i - 1] \o texts[i]
  BY <1>2 DEF JoinedTo
<1>4. ASSUME NEW k \in 1..(n - 1) PROVE f[k + 1] = f[k] \o texts[k + 1]
  <2> DEFINE j == k + 1
  <2>1. j \in 1..n /\ j # 1 /\ j - 1 = k
    OBVIOUS
  <2> HIDE DEF j
  <2>2. f[j] = f[j - 1] \o texts[j]
    BY <1>3, <2>1
  <2>3. f[j] = f[k] \o texts[j]
    BY <2>1, <2>2
  <2>4. QED
    BY <2>3 DEF j
<1>5. f[1] = texts[1]
  BY <1>3, 1 \in 1..n
<1>6. QED
  BY <1>1, <1>4, <1>5

\* A symbol is found where it is first.
LEMMA FoundAt ==
    ASSUME NEW h, NEW symbol, NEW from \in Nat, from > 0, Len(h) \in Nat,
           NEW at \in from..Len(h), h[at] = symbol, \A i \in from..(at - 1) : h[i] # symbol
    PROVE  find(h, symbol, from) = at
<1> DEFINE I == {i \in from..Len(h) : h[i] = symbol}
<1>1. at \in I /\ \A i \in I : i \in Int /\ at <= i
  OBVIOUS
<1>2. Min(I) = at
  <2> HIDE DEF I
  <2>1. Min(I) \in I /\ \A i \in I : Min(I) <= i
    BY <1>1 DEF Min
  <2> DEFINE m == Min(I)
  <2> HIDE DEF m
  <2>2. m \in Int /\ at \in Int /\ at <= m /\ m <= at
    BY <1>1, <2>1 DEF m
  <2>3. m = at
    BY <2>2
  <2>4. QED
    BY <2>3 DEF m
<1>3. find(h, symbol, from) = IF I # {} THEN Min(I) ELSE 0
  BY DEF find, SelectInSubSeq
<1>4. QED
  BY <1>1, <1>2, <1>3

\* A symbol that is nowhere is not found.
LEMMA FoundNowhere ==
    ASSUME NEW h, NEW symbol, NEW from \in Nat, Len(h) \in Nat,
           \A i \in from..Len(h) : h[i] # symbol
    PROVE  find(h, symbol, from) = 0
BY DEF find, SelectInSubSeq

\* A parameter as it is written, and the whole list.
ParameterText(p) == IF p = TEXT THEN <<END, TEXT>> ELSE <<END, REASON, p>>
ParametersText(ps) == FlattenSeq([i \in 1..Len(ps) |-> ParameterText(ps[i])])

Pieces == Int \ {SIP, END, REASON}

\* The first parameter that is a reason.
FirstReason(ps, i) == ps[i] # TEXT /\ \A j \in 1..(i - 1) : ps[j] = TEXT

\* What the first k parameters of ps are written as: it begins with END, and a reason
\* comes after REASON and before the END of the next parameter.
WrittenTo(w, ps, k) ==
    /\ w \in Seq(Int) /\ Len(w) > 0 /\ w[1] = END
    /\ \A j \in 1..Len(w) : w[j] # SIP
    /\ (\A i \in 1..k : ps[i] = TEXT) => \A j \in 1..Len(w) : w[j] # REASON
    /\ \A i \in 1..k : FirstReason(ps, i) =>
           \E at \in 1..(Len(w) - 1) :
               /\ w[at] = REASON /\ w[at + 1] = ps[i]
               /\ \A j \in 1..(at - 1) : w[j] # REASON
               /\ IF i = k THEN at + 1 = Len(w) ELSE at + 2 <= Len(w) /\ w[at + 2] = END

\* The symbols are told apart.
LEMMA SymbolsDiffer ==
    /\ SIP \in Int /\ END \in Int /\ REASON \in Int /\ TEXT \in Int /\ CLOSE \in Int
    /\ SIP # END /\ SIP # REASON /\ SIP # TEXT /\ SIP # CLOSE /\ END # REASON /\ END # TEXT
    /\ END # CLOSE /\ REASON # TEXT /\ REASON # CLOSE
BY DEF SIP, END, REASON, TEXT, CLOSE

\* What a parameter is written as.
LEMMA OneWritten ==
    ASSUME NEW p \in Pieces, NEW t, t = ParameterText(p)
    PROVE  /\ t \in Seq(Int) /\ t[1] = END
           /\ p = TEXT => Len(t) = 2 /\ t[2] = TEXT
           /\ p # TEXT => Len(t) = 3 /\ t[2] = REASON /\ t[3] = p
           /\ \A j \in 1..Len(t) : t[j] # SIP
           /\ p = TEXT => \A j \in 1..Len(t) : t[j] # REASON
<1>1. p \in Int /\ p # SIP /\ p # END /\ p # REASON
  BY DEF Pieces
<1>2. CASE p = TEXT
  <2>1. t = <<END, TEXT>>
    BY <1>2 DEF ParameterText
  <2>2. t \in Seq(Int) /\ Len(t) = 2 /\ t[1] = END /\ t[2] = TEXT
    BY <2>1, SymbolsDiffer
  <2>3. \A j \in 1..Len(t) : j = 1 \/ j = 2
    BY <2>2
  <2>4. QED
    BY <1>2, <2>2, <2>3, SymbolsDiffer
<1>3. CASE p # TEXT
  <2>1. t = <<END, REASON, p>>
    BY <1>3 DEF ParameterText
  <2>2. t \in Seq(Int) /\ Len(t) = 3 /\ t[1] = END /\ t[2] = REASON /\ t[3] = p
    BY <1>1, <2>1, SymbolsDiffer
  <2>3. \A j \in 1..Len(t) : j = 1 \/ j = 2 \/ j = 3
    BY <2>2
  <2>4. QED
    BY <1>1, <1>3, <2>2, <2>3, SymbolsDiffer
<1>4. QED
  BY <1>2, <1>3

\* A sequence of two parts: the places of each.
Parts(u, s, t) ==
    /\ u \in Seq(Int) /\ Len(u) = Len(s) + Len(t) /\ Len(s) \in Nat /\ Len(t) \in Nat
    /\ \A i \in 1..Len(s) : u[i] = s[i]
    /\ \A i \in 1..Len(t) : u[Len(s) + i] = t[i]
    /\ \A j \in 1..Len(u) : j \in 1..Len(s) \/ \E i \in 1..Len(t) : j = Len(s) + i

\* Joined sequences have parts.
LEMMA TwoParts ==
    ASSUME NEW s \in Seq(Int), NEW t \in Seq(Int), NEW u, u = s \o t PROVE Parts(u, s, t)
<1>1. Len(s) \in Nat /\ Len(t) \in Nat
  OBVIOUS
<1>2. /\ u \in Seq(Int) /\ Len(u) = Len(s) + Len(t)
      /\ \A i \in 1..(Len(s) + Len(t)) : u[i] = IF i <= Len(s) THEN s[i] ELSE t[i - Len(s)]
  BY ConcatProperties
<1>3. \A i \in 1..Len(s) : u[i] = s[i]
  BY <1>1, <1>2
<1>4. ASSUME NEW i \in 1..Len(t) PROVE u[Len(s) + i] = t[i]
  <2>1. /\ Len(s) + i \in 1..(Len(s) + Len(t)) /\ ~(Len(s) + i <= Len(s))
        /\ Len(s) + i - Len(s) = i
    BY <1>1
  <2>2. QED
    BY <1>2, <2>1
<1>5. ASSUME NEW j \in 1..Len(u)
      PROVE  j \in 1..Len(s) \/ \E i \in 1..Len(t) : j = Len(s) + i
  <2>1. CASE j <= Len(s)
    BY <1>1, <1>2, <2>1
  <2>2. CASE ~(j <= Len(s))
    <3>1. j - Len(s) \in 1..Len(t) /\ j = Len(s) + (j - Len(s))
      BY <1>1, <1>2, <2>2
    <3>2. QED
      BY <3>1
  <2>3. QED
    BY <2>1, <2>2
<1>6. QED
  BY <1>1, <1>2, <1>3, <1>4, <1>5 DEF Parts

\* One parameter more.
LEMMA WrittenMore ==
    ASSUME NEW ps \in Seq(Pieces), NEW k \in Nat, k > 0, k < Len(ps), NEW w, WrittenTo(w, ps, k),
           NEW u, u = w \o ParameterText(ps[k + 1])
    PROVE  WrittenTo(u, ps, k + 1)
<1> DEFINE p == ps[k + 1]
           t == ParameterText(p)
           n == Len(w)
           l == Len(t)
<1>1. p \in Pieces
  <2>1. k + 1 \in 1..Len(ps)
    OBVIOUS
  <2>2. QED
    BY <2>1
<1>2. /\ t \in Seq(Int) /\ t[1] = END /\ (p = TEXT => l = 2 /\ t[2] = TEXT)
      /\ p # TEXT => l = 3 /\ t[2] = REASON /\ t[3] = p
      /\ \A j \in 1..l : t[j] # SIP
      /\ p = TEXT => \A j \in 1..l : t[j] # REASON
  BY <1>1, OneWritten
<1>3. w \in Seq(Int) /\ n > 0 /\ w[1] = END /\ \A j \in 1..n : w[j] # SIP
  BY DEF WrittenTo
<1> HIDE DEF t
<1>4. /\ u \in Seq(Int) /\ Len(u) = n + l /\ n \in Nat /\ l \in Nat
      /\ \A i \in 1..n : u[i] = w[i]
      /\ \A i \in 1..l : u[n + i] = t[i]
      /\ \A j \in 1..Len(u) : j \in 1..n \/ \E i \in 1..l : j = n + i
  <2>1. u = w \o t
    BY DEF t
  <2>2. w \in Seq(Int) /\ t \in Seq(Int)
    BY <1>2, <1>3
  <2>3. Parts(u, w, t)
    BY <2>1, <2>2, TwoParts
  <2>4. QED
    BY <2>3 DEF Parts
<1>5. u[n + 1] = END /\ u[n + 2] = t[2] /\ 1 \in 1..l /\ 2 \in 1..l
  <2> HIDE DEF l, n, p
  <2>1. 1 \in 1..l /\ 2 \in 1..l
    BY <1>2, <1>4
  <2>2. QED
    BY <1>2, <1>4, <2>1
<1> HIDE DEF n, l, p
<1>6. ASSUME NEW j \in 1..Len(u) PROVE u[j] # SIP
  <2>1. CASE j \in 1..n
    BY <1>3, <1>4, <2>1
  <2>2. CASE j \notin 1..n
    <3>1. PICK i \in 1..l : j = n + i
      BY <1>4, <2>2
    <3>2. u[j] = t[i] /\ t[i] # SIP
      BY <1>2, <1>4, <3>1
    <3>3. QED
      BY <3>2
  <2>3. QED
    BY <2>1, <2>2
<1>7. ASSUME \A i \in 1..(k + 1) : ps[i] = TEXT, NEW j \in 1..Len(u) PROVE u[j] # REASON
  <2>1. k + 1 \in 1..(k + 1) /\ \A i \in 1..k : i \in 1..(k + 1)
    OBVIOUS
  <2>2. p = TEXT /\ \A i \in 1..k : ps[i] = TEXT
    BY <1>7, <2>1 DEF p
  <2>3. \A i \in 1..n : w[i] # REASON
    BY <2>2 DEF WrittenTo, n
  <2>4. CASE j \in 1..n
    BY <1>4, <2>3, <2>4
  <2>5. CASE j \notin 1..n
    <3>1. PICK i \in 1..l : j = n + i
      BY <1>4, <2>5
    <3>2. u[j] = t[i] /\ t[i] # REASON
      BY <1>2, <1>4, <2>2, <3>1
    <3>3. QED
      BY <3>2
  <2>6. QED
    BY <2>4, <2>5
<1>8. ASSUME NEW i \in 1..(k + 1), FirstReason(ps, i)
      PROVE  \E at \in 1..(Len(u) - 1) :
                 /\ u[at] = REASON /\ u[at + 1] = ps[i]
                 /\ \A j \in 1..(at - 1) : u[j] # REASON
                 /\ IF i = k + 1 THEN at + 1 = Len(u) ELSE at + 2 <= Len(u) /\ u[at + 2] = END
  <2>1. CASE i = k + 1
    <3>1. p # TEXT /\ \A j \in 1..k : ps[j] = TEXT
      BY <1>8, <2>1 DEF FirstReason, p
    <3>2. \A j \in 1..n : w[j] # REASON
      BY <3>1 DEF WrittenTo, n
    <3>3. l = 3 /\ 3 \in 1..l
      BY <1>2, <3>1
    <3> DEFINE at == n + 2
    <3>4. /\ at \in 1..(Len(u) - 1) /\ at + 1 = n + 3 /\ at + 1 = Len(u)
          /\ \A j \in 1..(at - 1) : j \in 1..n \/ j = n + 1
      BY <1>4, <3>3
    <3>5. u[at] = REASON /\ u[n + 3] = ps[i]
      BY <1>2, <1>4, <1>5, <2>1, <3>1, <3>3 DEF p
    <3> HIDE DEF at
    <3>6. \A j \in 1..(at - 1) : u[j] # REASON
      BY <1>4, <1>5, <3>2, <3>4, SymbolsDiffer
    <3>7. u[at + 1] = ps[i]
      BY <3>4, <3>5
    <3>8. QED
      BY <2>1, <3>4, <3>5, <3>6, <3>7
  <2>2. CASE i # k + 1
    <3>1. i \in 1..k
      BY <2>2
    <3>2. PICK at \in 1..(n - 1) :
              /\ w[at] = REASON /\ w[at + 1] = ps[i]
              /\ \A j \in 1..(at - 1) : w[j] # REASON
              /\ IF i = k THEN at + 1 = n ELSE at + 2 <= n /\ w[at + 2] = END
      BY <1>8, <3>1 DEF WrittenTo, n
    <3>3. l >= 2
      BY <1>4, <1>5
    <3>4. at \in 1..(Len(u) - 1) /\ at \in 1..n /\ at + 1 \in 1..n
          /\ (\A j \in 1..(at - 1) : j \in 1..n) /\ at + 2 <= Len(u)
      BY <1>4, <3>3
    <3>5. u[at] = REASON /\ u[at + 1] = ps[i] /\ \A j \in 1..(at - 1) : u[j] # REASON
      BY <1>4, <3>2, <3>4
    <3>6. u[at + 2] = END
      <4>1. CASE i = k
        <5>1. at + 2 = n + 1
          BY <1>4, <3>2, <4>1
        <5>2. QED
          BY <1>5, <5>1
      <4>2. CASE i # k
        <5>1. at + 2 \in 1..n /\ w[at + 2] = END
          BY <1>4, <3>2, <4>2
        <5>2. QED
          BY <1>4, <5>1
      <4>3. QED
        BY <4>1, <4>2
    <3>7. QED
      BY <2>2, <3>4, <3>5, <3>6
  <2>3. QED
    BY <2>1, <2>2
<1>9. Len(u) > 0 /\ u[1] = END
  <2>1. 1 \in 1..n /\ n + l > 0
    BY <1>3, <1>4
  <2>2. QED
    BY <1>3, <1>4, <2>1
<1>10. QED
  BY <1>4, <1>6, <1>7, <1>8, <1>9 DEF WrittenTo

\* All parameters: nothing where there is none; otherwise as said.
LEMMA ParametersWritten ==
    ASSUME NEW ps \in Seq(Pieces)
    PROVE  /\ Len(ps) = 0 => ParametersText(ps) = <<>>
           /\ Len(ps) > 0 => WrittenTo(ParametersText(ps), ps, Len(ps))
<1> DEFINE n == Len(ps)
           texts == [i \in 1..n |-> ParameterText(ps[i])]
<1>1. n \in Nat /\ Len(texts) = n /\ \A i \in 1..n : texts[i] = ParameterText(ps[i])
  OBVIOUS
<1>2. ParametersText(ps) = FlattenSeq(texts)
  BY DEF ParametersText
<1>3. CASE n = 0
  <2>1. FlattenSeq(texts) = texts
    BY <1>1, <1>3 DEF FlattenSeq
  <2>2. texts = <<>>
    BY <1>3
  <2>3. QED
    BY <1>2, <1>3, <2>1, <2>2
<1>4. CASE n > 0
  <2> HIDE DEF texts
  <2>1. PICK f : /\ f[1] = texts[1] /\ f[n] = FlattenSeq(texts)
                 /\ \A k \in 1..(n - 1) : f[k + 1] = f[k] \o texts[k + 1]
    BY <1>1, <1>4, JoinSteps
  <2> DEFINE S == {k \in Nat : k \in 1..n => WrittenTo(f[k], ps, k)}
  <2>2. 0 \in S
    OBVIOUS
  <2>3. WrittenTo(f[1], ps, 1)
    <3> DEFINE p == ps[1]
               t == ParameterText(p)
    <3>1. p \in Pieces /\ 1 \in 1..n
      BY <1>1, <1>4
    <3>2. f[1] = t
      BY <1>1, <2>1, <3>1
    <3> HIDE DEF p
    <3>3. /\ t \in Seq(Int) /\ t[1] = END
          /\ p = TEXT => Len(t) = 2 /\ t[2] = TEXT
          /\ p # TEXT => Len(t) = 3 /\ t[2] = REASON /\ t[3] = p
          /\ \A j \in 1..Len(t) : t[j] # SIP
          /\ p = TEXT => \A j \in 1..Len(t) : t[j] # REASON
      BY <3>1, OneWritten
    <3> HIDE DEF t
    <3>4. Len(t) > 0 /\ \A i \in 1..1 : i = 1
      BY <3>3
    <3>5. (\A i \in 1..1 : ps[i] = TEXT) => \A j \in 1..Len(t) : t[j] # REASON
      BY <3>3, 1 \in 1..1 DEF p
    <3>6. ASSUME p # TEXT
          PROVE  \E at \in 1..(Len(t) - 1) :
                     /\ t[at] = REASON /\ t[at + 1] = p
                     /\ \A j \in 1..(at - 1) : t[j] # REASON
                     /\ at + 1 = Len(t)
      <4>1. Len(t) = 3 /\ t[2] = REASON /\ t[3] = p
        BY <3>3, <3>6
      <4>2. 2 \in 1..(Len(t) - 1) /\ 2 + 1 = Len(t) /\ \A j \in 1..(2 - 1) : j = 1
        BY <4>1
      <4>3. t[2 + 1] = p /\ \A j \in 1..(2 - 1) : t[j] # REASON
        BY <3>3, <4>1, <4>2, SymbolsDiffer
      <4>4. QED
        BY <4>1, <4>2, <4>3
    <3>7. ASSUME NEW i \in 1..1, FirstReason(ps, i)
          PROVE  \E at \in 1..(Len(t) - 1) :
                     /\ t[at] = REASON /\ t[at + 1] = ps[i]
                     /\ \A j \in 1..(at - 1) : t[j] # REASON
                     /\ IF i = 1 THEN at + 1 = Len(t) ELSE at + 2 <= Len(t) /\ t[at + 2] = END
      <4>1. i = 1 /\ ps[i] = p /\ p # TEXT
        BY <3>4, <3>7 DEF FirstReason, p
      <4>2. QED
        BY <3>6, <4>1
    <3>8. WrittenTo(t, ps, 1)
      BY <3>3, <3>4, <3>5, <3>7 DEF WrittenTo
    <3>9. QED
      BY <3>2, <3>8
  <2>4. ASSUME NEW k \in Nat, k \in S PROVE k + 1 \in S
    <3>1. CASE k = 0
      BY <2>3, <3>1
    <3>2. CASE k > 0 /\ k + 1 \in 1..n
      <4>1. k \in 1..n /\ k \in 1..(n - 1) /\ k < Len(ps)
        BY <1>1, <3>2
      <4>2. WrittenTo(f[k], ps, k)
        BY <2>4, <4>1
      <4>3. f[k + 1] = f[k] \o ParameterText(ps[k + 1])
        BY <1>1, <2>1, <3>2, <4>1
      <4>4. WrittenTo(f[k + 1], ps, k + 1)
        BY <3>2, <4>1, <4>2, <4>3, WrittenMore
      <4>5. QED
        BY <4>4
    <3>3. CASE k + 1 \notin 1..n
      BY <3>3
    <3>4. QED
      BY <3>1, <3>2, <3>3
  <2>5. n \in S
    <3> HIDE DEF S, n
    <3>1. QED
      BY <1>1, <2>2, <2>4, Induction
  <2>6. n \in 1..n
    BY <1>1, <1>4
  <2>7. WrittenTo(f[n], ps, n)
    BY <2>5, <2>6
  <2>8. QED
    BY <1>2, <1>4, <2>1, <2>7
<1>5. QED
  BY <1>1, <1>3, <1>4

\* A piece of a sequence is what is at its places.
LEMMA CutOut ==
    ASSUME NEW r \in Seq(Int), NEW base \in Nat, NEW t \in Seq(Int), base + Len(t) <= Len(r),
           \A i \in 1..Len(t) : r[base + i] = t[i]
    PROVE  SubSeq(r, base + 1, base + Len(t)) = t
<1> DEFINE n == Len(t)
           s == SubSeq(r, base + 1, base + n)
<1>1. n \in Nat /\ base + 1 \in Int /\ base + n \in Int
      /\ \A i \in (base + 1)..(base + n) : r[i] \in Int
  OBVIOUS
<1>2. /\ s \in Seq(Int)
      /\ Len(s) = IF base + 1 <= base + n THEN base + n - (base + 1) + 1 ELSE 0
      /\ \A i \in 1..(base + n - (base + 1) + 1) : s[i] = r[base + 1 + i - 1]
  BY <1>1, SubSeqProperties
<1> HIDE DEF s
<1>3. Len(s) = n /\ base + n - (base + 1) + 1 = n
  BY <1>1, <1>2
<1>4. \A i \in 1..n : s[i] = r[base + 1 + i - 1] /\ base + 1 + i - 1 = base + i
  BY <1>1, <1>2, <1>3
<1>5. \A i \in 1..n : s[i] = t[i]
  BY <1>4
<1>6. s = t
  BY <1>2, <1>3, <1>5, SeqEqual
<1>7. QED
  BY <1>6 DEF s

\* A number is characters.
LEMMA NumberIs ==
    ASSUME NEW text \in Text
    PROVE  /\ text \in Seq(Int) /\ Len(text) \in Nat
           /\ \A i \in 1..Len(text) : text[i] > 0 /\ text[i] \in Int
BY OfferedAssumption, SymbolsDiffer DEF Text

\* Where the parts of a header are.
HeadLength(h) == IF h.sip THEN 2 ELSE 1
UriLength(h)  == IF h.uriParameter THEN 3 ELSE 1

Layout(r, h, w) ==
    LET N == Len(h.number) IN
    /\ N \in Nat /\ Len(w) \in Nat
    /\ r \in Seq(Int) /\ Len(r) = HeadLength(h) + N + UriLength(h) + Len(w)
    /\ r[1] = TEXT /\ (h.sip => r[2] = SIP)
    /\ \A i \in 1..N : r[HeadLength(h) + i] = h.number[i]
    /\ h.uriParameter => /\ r[HeadLength(h) + N + 1] = END /\ r[HeadLength(h) + N + 2] = TEXT
                         /\ r[HeadLength(h) + N + 3] = CLOSE
    /\ ~h.uriParameter => r[HeadLength(h) + N + 1] = CLOSE
    /\ \A i \in 1..Len(w) : r[HeadLength(h) + N + UriLength(h) + i] = w[i]

\* A header is laid out so.
LEMMA RenderedIs ==
    ASSUME NEW h \in HeaderForms
    PROVE  Layout(Rendered(h), h, ParametersText(h.parameters))
<1> DEFINE a == IF h.sip THEN <<TEXT, SIP>> ELSE <<TEXT>>
           b == h.number
           c == IF h.uriParameter THEN <<END, TEXT, CLOSE>> ELSE <<CLOSE>>
           w == ParametersText(h.parameters)
           ab == a \o b
           abc == ab \o c
           r == abc \o w
<1>1. /\ h.sip \in BOOLEAN /\ h.uriParameter \in BOOLEAN /\ b \in Text
      /\ h.parameters \in Seq(Pieces)
  BY DEF HeaderForms, Pieces
<1>2. Rendered(h) = r
  BY DEF Rendered, ParametersText, ParameterText
<1>3. a \in Seq(Int) /\ Len(a) = HeadLength(h) /\ a[1] = TEXT /\ (h.sip => a[2] = SIP)
  BY SymbolsDiffer DEF HeadLength
<1>4. /\ c \in Seq(Int) /\ Len(c) = UriLength(h)
      /\ h.uriParameter => c[1] = END /\ c[2] = TEXT /\ c[3] = CLOSE
      /\ ~h.uriParameter => c[1] = CLOSE
  BY SymbolsDiffer DEF UriLength
<1>5. b \in Seq(Int)
  BY <1>1, NumberIs
<1>6. w \in Seq(Int)
  <2>1. CASE Len(h.parameters) = 0
    BY <1>1, <2>1, ParametersWritten
  <2>2. CASE Len(h.parameters) > 0
    BY <1>1, <2>2, ParametersWritten DEF WrittenTo
  <2>3. QED
    BY <1>1, <2>1, <2>2
<1> HIDE DEF a, b, c, w
<1>7. Parts(ab, a, b)
  BY <1>3, <1>5, TwoParts
<1> HIDE DEF ab
<1>8. Parts(abc, ab, c)
  <2>1. ab \in Seq(Int) /\ c \in Seq(Int)
    BY <1>4, <1>7 DEF Parts
  <2>2. QED
    BY <2>1, TwoParts
<1> HIDE DEF abc
<1>9. Parts(r, abc, w)
  <2>1. abc \in Seq(Int) /\ w \in Seq(Int)
    BY <1>6, <1>8 DEF Parts
  <2>2. QED
    BY <2>1, TwoParts
<1> HIDE DEF r
<1> DEFINE A == Len(a)
           N == Len(b)
           U == Len(c)
<1>10. /\ r \in Seq(Int) /\ Len(r) = A + N + U + Len(w) /\ N \in Nat /\ Len(w) \in Nat
       /\ A \in Nat /\ U \in Nat /\ Len(ab) = A + N /\ Len(abc) = A + N + U
  BY <1>7, <1>8, <1>9 DEF Parts
<1>11. \A i \in 1..Len(w) : r[A + N + U + i] = w[i]
  BY <1>9, <1>10 DEF Parts
<1>12. \A i \in 1..(A + N + U) : r[i] = abc[i]
  BY <1>9, <1>10 DEF Parts
<1>13. \A i \in 1..U : abc[A + N + i] = c[i]
  BY <1>8, <1>10 DEF Parts
<1>14. \A i \in 1..(A + N) : abc[i] = ab[i]
  BY <1>8, <1>10 DEF Parts
<1>15. \A i \in 1..N : ab[A + i] = b[i]
  BY <1>7 DEF Parts
<1>16. \A i \in 1..A : ab[i] = a[i]
  BY <1>7 DEF Parts
<1> HIDE DEF A, N, U
<1>17. \A i \in 1..A : r[i] = a[i]
  BY <1>10, <1>12, <1>14, <1>16
<1>18. ASSUME NEW i \in 1..N PROVE r[A + i] = b[i]
  <2>1. A + i \in 1..(A + N) /\ A + i \in 1..(A + N + U)
    BY <1>10
  <2>2. QED
    BY <1>12, <1>14, <1>15, <2>1
<1>19. ASSUME NEW i \in 1..U PROVE r[A + N + i] = c[i]
  <2>1. A + N + i \in 1..(A + N + U)
    BY <1>10
  <2>2. QED
    BY <1>12, <1>13, <2>1
<1>20. A = HeadLength(h) /\ U = UriLength(h) /\ 1 \in 1..A /\ (h.sip => 2 \in 1..A)
       /\ (h.uriParameter => 1 \in 1..U /\ 2 \in 1..U /\ 3 \in 1..U) /\ 1 \in 1..U
  BY <1>3, <1>4 DEF A, U, HeadLength, UriLength
<1>21. r[1] = TEXT /\ (h.sip => r[2] = SIP)
  BY <1>3, <1>17, <1>20
<1>22. /\ h.uriParameter => /\ r[A + N + 1] = END /\ r[A + N + 2] = TEXT
                            /\ r[A + N + 3] = CLOSE
       /\ ~h.uriParameter => r[A + N + 1] = CLOSE
  BY <1>4, <1>19, <1>20
<1>23. Layout(r, h, w)
  BY <1>10, <1>11, <1>18, <1>20, <1>21, <1>22 DEF Layout, N, b
<1>24. QED
  BY <1>2, <1>23 DEF w

\* The number is found if the header has a sip URI, and an END after it; it is what is
\* meant if the URI has a parameter, and a text in any case.
LEMMA NumberRead ==
    ASSUME NEW h \in HeaderForms, NEW number, number = Between(Rendered(h), SIP)
    PROVE  /\ number.found \in BOOLEAN
           /\ number.found => number.text \in Text
           /\ h.sip /\ h.uriParameter => number.found /\ number.text = h.number
<1> DEFINE r == Rendered(h)
           b == h.number
           N == Len(b)
           w == ParametersText(h.parameters)
           from == find(r, SIP, 1)
           to   == find(r, END, from)
<1>1. /\ number.found \in BOOLEAN
      /\ number.found <=> (from # 0 /\ to # 0)
      /\ number.text = SubSeq(r, from + 1, to - 1)
  BY DEF Between
<1>2. h.sip \in BOOLEAN /\ h.uriParameter \in BOOLEAN /\ b \in Text /\ h.parameters \in Seq(Pieces)
  BY DEF HeaderForms, Pieces
<1>3. Layout(r, h, w)
  BY RenderedIs
<1>4. b \in Seq(Int) /\ N \in Nat /\ \A i \in 1..N : b[i] > 0 /\ b[i] \in Int
  BY <1>2, NumberIs
<1>5. /\ Len(h.parameters) \in Nat
      /\ Len(h.parameters) = 0 => Len(w) = 0
      /\ Len(h.parameters) > 0 => Len(w) > 0 /\ w[1] = END
      /\ \A j \in 1..Len(w) : w[j] # SIP
  <2>1. Len(h.parameters) \in Nat
    BY <1>2
  <2>2. CASE Len(h.parameters) = 0
    <3>1. w = <<>>
      BY <1>2, <2>2, ParametersWritten
    <3>2. QED
      BY <2>2, <3>1
  <2>3. CASE Len(h.parameters) > 0
    BY <1>2, <2>3, ParametersWritten DEF WrittenTo
  <2>4. QED
    BY <2>1, <2>2, <2>3
<1> HIDE DEF r, w
<1>6. CASE ~h.sip
  <2> DEFINE U == UriLength(h)
  <2>1. /\ r \in Seq(Int) /\ Len(r) = 1 + N + U + Len(w) /\ Len(w) \in Nat /\ r[1] = TEXT
        /\ \A i \in 1..N : r[1 + i] = b[i]
        /\ h.uriParameter => U = 3 /\ r[1 + N + 1] = END /\ r[1 + N + 2] = TEXT
                             /\ r[1 + N + 3] = CLOSE
        /\ ~h.uriParameter => U = 1 /\ r[1 + N + 1] = CLOSE
        /\ \A i \in 1..Len(w) : r[1 + N + U + i] = w[i]
    BY <1>3, <1>6 DEF Layout, HeadLength, UriLength
  <2> DEFINE L == Len(r)
             W == Len(w)
  <2> HIDE DEF U, N, L, W
  <2>n. /\ N \in Nat /\ W \in Nat /\ L = 1 + N + U + W
        /\ (h.uriParameter /\ U = 3) \/ (~h.uriParameter /\ U = 1)
    BY <1>2, <1>4, <2>1 DEF L, W
  <2>2. ASSUME NEW j \in 1..L PROVE r[j] # SIP
    <3>1. \/ j = 1
          \/ \E i \in 1..N : j = 1 + i
          \/ h.uriParameter /\ (j = 1 + N + 1 \/ j = 1 + N + 2 \/ j = 1 + N + 3)
          \/ ~h.uriParameter /\ j = 1 + N + 1
          \/ \E i \in 1..W : j = 1 + N + U + i
      <4>1. CASE j - 1 \in 1..N
        BY <4>1
      <4>2. CASE j - (1 + N + U) \in 1..W
        BY <2>n, <4>2
      <4>3. QED
        BY <2>n, <4>1, <4>2
    <3>2. ASSUME NEW i \in 1..N, j = 1 + i PROVE r[j] # SIP
      <4>1. r[j] = b[i] /\ b[i] > 0
        BY <1>4, <2>1, <3>2
      <4>2. QED
        BY <4>1 DEF SIP
    <3>3. ASSUME NEW i \in 1..W, j = 1 + N + U + i PROVE r[j] # SIP
      BY <1>5, <2>1, <3>3 DEF W
    <3>4. QED
      BY <2>1, <3>1, <3>2, <3>3, SymbolsDiffer
  <2>3. from = 0
    <3>1. Len(r) \in Nat /\ \A i \in 1..Len(r) : r[i] # SIP
      BY <2>1, <2>2 DEF L
    <3>2. QED
      BY <3>1, FoundNowhere
  <2>4. QED
    BY <1>1, <1>6, <2>3
<1>7. CASE h.sip
  <2> DEFINE U == UriLength(h)
  <2>1. /\ r \in Seq(Int) /\ Len(r) = 2 + N + U + Len(w) /\ Len(w) \in Nat
        /\ r[1] = TEXT /\ r[2] = SIP
        /\ \A i \in 1..N : r[2 + i] = b[i]
        /\ h.uriParameter => U = 3 /\ r[2 + N + 1] = END
        /\ ~h.uriParameter => U = 1 /\ r[2 + N + 1] = CLOSE
        /\ \A i \in 1..Len(w) : r[2 + N + U + i] = w[i]
    BY <1>3, <1>7 DEF Layout, HeadLength, UriLength
  <2> DEFINE L == Len(r)
             W == Len(w)
  <2> HIDE DEF U, N, L, W
  <2>n. /\ N \in Nat /\ W \in Nat /\ L = 2 + N + U + W
        /\ (h.uriParameter /\ U = 3) \/ (~h.uriParameter /\ U = 1)
    BY <1>2, <1>4, <2>1 DEF L, W
  <2>w. (Len(h.parameters) > 0) <=> W > 0
    BY <1>5, <2>n DEF W
  <2>2. from = 2
    <3>1. 2 \in 1..Len(r) /\ \A i \in 1..(2 - 1) : i = 1
      BY <2>n DEF L
    <3>2. 1 \in Nat /\ 1 > 0 /\ Len(r) \in Nat /\ r[2] = SIP /\ \A i \in 1..(2 - 1) : r[i] # SIP
      BY <2>1, <3>1, SymbolsDiffer
    <3>3. QED
      BY <3>1, <3>2, FoundAt
  <2> HIDE DEF from
  <2>3. \A i \in 2..(2 + N) : r[i] # END
    <3>1. ASSUME NEW i \in 2..(2 + N), i # 2 PROVE r[i] # END
      <4>1. i - 2 \in 1..N /\ 2 + (i - 2) = i
        BY <1>4, <3>1
      <4>2. r[i] = b[i - 2] /\ b[i - 2] > 0
        BY <1>4, <2>1, <4>1
      <4>3. QED
        BY <4>2 DEF END
    <3>2. QED
      BY <2>1, <3>1, SymbolsDiffer
  <2>4. CASE h.uriParameter
    <3> DEFINE at == 2 + N + 1
    <3>1. at \in 2..L /\ at - 1 = 2 + N /\ at # 0 /\ 2 + N <= L
      BY <2>n, <2>4
    <3>2. r[at] = END
      BY <2>1, <2>4
    <3> HIDE DEF at
    <3>3. \A i \in 2..(at - 1) : r[i] # END
      BY <2>3, <3>1
    <3>4. to = at
      <4>1. Len(r) \in Nat /\ at \in 2..Len(r)
        BY <2>1, <3>1 DEF L
      <4>2. find(r, END, 2) = at
        BY <3>2, <3>3, <4>1, FoundAt
      <4>3. QED
        BY <2>2, <4>2
    <3>5. SubSeq(r, 2 + 1, 2 + Len(b)) = b
      <4>1. 2 + Len(b) <= Len(r) /\ \A i \in 1..Len(b) : r[2 + i] = b[i]
        BY <2>1, <3>1 DEF L, N
      <4>2. QED
        BY <1>4, <2>1, <4>1, CutOut
    <3> HIDE DEF to
    <3>6. number.text = b
      <4>1. number.text = SubSeq(r, 2 + 1, at - 1)
        BY <1>1, <2>2, <3>4
      <4>2. QED
        BY <3>1, <3>5, <4>1 DEF N
    <3>7. number.found
      BY <1>1, <2>2, <3>1, <3>4
    <3>8. QED
      BY <1>1, <1>2, <3>6, <3>7
  <2>5. CASE ~h.uriParameter /\ W = 0
    <3>1. \A i \in 2..L : i \in 2..(2 + N) \/ i = 2 + N + 1
      BY <2>n, <2>5
    <3>2. \A i \in 2..L : r[i] # END
      BY <2>1, <2>3, <2>5, <3>1, SymbolsDiffer
    <3>3. to = 0
      <4>1. Len(r) \in Nat /\ \A i \in 2..Len(r) : r[i] # END
        BY <2>1, <3>2 DEF L
      <4>2. QED
        BY <2>2, <4>1, FoundNowhere
    <3> HIDE DEF to
    <3>4. QED
      BY <1>1, <2>5, <3>3
  <2>6. CASE ~h.uriParameter /\ W > 0
    <3> DEFINE at == 2 + N + 2
               t  == Append(b, CLOSE)
    <3>1. Len(h.parameters) > 0 /\ w[1] = END
      BY <1>5, <2>w, <2>6
    <3>2. /\ at \in 2..L /\ at - 1 = 2 + (N + 1) /\ at # 0
          /\ at = 2 + N + U + 1 /\ 1 \in 1..W /\ 2 + (N + 1) <= L
          /\ \A i \in 2..(at - 1) : i \in 2..(2 + N) \/ i = 2 + N + 1
      BY <2>n, <2>6
    <3>3. r[at] = END
      BY <2>1, <3>1, <3>2 DEF W
    <3> HIDE DEF at
    <3>4. \A i \in 2..(at - 1) : r[i] # END
      BY <2>1, <2>3, <2>6, <3>2, SymbolsDiffer
    <3>5. to = at
      <4>1. Len(r) \in Nat /\ at \in 2..Len(r)
        BY <2>1, <3>2 DEF L
      <4>2. find(r, END, 2) = at
        BY <3>3, <3>4, <4>1, FoundAt
      <4>3. QED
        BY <2>2, <4>2
    <3>6. /\ t \in Seq(Int) /\ Len(t) = N + 1 /\ t \in Text
          /\ \A i \in 1..N : t[i] = b[i]
          /\ t[N + 1] = CLOSE
      <4>1. CLOSE \in 1..(MAX_NUMSIZE - 1) /\ CLOSE \in Int
        BY OfferedAssumption DEF CLOSE
      <4>2. b \in Seq(1..(MAX_NUMSIZE - 1))
        BY <1>2 DEF Text
      <4>3. t \in Seq(1..(MAX_NUMSIZE - 1))
        BY <4>1, <4>2
      <4>4. /\ Len(t) = Len(b) + 1 /\ t[Len(b) + 1] = CLOSE
            /\ \A i \in 1..Len(b) : t[i] = b[i]
        BY <4>1, <4>2
      <4>5. t \in Text
        BY <4>3 DEF Text
      <4> HIDE DEF t
      <4>6. QED
        BY <4>4, <4>5, NumberIs DEF N
    <3> HIDE DEF t
    <3>7. ASSUME NEW i \in 1..(N + 1) PROVE r[2 + i] = t[i]
      <4>1. CASE i \in 1..N
        BY <2>1, <3>6, <4>1
      <4>2. CASE i = N + 1
        <5>1. 2 + i = 2 + N + 1
          BY <2>n, <4>2
        <5>2. QED
          BY <2>1, <2>6, <3>6, <4>2, <5>1
      <4>3. QED
        BY <2>n, <4>1, <4>2
    <3>8. SubSeq(r, 2 + 1, 2 + Len(t)) = t
      <4>1. 2 + Len(t) <= Len(r) /\ \A i \in 1..Len(t) : r[2 + i] = t[i]
        BY <3>2, <3>6, <3>7 DEF L
      <4>2. QED
        BY <2>1, <3>6, <4>1, CutOut
    <3> HIDE DEF to
    <3>9. number.text = t
      BY <1>1, <2>2, <3>2, <3>5, <3>6, <3>8
    <3>10. QED
      BY <1>1, <2>6, <3>6, <3>9
  <2>7. QED
    BY <2>n, <2>4, <2>5, <2>6
<1>8. QED
  BY <1>2, <1>6, <1>7

\* The place of the first reason among the parameters.
ReasonPlace(h) == CHOOSE i \in Reasons(h) : \A j \in Reasons(h) : i <= j

\* It is a reason, and no parameter before it is one.
LEMMA TheReason ==
    ASSUME NEW h \in HeaderForms, Reasons(h) # {},
           NEW i, i = ReasonPlace(h)
    PROVE  i \in Reasons(h) /\ FirstReason(h.parameters, i)
<1> DEFINE R == Reasons(h)
           ps == h.parameters
<1>1. R \in SUBSET Nat /\ R \subseteq 1..Len(ps) /\ \A j \in 1..Len(ps) : j \notin R => ps[j] = TEXT
  BY DEF Reasons
<1>2. ps \in Seq(Pieces) /\ Len(ps) \in Nat
  BY DEF HeaderForms, Pieces
<1>3. \E x \in R : \A j \in R : x <= j
  BY <1>1, Least
<1>4. i \in R /\ \A j \in R : i <= j
  BY <1>3 DEF ReasonPlace
<1>5. ps[i] # TEXT
  BY <1>4 DEF Reasons
<1> HIDE DEF R, ps
<1>6. ASSUME NEW j \in 1..(i - 1) PROVE ps[j] = TEXT
  <2>1. i \in 1..Len(ps)
    BY <1>1, <1>4
  <2>2. j \in 1..Len(ps) /\ ~(i <= j)
    BY <1>2, <2>1
  <2>3. QED
    BY <1>1, <1>4, <2>2
<1>7. QED
  BY <1>4, <1>5, <1>6 DEF FirstReason, R, ps

\* The reason of a header that is legible is read as it is meant.
LEMMA ReasonRead ==
    ASSUME NEW h \in HeaderForms, Legible(h), NEW reason, reason = Between(Rendered(h), REASON),
           NEW i, i = ReasonPlace(h)
    PROVE  reason.found /\ reason.text = <<h.parameters[i]>>
<1> DEFINE r == Rendered(h)
           b == h.number
           ps == h.parameters
           N == Len(b)
           w == ParametersText(ps)
           W == Len(w)
           L == Len(r)
           from == find(r, REASON, 1)
           to   == find(r, END, from)
<1>1. /\ reason.found <=> (from # 0 /\ to # 0)
      /\ reason.text = SubSeq(r, from + 1, to - 1)
  BY DEF Between
<1>2. b \in Text /\ ps \in Seq(Pieces) /\ Len(ps) \in Nat
  BY DEF HeaderForms, Pieces
<1>3. h.sip /\ h.uriParameter /\ Reasons(h) # {} /\ Len(ps) \notin Reasons(h)
  BY DEF Legible
<1>4. i \in Reasons(h) /\ FirstReason(ps, i)
  BY <1>3, TheReason
<1>5. i \in 1..Len(ps) /\ i # Len(ps) /\ ps[i] # TEXT
  BY <1>3, <1>4 DEF Reasons
<1>6. ps[i] \in Pieces /\ ps[i] \in Int /\ ps[i] # END
  BY <1>2, <1>5 DEF Pieces
<1>7. b \in Seq(Int) /\ N \in Nat /\ \A j \in 1..N : b[j] > 0 /\ b[j] \in Int
  BY <1>2, NumberIs
<1>8. /\ r \in Seq(Int) /\ L = 2 + N + 3 + W /\ W \in Nat /\ r[1] = TEXT /\ r[2] = SIP
      /\ \A j \in 1..N : r[2 + j] = b[j]
      /\ r[2 + N + 1] = END /\ r[2 + N + 2] = TEXT /\ r[2 + N + 3] = CLOSE
      /\ \A j \in 1..W : r[2 + N + 3 + j] = w[j]
  BY <1>3, RenderedIs DEF Layout, HeadLength, UriLength
<1>9. WrittenTo(w, ps, Len(ps))
  BY <1>2, <1>5, ParametersWritten
<1> HIDE DEF r, w, N, L
<1>10. PICK at \in 1..(W - 1) :
           /\ w[at] = REASON /\ w[at + 1] = ps[i]
           /\ \A j \in 1..(at - 1) : w[j] # REASON
           /\ at + 2 <= W /\ w[at + 2] = END
  BY <1>4, <1>5, <1>9 DEF WrittenTo
<1> HIDE DEF W
<1> DEFINE f == 2 + N + 3 + at
<1>11. /\ f \in 1..L /\ f + 1 \in f..L /\ f + 2 \in f..L /\ f \in Nat /\ f > 0 /\ L \in Nat
       /\ at \in 1..W /\ at + 1 \in 1..W /\ at + 2 \in 1..W
       /\ f + 1 = 2 + N + 3 + (at + 1) /\ f + 2 = 2 + N + 3 + (at + 2)
       /\ \A j \in f..(f + 2 - 1) : j = f \/ j = f + 1
  BY <1>7, <1>8, <1>10
<1>12. r[f] = REASON /\ r[f + 1] = ps[i] /\ r[f + 2] = END
  BY <1>8, <1>10, <1>11
<1>13. ASSUME NEW j \in 1..(f - 1) PROVE r[j] # REASON
  <2>1. \/ j = 1 \/ j = 2 \/ j = 2 + N + 1 \/ j = 2 + N + 2 \/ j = 2 + N + 3
        \/ \E k \in 1..N : j = 2 + k
        \/ \E k \in 1..(at - 1) : j = 2 + N + 3 + k
    <3>1. CASE j - 2 \in 1..N
      BY <3>1
    <3>2. CASE j - (2 + N + 3) \in 1..(at - 1)
      BY <1>7, <3>2
    <3>3. QED
      BY <1>7, <1>10, <1>11, <3>1, <3>2
  <2>2. ASSUME NEW k \in 1..N, j = 2 + k PROVE r[j] # REASON
    <3>1. r[j] = b[k] /\ b[k] > 0
      BY <1>7, <1>8, <2>2
    <3>2. QED
      BY <3>1 DEF REASON
  <2>3. ASSUME NEW k \in 1..(at - 1), j = 2 + N + 3 + k PROVE r[j] # REASON
    <3>1. k \in 1..W
      BY <1>8, <1>10
    <3>2. r[j] = w[k] /\ w[k] # REASON
      BY <1>8, <1>10, <2>3, <3>1
    <3>3. QED
      BY <3>2
  <2>4. QED
    BY <1>8, <2>1, <2>2, <2>3, SymbolsDiffer
<1> HIDE DEF f
<1>14. from = f
  <2>1. Len(r) \in Nat /\ f \in 1..Len(r) /\ 1 \in Nat /\ 1 > 0
    BY <1>11 DEF L
  <2>2. QED
    BY <1>12, <1>13, <2>1, FoundAt
<1> HIDE DEF from
<1>15. to = f + 2
  <2>1. Len(r) \in Nat /\ f + 2 \in f..Len(r)
    BY <1>11 DEF L
  <2>2. \A j \in f..(f + 2 - 1) : r[j] # END
    BY <1>6, <1>11, <1>12, SymbolsDiffer
  <2>3. find(r, END, f) = f + 2
    <3> DEFINE e == f + 2
    <3> HIDE DEF e
    <3>1. e \in f..Len(r) /\ r[e] = END /\ \A j \in f..(e - 1) : r[j] # END
      BY <1>11, <1>12, <2>1, <2>2 DEF e
    <3>2. find(r, END, f) = e
      BY <1>11, <2>1, <3>1, FoundAt
    <3>3. QED
      BY <3>2 DEF e
  <2>4. QED
    BY <1>14, <2>3
<1> HIDE DEF to
<1>16. SubSeq(r, f + 1, f + 1) = <<ps[i]>>
  <2> DEFINE t == <<ps[i]>>
  <2>1. t \in Seq(Int) /\ Len(t) = 1 /\ t[1] = ps[i]
    BY <1>6
  <2> HIDE DEF t
  <2>2. f + Len(t) <= Len(r) /\ \A j \in 1..Len(t) : r[f + j] = t[j]
    BY <1>11, <1>12, <2>1 DEF L
  <2>3. SubSeq(r, f + 1, f + Len(t)) = t
    BY <1>8, <1>11, <2>1, <2>2, CutOut
  <2>4. QED
    BY <2>1, <2>3 DEF t
<1>17. reason.text = SubSeq(r, f + 1, f + 1)
  <2>1. from + 1 = f + 1 /\ to - 1 = f + 1
    BY <1>11, <1>14, <1>15
  <2>2. QED
    BY <1>1, <2>1
<1>18. reason.found
  BY <1>1, <1>11, <1>14, <1>15
<1>19. QED
  BY <1>16, <1>17, <1>18

\* What GetSIPRdPN returns is a text and a reason it knows, or none.
IsDiversion(d) == d.RdPN \in Text /\ d.reasonCode \in {0, Unavailable, Busy}

\* The headers of a call are read, and the last one, if it is legible, as it is meant.
LEMMA DiversionIs ==
    ASSUME NEW call \in Calls
    PROVE  /\ IsDiversion(Diversion(call))
           /\ (call.headers # <<>> /\ Legible(Last(call.headers))) =>
                  Diversion(call) = Meant(Last(call.headers))
<1> DEFINE hs == call.headers
           n  == Len(hs)
           rs == [i \in 1..n |-> Rendered(hs[i])]
<1>1. hs \in Seq(HeaderForms) /\ n \in Nat /\ DOMAIN rs = 1..n
      /\ \A i \in 1..n : rs[i] = Rendered(hs[i]) /\ hs[i] \in HeaderForms
  BY CallsAssumption
<1>2. PICK turn : /\ turn[0] = NoDiversion /\ turn[n] = GetSIPRdPN(rs)
                  /\ \A k \in 1..n : turn[k] = OfHeader(turn[k - 1], rs[k])
  <2> HIDE DEF rs, n
  <2>1. QED
    BY <1>1, Loop
<1>3. Diversion(call) = turn[n]
  BY <1>2 DEF Diversion
<1> HIDE DEF rs, n, hs
<1> DEFINE S == {k \in Nat : k \in 0..n => IsDiversion(turn[k])}
<1>4. 0 \in S
  <2>1. <<>> \in Text
    BY DEF Text
  <2>2. QED
    BY <1>2, <2>1 DEF IsDiversion, NoDiversion
<1>5. ASSUME NEW k \in Nat, k \in S PROVE k + 1 \in S
  <2>1. SUFFICES ASSUME k + 1 \in 0..n PROVE IsDiversion(turn[k + 1])
    OBVIOUS
  <2> DEFINE j == k + 1
             d == turn[k]
  <2>2. j \in 1..n /\ j - 1 = k /\ IsDiversion(d)
    BY <1>1, <1>5, <2>1
  <2> HIDE DEF j
  <2>3. turn[j] = OfHeader(d, Rendered(hs[j])) /\ hs[j] \in HeaderForms
    BY <1>1, <1>2, <2>2
  <2> HIDE DEF d
  <2> DEFINE number == Between(Rendered(hs[j]), SIP)
             reason == Between(Rendered(hs[j]), REASON)
  <2>4. number.found => number.text \in Text
    BY <2>3, NumberRead
  <2> HIDE DEF number
  <2>5. sipReasons(reason.text) \in {0, Unavailable, Busy}
    BY DEF sipReasons
  <2> HIDE DEF reason
  <2>6. turn[j] = [result     |-> d.result \/ number.found,
                   RdPN       |-> IF number.found THEN number.text ELSE d.RdPN,
                   reasonCode |-> IF reason.found THEN sipReasons(reason.text)
                                  ELSE d.reasonCode]
    BY <2>3 DEF OfHeader, number, reason
  <2>7. /\ turn[j].RdPN = IF number.found THEN number.text ELSE d.RdPN
        /\ turn[j].reasonCode = IF reason.found THEN sipReasons(reason.text) ELSE d.reasonCode
    BY <2>6
  <2>8. IsDiversion(turn[j])
    BY <2>2, <2>4, <2>5, <2>7 DEF IsDiversion
  <2>9. QED
    BY <2>8 DEF j
<1>6. IsDiversion(Diversion(call))
  <2>1. n \in S
    <3> HIDE DEF S
    <3>1. QED
      BY <1>1, <1>4, <1>5, Induction
  <2>2. QED
    BY <1>1, <1>3, <2>1
<1>7. ASSUME hs # <<>>, Legible(Last(hs)) PROVE Diversion(call) = Meant(Last(hs))
  <2> DEFINE h == Last(hs)
             d == turn[n - 1]
             i == ReasonPlace(h)
             number == Between(Rendered(h), SIP)
             reason == Between(Rendered(h), REASON)
  <2>1. n > 0 /\ n \in 1..n
    BY <1>1, <1>7 DEF n
  <2>2. h = hs[n] /\ h \in HeaderForms
    BY <1>1, <2>1 DEF Last, n
  <2>3. Diversion(call) = OfHeader(d, Rendered(h))
    BY <1>1, <1>2, <1>3, <2>1, <2>2
  <2> HIDE DEF d, h
  <2>4. h.sip /\ h.uriParameter /\ Legible(h)
    BY <1>7 DEF Legible, h
  <2>5. number.found /\ number.text = h.number
    BY <2>2, <2>4, NumberRead
  <2>6. reason.found /\ reason.text = <<h.parameters[i]>>
    BY <2>2, <2>4, ReasonRead
  <2>7. Meant(h) = [result |-> TRUE, RdPN |-> h.number,
                    reasonCode |-> sipReasons(<<h.parameters[i]>>)]
    BY DEF Meant, ReasonPlace
  <2> HIDE DEF i, number, reason
  <2>8. Diversion(call) = [result     |-> d.result \/ number.found,
                           RdPN       |-> IF number.found THEN number.text ELSE d.RdPN,
                           reasonCode |-> IF reason.found THEN sipReasons(reason.text)
                                          ELSE d.reasonCode]
    BY <2>3 DEF OfHeader, number, reason
  <2>9. (d.result \/ number.found) = TRUE
    BY <2>5
  <2>10. Diversion(call) = Meant(h)
    BY <2>5, <2>6, <2>7, <2>8, <2>9
  <2>11. QED
    BY <2>10 DEF h
<1>8. QED
  BY <1>6, <1>7 DEF hs

\* The call that was last told of is one of those offered, or none.
LEMMA AskedIs == Spec => [](asked.call \in Calls \cup {NoCall})
<1> DEFINE Inv == asked.call \in Calls \cup {NoCall}
<1>1. Init => Inv
  BY DEF Init
<1>2. Inv /\ [Next]_vars => Inv'
  <2> SUFFICES ASSUME Inv, [Next]_vars PROVE Inv'
    OBVIOUS
  <2>1. ASSUME NEW c \in Channels, NEW call \in Calls, Offered(c, call) PROVE Inv'
    BY <2>1 DEF Offered
  <2>2. ASSUME NEW c \in Channels,
               NEW payload \in {SSPEventAnswered, SSPEventOnPlayFinished(0)}, Later(c, payload)
        PROVE  Inv'
    BY <2>2 DEF Later
  <2>3. ASSUME NEW c \in Channels, SecondEvent(c) PROVE Inv'
    BY <2>3 DEF SecondEvent
  <2>4. CASE OnOffered \/ OnUnreadable \/ OnOther \/ processPacket
    BY <2>4 DEF OnOffered, OnUnreadable, OnOther, processPacket
  <2>5. CASE UNCHANGED vars
    BY <2>5 DEF vars, pathVars
  <2>6. QED
    BY <2>1, <2>2, <2>3, <2>4, <2>5 DEF Next
<1>3. QED
  BY <1>1, <1>2, PTL DEF Spec

\* For any number of headers, of any form and with any parameters, the diversion is that
\* of the last one if the program knows its form, whatever the headers before it say.
THEOREM LastHeaderCounts == Spec => []DiversionAsMeant
<1>1. asked.call \in Calls \cup {NoCall} => DiversionAsMeant
  <2>1. CASE asked.call = NoCall
    BY <2>1 DEF NoCall, DiversionAsMeant
  <2>2. CASE asked.call \in Calls
    BY <2>2, DiversionIs DEF DiversionAsMeant
  <2>3. QED
    BY <2>1, <2>2
<1>2. QED
  BY <1>1, AskedIs, PTL

-----------------------------------------------------------------------------
(* The bytes of an offered call. *)

\* What a byte is.
Byte == 0..(B - 1)

\* A text is found in a message after its first base bytes.
Has(m, base, text) ==
    /\ base + Len(text) <= Len(m)
    /\ \A i \in 1..Len(text) : m[base + i] = text[i]

\* The sizes: a byte is told from the length of any text that is written.
LEMMA Sizes == MAX_NUMSIZE \in Nat /\ MAX_NUMSIZE > 2 /\ B \in Nat /\ B = 2 * MAX_NUMSIZE
BY OfferedAssumption DEF B, CLOSE

\* Two bytes tell a number below B * B.
LEMMA TwoBytes ==
    ASSUME NEW n \in 0..(B * B - 1)
    PROVE  /\ n % B \in Byte /\ n \div B \in Byte
           /\ (n % B) + B * (n \div B) = n
<1>1. B \in Nat /\ B > 0
  BY Sizes
<1>2. n % B \in 0..(B - 1) /\ n \div B \in Int /\ n = B * (n \div B) + (n % B)
  BY <1>1
<1> DEFINE q == n \div B
           r == n % B
<1>3. q \in Int /\ r \in 0..(B - 1) /\ n = B * q + r
  BY <1>2
<1> HIDE DEF q, r
<1>4. q >= 0 /\ q < B
  BY <1>1, <1>3
<1>5. QED
  BY <1>1, <1>2, <1>3, <1>4 DEF q, r, Byte

\* A length that is less than B is written as it is.
LEMMA OneByte == ASSUME NEW n \in Nat, n < B PROVE n % B = n /\ n \in Byte
BY Sizes DEF Byte

\* The texts of a call are bytes, and are read as text.
LEMMA TextBytes ==
    ASSUME NEW text \in Text
    PROVE  /\ text \in Seq(Byte) /\ Len(text) \in Nat
           /\ \A i \in 1..Len(text) : text[i] \in 1..(MAX_NUMSIZE - 1)
           /\ Decodes(text)
BY Sizes DEF Text, Byte, Decodes

\* The lesser of two numbers.
LEMMA MinOfTwo ==
    ASSUME NEW i \in Int, NEW j \in Int PROVE Min({i, j}) = IF i <= j THEN i ELSE j
BY DEF Min

\* What is written after what has been written leaves that where it is.
LEMMA Joined ==
    ASSUME NEW s \in Seq(Byte), NEW t \in Seq(Byte)
    PROVE  /\ s \o t \in Seq(Byte) /\ Len(s \o t) = Len(s) + Len(t)
           /\ Has(s \o t, 0, s) /\ Has(s \o t, Len(s), t)
           /\ \A base \in Nat, text \in Seq(Byte) : Has(s, base, text) => Has(s \o t, base, text)
<1>1. Len(s) \in Nat /\ Len(t) \in Nat
  OBVIOUS
<1>2. /\ s \o t \in Seq(Byte) /\ Len(s \o t) = Len(s) + Len(t)
      /\ \A i \in 1..(Len(s) + Len(t)) : (s \o t)[i] = IF i <= Len(s) THEN s[i]
                                                      ELSE t[i - Len(s)]
  BY ConcatProperties
<1> DEFINE u == s \o t
<1> HIDE DEF u
<1>3. \A i \in 1..Len(s) : u[i] = s[i]
  BY <1>1, <1>2 DEF u
<1>4. ASSUME NEW i \in 1..Len(t) PROVE u[Len(s) + i] = t[i]
  <2>1. /\ Len(s) + i \in 1..(Len(s) + Len(t)) /\ ~(Len(s) + i <= Len(s))
        /\ Len(s) + i - Len(s) = i
    BY <1>1
  <2>2. QED
    BY <1>2, <2>1 DEF u
<1>5. Len(u) = Len(s) + Len(t)
  BY <1>2 DEF u
<1>6. ASSUME NEW base \in Nat, NEW text \in Seq(Byte), Has(s, base, text)
      PROVE  Has(u, base, text)
  <2>1. Len(text) \in Nat /\ base + Len(text) <= Len(s)
    BY <1>6 DEF Has
  <2>2. ASSUME NEW i \in 1..Len(text) PROVE u[base + i] = text[i]
    <3>1. base + i \in 1..Len(s)
      BY <1>1, <2>1
    <3>2. QED
      BY <1>3, <1>6, <3>1 DEF Has
  <2>3. QED
    BY <1>1, <1>5, <2>1, <2>2 DEF Has
<1>7. Has(u, 0, s)
  <2>1. Has(s, 0, s)
    BY <1>1 DEF Has
  <2>2. QED
    BY <1>6, <2>1
<1>8. Has(u, Len(s), t)
  BY <1>1, <1>4, <1>5 DEF Has
<1>9. QED
  BY <1>2, <1>6, <1>7, <1>8 DEF u

\* What is in a part of a message is in the message.
LEMMA Within ==
    ASSUME NEW m, NEW s \in Seq(Byte), NEW t \in Seq(Byte), NEW base \in Nat, NEW k \in Nat,
           Has(m, base, s), Has(s, k, t), Len(m) \in Nat
    PROVE  Has(m, base + k, t)
<1>1. /\ Len(s) \in Nat /\ Len(t) \in Nat /\ k + Len(t) <= Len(s)
      /\ base + Len(s) <= Len(m)
  BY DEF Has
<1>2. ASSUME NEW i \in 1..Len(t) PROVE m[base + k + i] = t[i]
  <2>1. k + i \in 1..Len(s) /\ base + (k + i) = base + k + i
    BY <1>1
  <2>2. s[k + i] = t[i] /\ m[base + (k + i)] = s[k + i]
    BY <2>1 DEF Has
  <2>3. QED
    BY <2>1, <2>2
<1>3. QED
  BY <1>1, <1>2 DEF Has

\* A piece of a sequence has what is there.
LEMMA Piece ==
    ASSUME NEW m \in Seq(Byte), NEW base \in Nat, NEW n \in Nat, base + n <= Len(m)
    PROVE  /\ SubSeq(m, base + 1, base + n) \in Seq(Byte)
           /\ Len(SubSeq(m, base + 1, base + n)) = n
           /\ Has(m, base, SubSeq(m, base + 1, base + n))
<1>1. /\ base + 1 \in Int /\ base + n \in Int /\ \A i \in (base + 1)..(base + n) : m[i] \in Byte
      /\ base + n - (base + 1) + 1 = n /\ (base + 1 <= base + n <=> n > 0)
      /\ \A i \in 1..n : base + 1 + i - 1 = base + i
  OBVIOUS
<1> DEFINE s == SubSeq(m, base + 1, base + n)
<1>2. /\ s \in Seq(Byte)
      /\ Len(s) = IF base + 1 <= base + n THEN base + n - (base + 1) + 1 ELSE 0
      /\ \A i \in 1..(base + n - (base + 1) + 1) : s[i] = m[base + 1 + i - 1]
  BY <1>1, SubSeqProperties
<1> HIDE DEF s
<1>3. Len(s) = n
  BY <1>1, <1>2
<1>4. \A i \in 1..n : s[i] = m[base + 1 + i - 1]
  BY <1>1, <1>2
<1>5. \A i \in 1..n : s[i] = m[base + i]
  BY <1>1, <1>4
<1>6. QED
  BY <1>2, <1>3, <1>5 DEF s, Has

\* And so has what it begins with.
LEMMA Beginning ==
    ASSUME NEW m \in Seq(Byte), NEW n \in Nat, n <= Len(m)
    PROVE  /\ SubSeq(m, 1, n) \in Seq(Byte) /\ Len(SubSeq(m, 1, n)) = n
           /\ \A i \in 1..n : SubSeq(m, 1, n)[i] = m[i]
<1> DEFINE s == SubSeq(m, 0 + 1, 0 + n)
<1>1. s \in Seq(Byte) /\ Len(s) = n /\ Has(m, 0, s)
  BY 0 \in Nat, 0 + n <= Len(m), Piece
<1>2. SubSeq(m, 1, n) = s
  BY 0 + 1 = 1, 0 + n = n
<1> HIDE DEF s
<1>3. \A i \in 1..n : s[i] = m[i]
  BY <1>1, \A i \in 1..n : 0 + i = i DEF Has
<1>4. QED
  BY <1>1, <1>2, <1>3

\* Of one length, at one place, there is one text.
LEMMA OneText ==
    ASSUME NEW m, NEW base, NEW s \in Seq(Byte), NEW t \in Seq(Byte), Len(s) = Len(t),
           Has(m, base, s), Has(m, base, t)
    PROVE  s = t
<1>1. \A i \in 1..Len(s) : s[i] = t[i]
  BY DEF Has
<1>2. QED
  BY <1>1, SeqEqual

\* A text is read where it is.
LEMMA PieceIs ==
    ASSUME NEW m \in Seq(Byte), NEW base \in Nat, NEW text \in Seq(Byte), Has(m, base, text)
    PROVE  SubSeq(m, base + 1, base + Len(text)) = text
<1>1. Len(text) \in Nat /\ base + Len(text) <= Len(m)
  BY DEF Has
<1> DEFINE s == SubSeq(m, base + 1, base + Len(text))
<1>2. s \in Seq(Byte) /\ Len(s) = Len(text) /\ Has(m, base, s)
  BY <1>1, Piece
<1> HIDE DEF s
<1>3. s = text
  BY <1>2, OneText
<1>4. QED
  BY <1>3 DEF s

\* The first zero from a position on.
EndsAt(m, at, z) == z \in at..Len(m) /\ m[z] = 0 /\ \A i \in at..(z - 1) : m[i] # 0

\* A C string ends before the first zero.
LEMMA StringEnds ==
    ASSUME NEW m \in Seq(Byte), NEW at \in Nat, NEW z, EndsAt(m, at, z)
    PROVE  CString(m, at) = SubSeq(m, at, z - 1)
<1> DEFINE I == {i \in at..Len(m) : m[i] = 0}
<1>1. z \in I /\ \A i \in I : z <= i
  BY DEF EndsAt
<1>2. \A x \in I : (\A i \in I : x <= i) => x = z
  BY <1>1
<1> HIDE DEF I
<1>3. Min(I) = z
  BY <1>1, <1>2 DEF Min
<1>4. QED
  BY <1>1, <1>3 DEF CString, SelectInSubSeq, I

-----------------------------------------------------------------------------
(* What callserver reads from the fields of a call. *)

\* A field is a sequence of bytes: the text, and zeros.
LEMMA FieldBytes ==
    ASSUME NEW text \in Text
    PROVE  /\ strncpy(text) \in Seq(Byte) /\ Len(strncpy(text)) = MAX_NUMSIZE
           /\ \A i \in 1..MAX_NUMSIZE : strncpy(text)[i] = IF i <= Len(text) THEN text[i] ELSE 0
<1> DEFINE e(i) == IF i <= Len(text) THEN text[i] ELSE 0
<1>1. \A i \in 1..MAX_NUMSIZE : e(i) \in Byte
  BY Sizes DEF Text, Byte
<1>2. strncpy(text) = [i \in 1..MAX_NUMSIZE |-> e(i)]
  BY DEF strncpy
<1> HIDE DEF e
<1>3. [i \in 1..MAX_NUMSIZE |-> e(i)] \in Seq(Byte)
  BY <1>1, Sizes, IsASeq
<1>4. \A i \in 1..MAX_NUMSIZE : strncpy(text)[i] = e(i)
  BY <1>2
<1>5. QED
  BY <1>2, <1>3, <1>4, Sizes DEF e

\* Where the three numbers and the reason of a call are in memory.
Laid(m, call, RdPN, reason) ==
    /\ m \in Seq(Byte) /\ Len(m) = 3 * MAX_NUMSIZE + 4
    /\ Has(m, 0, strncpy(call.CgPN))
    /\ Has(m, MAX_NUMSIZE, strncpy(call.CdPN))
    /\ Has(m, 2 * MAX_NUMSIZE, strncpy(RdPN))
    /\ m[3 * MAX_NUMSIZE + 1] = reason % B
    /\ m[3 * MAX_NUMSIZE + 3] = 0

\* The three fields and the reason follow one another.
LEMMA MemoryLaid ==
    ASSUME NEW call, call.CgPN \in Text, call.CdPN \in Text,
           NEW RdPN \in Text, NEW reason \in 0..(B * B - 1)
    PROVE  Laid(Memory(call, RdPN, reason), call, RdPN, reason)
<1> DEFINE N  == MAX_NUMSIZE
           f1 == strncpy(call.CgPN)
           f2 == strncpy(call.CdPN)
           f3 == strncpy(RdPN)
           ib == IntBytes(reason)
<1>1. /\ f1 \in Seq(Byte) /\ f2 \in Seq(Byte) /\ f3 \in Seq(Byte)
      /\ Len(f1) = N /\ Len(f2) = N /\ Len(f3) = N
  BY FieldBytes
<1>2. ib \in Seq(Byte) /\ Len(ib) = 4 /\ ib[1] = reason % B /\ ib[3] = 0
  <2>1. reason % B \in Byte /\ reason \div B \in Byte
    BY TwoBytes
  <2>2. 0 \in Byte
    BY Sizes DEF Byte
  <2>3. QED
    BY <2>1, <2>2 DEF IntBytes
<1>3. Memory(call, RdPN, reason) = ((f1 \o f2) \o f3) \o ib
  BY DEF Memory
<1>4. N \in Nat
  BY Sizes
<1> HIDE DEF N, f1, f2, f3, ib
<1> DEFINE g == f1 \o f2
<1>5. /\ g \in Seq(Byte) /\ Len(g) = 2 * N
      /\ Has(g, 0, f1) /\ Has(g, N, f2)
  BY <1>1, <1>4, Joined
<1> HIDE DEF g
<1> DEFINE h == g \o f3
<1>6. /\ h \in Seq(Byte) /\ Len(h) = 3 * N
      /\ Has(h, 0, f1) /\ Has(h, N, f2) /\ Has(h, 2 * N, f3)
  <2>1. /\ h \in Seq(Byte) /\ Len(h) = Len(g) + Len(f3) /\ Has(h, Len(g), f3)
        /\ \A base \in Nat, text \in Seq(Byte) : Has(g, base, text) => Has(h, base, text)
    BY <1>1, <1>5, Joined
  <2> HIDE DEF h
  <2>2. QED
    BY <1>1, <1>4, <1>5, <2>1
<1> HIDE DEF h
<1> DEFINE m == h \o ib
<1>7. /\ m \in Seq(Byte) /\ Len(m) = 3 * N + 4
      /\ Has(m, 0, f1) /\ Has(m, N, f2) /\ Has(m, 2 * N, f3) /\ Has(m, 3 * N, ib)
  <2>1. /\ m \in Seq(Byte) /\ Len(m) = Len(h) + Len(ib) /\ Has(m, Len(h), ib)
        /\ \A base \in Nat, text \in Seq(Byte) : Has(h, base, text) => Has(m, base, text)
    BY <1>2, <1>6, Joined
  <2> HIDE DEF m
  <2>2. 2 * N \in Nat
    BY <1>4
  <2>3. QED
    BY <1>1, <1>2, <1>4, <1>6, <2>1, <2>2
<1>8. Memory(call, RdPN, reason) = m
  BY <1>3 DEF g, h
<1> HIDE DEF m
<1>9. m[3 * N + 1] = reason % B /\ m[3 * N + 3] = 0
  BY <1>2, <1>7 DEF Has
<1>10. QED
  BY <1>7, <1>8, <1>9 DEF N, f1, f2, f3, Laid

\* What is in a field of its own is read as it was put there.
LEMMA FieldRead ==
    ASSUME NEW m \in Seq(Byte), NEW base \in Nat, NEW text \in Text,
           Len(text) < MAX_NUMSIZE, Has(m, base, strncpy(text))
    PROVE  CString(m, base + 1) = text
<1> DEFINE z == base + Len(text) + 1
<1>1. /\ Len(text) \in Nat /\ Len(m) \in Nat /\ text \in Seq(Byte)
      /\ \A i \in 1..Len(text) : text[i] \in Nat \ {0}
  BY TextBytes, Sizes
<1>2. /\ base + MAX_NUMSIZE <= Len(m)
      /\ \A i \in 1..MAX_NUMSIZE : m[base + i] = IF i <= Len(text) THEN text[i] ELSE 0
  BY FieldBytes DEF Has
<1>3. \A i \in 1..Len(text) : m[base + i] = text[i]
  BY <1>1, <1>2, Sizes
<1>4. m[z] = 0
  <2>1. Len(text) + 1 \in 1..MAX_NUMSIZE /\ ~(Len(text) + 1 <= Len(text))
        /\ base + (Len(text) + 1) = z
    BY <1>1, Sizes
  <2>2. QED
    BY <1>2, <2>1
<1>5. ASSUME NEW i \in (base + 1)..(z - 1) PROVE m[i] # 0
  <2>1. i - base \in 1..Len(text) /\ base + (i - base) = i
    BY <1>1
  <2>2. QED
    BY <1>1, <1>3, <2>1
<1>6. base + 1 \in Nat /\ z \in (base + 1)..Len(m) /\ z - 1 = base + Len(text)
  BY <1>1, <1>2, Sizes
<1>7. EndsAt(m, base + 1, z)
  BY <1>4, <1>5, <1>6 DEF EndsAt
<1>8. CString(m, base + 1) = SubSeq(m, base + 1, base + Len(text))
  <2> HIDE DEF z
  <2>1. QED
    BY <1>6, <1>7, StringEnds
<1>9. Has(m, base, text)
  BY <1>1, <1>2, <1>3, Sizes DEF Has
<1>10. QED
  BY <1>1, <1>8, <1>9, PieceIs

\* A diverting number that fills its field is read on into the reason, and ends there:
\* it begins with what the field has, and is at most two bytes longer, if there is a reason.
LEMMA DiversionRuns ==
    ASSUME NEW m, NEW call, NEW RdPN \in Text, NEW reason,
           reason = 0 => reason % B = 0,
           Laid(m, call, RdPN, reason), Len(RdPN) >= MAX_NUMSIZE,
           NEW s, s = CString(m, 2 * MAX_NUMSIZE + 1)
    PROVE  /\ s \in Seq(Byte) /\ Len(s) \in MAX_NUMSIZE..(MAX_NUMSIZE + 2)
           /\ \A i \in 1..MAX_NUMSIZE : s[i] = RdPN[i]
           /\ reason = 0 => Len(s) = MAX_NUMSIZE
<1> DEFINE N == MAX_NUMSIZE
<1>1. /\ N \in Nat /\ N > 2 /\ 2 * N \in Nat
      /\ \A i \in 1..N : RdPN[i] \in 1..(N - 1)
  BY Sizes, TextBytes
<1>2. /\ m \in Seq(Byte) /\ Len(m) = 3 * N + 4
      /\ m[3 * N + 1] = reason % B /\ m[3 * N + 3] = 0
  BY DEF Laid
<1>3. \A i \in 1..N : m[2 * N + i] = RdPN[i]
  <2>1. \A i \in 1..N : m[2 * N + i] = strncpy(RdPN)[i]
    BY FieldBytes DEF Laid, Has
  <2>2. \A i \in 1..N : strncpy(RdPN)[i] = RdPN[i]
    BY <1>1, TextBytes DEF strncpy
  <2>3. QED
    BY <2>1, <2>2
<1> HIDE DEF N
<1>4. PICK z \in (3 * N + 1)..(3 * N + 3) :
          m[z] = 0 /\ \A i \in (3 * N + 1)..(z - 1) : m[i] # 0
  <2>1. CASE m[3 * N + 1] = 0
    BY <1>1, <2>1
  <2>2. CASE m[3 * N + 1] # 0 /\ m[3 * N + 2] = 0
    BY <1>1, <2>2
  <2>3. CASE m[3 * N + 1] # 0 /\ m[3 * N + 2] # 0
    <3>1. \A i \in (3 * N + 1)..(3 * N + 3 - 1) : i = 3 * N + 1 \/ i = 3 * N + 2
      BY <1>1
    <3>2. QED
      BY <1>1, <1>2, <2>3, <3>1
  <2>4. QED
    BY <2>1, <2>2, <2>3
<1>5. reason = 0 => z = 3 * N + 1
  <2>1. reason = 0 => m[3 * N + 1] = 0
    BY <1>2
  <2>2. z # 3 * N + 1 => 3 * N + 1 \in (3 * N + 1)..(z - 1)
    BY <1>1
  <2>3. QED
    BY <1>4, <2>1, <2>2
<1>6. ASSUME NEW i \in (2 * N + 1)..(z - 1) PROVE m[i] # 0
  <2>1. CASE i > 3 * N
    BY <1>1, <1>4, <2>1
  <2>2. CASE i <= 3 * N
    <3>1. i - 2 * N \in 1..N /\ 2 * N + (i - 2 * N) = i
      BY <1>1, <2>2
    <3>2. m[i] = RdPN[i - 2 * N] /\ RdPN[i - 2 * N] \in 1..(N - 1)
      BY <1>1, <1>3, <3>1
    <3>3. QED
      BY <1>1, <3>2
  <2>3. QED
    BY <1>1, <2>1, <2>2
<1> DEFINE n == z - 1 - 2 * N
<1>7. /\ n \in N..(N + 2) /\ n \in Nat /\ 2 * N + n = z - 1 /\ 2 * N + n <= Len(m)
      /\ z \in (2 * N + 1)..Len(m) /\ 2 * N + 1 \in Nat
      /\ (n = N) <=> (z = 3 * N + 1)
  BY <1>1, <1>2
<1> HIDE DEF n
<1>8. s = SubSeq(m, 2 * N + 1, 2 * N + n)
  <2>1. EndsAt(m, 2 * N + 1, z)
    BY <1>4, <1>6, <1>7 DEF EndsAt
  <2>2. CString(m, 2 * N + 1) = SubSeq(m, 2 * N + 1, z - 1)
    BY <1>2, <1>7, <2>1, StringEnds
  <2>3. QED
    BY <1>7, <2>2 DEF N
<1>9. s \in Seq(Byte) /\ Len(s) = n /\ Has(m, 2 * N, s)
  <2> DEFINE b == 2 * N
             x == SubSeq(m, b + 1, b + n)
  <2>1. b \in Nat /\ b + n <= Len(m)
    BY <1>1, <1>7
  <2>2. x = s
    BY <1>8
  <2> HIDE DEF b
  <2>3. x \in Seq(Byte) /\ Len(x) = n /\ Has(m, b, x)
    BY <1>2, <1>7, <2>1, Piece
  <2> HIDE DEF x
  <2>4. QED
    BY <2>2, <2>3 DEF b
<1>10. \A i \in 1..N : s[i] = RdPN[i]
  <2>1. \A i \in 1..N : i \in 1..n
    BY <1>1, <1>7
  <2>2. QED
    BY <1>3, <1>9, <2>1 DEF Has
<1>11. QED
  BY <1>5, <1>7, <1>9, <1>10 DEF N

\* A diverting number is told by one byte, is read exactly if it fits its field, and
\* otherwise begins with what fits; it is text unless a reason follows.
LEMMA DiversionRead ==
    ASSUME NEW m, NEW call, NEW RdPN \in Text, NEW reason \in 0..(B * B - 1),
           Laid(m, call, RdPN, reason),
           NEW s, s = CString(m, 2 * MAX_NUMSIZE + 1)
    PROVE  /\ s \in Seq(Byte) /\ Len(s) < B /\ Cut(s) = Cut(RdPN)
           /\ Len(RdPN) < MAX_NUMSIZE => s = RdPN
           /\ Len(RdPN) < MAX_NUMSIZE \/ reason = 0 => Decodes(s)
<1> DEFINE N == MAX_NUMSIZE
<1>1. N \in Nat /\ N > 2 /\ B = 2 * N /\ 2 * N \in Nat
  BY Sizes
<1>2. /\ RdPN \in Seq(Byte) /\ Len(RdPN) \in Nat /\ Decodes(RdPN)
      /\ \A i \in 1..Len(RdPN) : RdPN[i] \in 1..(N - 1)
  BY TextBytes
<1>3. CASE Len(RdPN) < N
  <2>1. s = RdPN
    BY <1>1, <1>3, FieldRead DEF Laid
  <2>2. QED
    BY <1>1, <1>2, <1>3, <2>1
<1>4. CASE Len(RdPN) >= N
  <2>1. reason = 0 => reason % B = 0
    BY <1>1
  <2>2. /\ s \in Seq(Byte) /\ Len(s) \in N..(N + 2)
        /\ \A i \in 1..N : s[i] = RdPN[i]
        /\ reason = 0 => Len(s) = N
    BY <1>4, <2>1, DiversionRuns
  <2> HIDE DEF N
  <2>3. Cut(s) = SubSeq(s, 1, N) /\ Cut(RdPN) = SubSeq(RdPN, 1, N)
    <3>1. Min({N, Len(s)}) = N
      BY <1>1, <2>2, MinOfTwo
    <3>2. Min({N, Len(RdPN)}) = N
      BY <1>1, <1>2, <1>4, MinOfTwo
    <3>3. QED
      BY <3>1, <3>2 DEF Cut, N
  <2>4. SubSeq(s, 1, N) = SubSeq(RdPN, 1, N)
    <3> DEFINE x == SubSeq(s, 1, N)
               y == SubSeq(RdPN, 1, N)
    <3>1. x \in Seq(Byte) /\ Len(x) = N /\ \A i \in 1..N : x[i] = s[i]
      BY <1>1, <2>2, Beginning
    <3>2. y \in Seq(Byte) /\ Len(y) = N /\ \A i \in 1..N : y[i] = RdPN[i]
      BY <1>1, <1>2, <1>4, Beginning
    <3> HIDE DEF x, y
    <3>3. x = y
      BY <2>2, <3>1, <3>2, SeqEqual
    <3>4. QED
      BY <3>3 DEF x, y
  <2>5. reason = 0 => Decodes(s)
    <3>1. \A i \in 1..N : i \in 1..Len(RdPN)
      BY <1>1, <1>2, <1>4
    <3>2. \A i \in 1..N : RdPN[i] \in 1..(N - 1)
      BY <1>2, <3>1 DEF N
    <3>3. \A i \in 1..N : s[i] < N
      BY <1>1, <2>2, <3>2
    <3>4. QED
      BY <2>2, <3>3 DEF Decodes, N
  <2>6. QED
    BY <1>1, <1>4, <2>2, <2>3, <2>4, <2>5 DEF N
<1>5. QED
  BY <1>1, <1>2, <1>3, <1>4

-----------------------------------------------------------------------------
(* What the two readers of the SCP read from any bytes. *)

\* A reader that has read the texts and reads on at a position.
Reading(texts, at) == [outcome |-> "ok", texts |-> texts, at |-> at, reason |-> 0]

\* The position after the text at a position.
After(data, at) == at + data[at] + 1

\* Where the second and the third number and the reason are.
Second(data)   == After(data, 1)
Third(data)    == After(data, Second(data))
ReasonAt(data) == After(data, Third(data))

\* What a reader takes for the text.
TextAt(data, at) == SubSeq(data, at + 1, Min({at + data[at], Len(data)}))

\* Having failed, a reader reads no more.
LEMMA FailedStays ==
    ASSUME NEW data, NEW s, NEW checked, s.outcome # "ok"
    PROVE  readStr(data, s, checked) = s
BY DEF readStr

\* A reader that reads a text finds its length, and goes on after it.
LEMMA ReadsText ==
    ASSUME NEW data \in Seq(Byte), NEW texts, NEW at \in Nat \ {0}, NEW checked \in BOOLEAN,
           readStr(data, Reading(texts, at), checked).outcome = "ok"
    PROVE  /\ at <= Len(data) /\ data[at] \in Nat
           /\ checked => at + data[at] <= Len(data)
           /\ Decodes(TextAt(data, at))
           /\ readStr(data, Reading(texts, at), checked)
                 = Reading(Append(texts, TextAt(data, at)), After(data, at))
           /\ After(data, at) \in Nat \ {0} /\ at < After(data, at)
<1> DEFINE s == Reading(texts, at)
<1>1. s.outcome = "ok" /\ s.at = at /\ s.texts = texts
  BY DEF Reading
<1>2. Refusal(checked) # "ok" /\ Len(data) \in Nat
  BY DEF Refusal
<1>3. at <= Len(data)
  <2>1. at > Len(data) => readStr(data, s, checked) = [s EXCEPT !.outcome = Refusal(checked)]
    BY <1>1 DEF readStr
  <2>2. QED
    BY <1>1, <1>2, <2>1 DEF Reading
<1>4. data[at] \in Nat
  BY <1>2, <1>3, Sizes DEF Byte
<1>5. ~(checked /\ at + data[at] > Len(data))
  <2>1. checked /\ at + data[at] > Len(data)
           => readStr(data, s, checked) = [s EXCEPT !.outcome = "malformed"]
    BY <1>1, <1>2, <1>3, <1>4 DEF readStr
  <2>2. QED
    BY <1>1, <2>1 DEF Reading
<1>6. readStr(data, s, checked)
        = IF Decodes(TextAt(data, at))
          THEN [s EXCEPT !.texts = Append(@, TextAt(data, at)), !.at = After(data, at)]
          ELSE [s EXCEPT !.outcome = "raises"]
  BY <1>1, <1>2, <1>3, <1>4, <1>5 DEF readStr, TextAt, After
<1>7. Decodes(TextAt(data, at))
  BY <1>1, <1>6 DEF Reading
<1>8. readStr(data, s, checked) = Reading(Append(texts, TextAt(data, at)), After(data, at))
  BY <1>6, <1>7 DEF Reading
<1>9. QED
  BY <1>2, <1>3, <1>4, <1>5, <1>7, <1>8 DEF After

\* A text that is there is read by both, as it is, if it is text.
LEMMA TextIsRead ==
    ASSUME NEW data \in Seq(Byte), NEW texts, NEW at \in Nat \ {0}, NEW checked \in BOOLEAN,
           at <= Len(data), at + data[at] <= Len(data)
    PROVE  readStr(data, Reading(texts, at), checked)
             = IF Decodes(TextAt(data, at))
               THEN Reading(Append(texts, TextAt(data, at)), After(data, at))
               ELSE [outcome |-> "raises", texts |-> texts, at |-> at, reason |-> 0]
<1> DEFINE s == Reading(texts, at)
<1>1. s.outcome = "ok" /\ s.at = at /\ s.texts = texts
  BY DEF Reading
<1>2. Len(data) \in Nat /\ data[at] \in Nat
  BY Sizes DEF Byte
<1>3. readStr(data, s, checked)
        = IF Decodes(TextAt(data, at))
          THEN [s EXCEPT !.texts = Append(@, TextAt(data, at)), !.at = After(data, at)]
          ELSE [s EXCEPT !.outcome = "raises"]
  BY <1>1, <1>2 DEF readStr, TextAt, After
<1>4. QED
  BY <1>3 DEF Reading

\* What a reader that has read three numbers and the reason has found.
LEMMA ReadsAll ==
    ASSUME NEW data \in Seq(Byte), NEW checked \in BOOLEAN,
           unpack(data, checked).outcome = "ok"
    PROVE  /\ Second(data) \in Nat /\ Third(data) \in Nat /\ ReasonAt(data) \in Nat
           /\ 1 < Second(data) /\ Second(data) < Third(data) /\ Third(data) < ReasonAt(data)
           /\ ReasonAt(data) + 1 <= Len(data)
           /\ \A other \in BOOLEAN : unpack(data, other) = unpack(data, checked)
<1> DEFINE p1 == 1
           p2 == After(data, p1)
           p3 == After(data, p2)
           p4 == After(data, p3)
           t1 == Append(<<>>, TextAt(data, p1))
           t2 == Append(t1, TextAt(data, p2))
           t3 == Append(t2, TextAt(data, p3))
           r1(c) == readStr(data, Reading(<<>>, p1), c)
           r2(c) == readStr(data, r1(c), c)
           r3(c) == readStr(data, r2(c), c)
<1>1. \A c \in BOOLEAN : readNumbers(data, c) = r3(c)
  BY DEF readNumbers, Reading
<1>2. Refusal(checked) # "ok" /\ Len(data) \in Nat
  BY DEF Refusal
<1>3. r3(checked).outcome = "ok"
  BY <1>1 DEF unpack
<1> HIDE DEF r3
<1>4. r2(checked).outcome = "ok"
  BY <1>3, FailedStays DEF r3
<1> HIDE DEF r2
<1>5. r1(checked).outcome = "ok"
  BY <1>4, FailedStays DEF r2
<1> HIDE DEF p2
<1>6. /\ p1 <= Len(data) /\ data[p1] \in Nat /\ Decodes(TextAt(data, p1))
      /\ r1(checked) = Reading(t1, p2) /\ p2 \in Nat \ {0} /\ p1 < p2
  BY <1>5, 1 \in Nat \ {0}, ReadsText DEF p2
<1> HIDE DEF r1, t1, p1, p3
<1>7. /\ p2 <= Len(data) /\ data[p2] \in Nat /\ Decodes(TextAt(data, p2))
      /\ r2(checked) = Reading(t2, p3) /\ p3 \in Nat \ {0} /\ p2 < p3
  BY <1>4, <1>6, ReadsText DEF r2, p3
<1> HIDE DEF t2, p4
<1>8. /\ p3 <= Len(data) /\ data[p3] \in Nat /\ Decodes(TextAt(data, p3))
      /\ r3(checked) = Reading(t3, p4) /\ p4 \in Nat \ {0} /\ p3 < p4
  BY <1>3, <1>7, ReadsText DEF r3, p4
<1> HIDE DEF t3
<1>9. p4 + 1 <= Len(data)
  <2>1. r3(checked).at = p4 /\ p4 \in Nat
    BY <1>8 DEF Reading
  <2>2. p4 + 1 > Len(data)
          => unpack(data, checked) = [Reading(t3, p4) EXCEPT !.outcome = Refusal(checked)]
    BY <1>1, <1>3, <1>8, <2>1 DEF unpack
  <2>3. QED
    BY <1>2, <2>1, <2>2 DEF Reading
<1>10. ASSUME NEW c \in BOOLEAN PROVE r3(c) = r3(checked)
  <2> DEFINE d1 == data[p1]
             d2 == data[p2]
             d3 == data[p3]
  <2>1. p2 = p1 + d1 + 1 /\ p3 = p2 + d2 + 1 /\ p4 = p3 + d3 + 1 /\ p1 \in Nat \ {0}
    <3>1. p2 = p1 + d1 + 1 /\ p1 \in Nat \ {0}
      BY DEF p2, p1, After
    <3>2. p3 = p2 + d2 + 1
      BY DEF p3, After
    <3>3. p4 = p3 + d3 + 1
      BY DEF p4, After
    <3>4. QED
      BY <3>1, <3>2, <3>3
  <2> HIDE DEF d1, d2, d3
  <2>2. /\ p1 + data[p1] <= Len(data) /\ p2 + data[p2] <= Len(data)
        /\ p3 + data[p3] <= Len(data) /\ p1 \in Nat \ {0}
    <3>1. d1 \in Nat /\ d2 \in Nat /\ d3 \in Nat
      BY <1>6, <1>7, <1>8 DEF d1, d2, d3
    <3>2. p1 + d1 <= Len(data) /\ p2 + d2 <= Len(data) /\ p3 + d3 <= Len(data)
      BY <1>2, <1>6, <1>7, <1>8, <1>9, <2>1, <3>1
    <3>3. QED
      BY <2>1, <3>2 DEF d1, d2, d3
  <2>3. r1(c) = Reading(t1, p2)
    BY <1>6, <2>2, TextIsRead DEF r1, t1, p2
  <2>4. r2(c) = Reading(t2, p3)
    BY <1>6, <1>7, <2>2, <2>3, TextIsRead DEF r2, t2, p3
  <2>5. r3(c) = Reading(t3, p4)
    BY <1>7, <1>8, <2>2, <2>4, TextIsRead DEF r3, t3, p4
  <2>6. QED
    BY <1>8, <2>5
<1>11. ASSUME NEW c \in BOOLEAN PROVE unpack(data, c) = unpack(data, checked)
  <2>1. readNumbers(data, c) = Reading(t3, p4) /\ readNumbers(data, checked) = Reading(t3, p4)
    BY <1>1, <1>8, <1>10
  <2>2. Reading(t3, p4).outcome = "ok" /\ Reading(t3, p4).at = p4 /\ ~(p4 + 1 > Len(data))
    BY <1>2, <1>8, <1>9 DEF Reading
  <2>3. QED
    BY <2>1, <2>2 DEF unpack
<1>12. QED
  <2>1. Second(data) = p2
    BY DEF Second, p2, p1
  <2>2. Third(data) = p3
    BY <2>1 DEF Third, p3
  <2>3. ReasonAt(data) = p4
    BY <2>2 DEF ReasonAt, p4
  <2>4. 1 = p1
    BY DEF p1
  <2>5. QED
    BY <1>6, <1>7, <1>8, <1>9, <1>11, <2>1, <2>2, <2>3, <2>4

-----------------------------------------------------------------------------
(* The event of an offered call, and what is read from it. *)

\* The bytes of an event after its code: three texts after their lengths, and the reason.
Written(data, a, b, c, reason) ==
    LET second == Len(a) + 2
        third  == second + Len(b) + 1
        last   == third + Len(c) + 1
    IN  /\ data \in Seq(Byte) /\ Len(data) = last + 1
        /\ data[1] = Len(a) /\ Has(data, 1, a)
        /\ data[second] = Len(b) /\ Has(data, second, b)
        /\ data[third] = Len(c) /\ Has(data, third, c)
        /\ data[last] + B * data[last + 1] = reason

\* A text that is shorter than a byte can tell is written with its length.
LEMMA PutBytes ==
    ASSUME NEW text \in Seq(Byte), Len(text) < B
    PROVE  /\ Put(text) \in Seq(Byte) /\ Len(Put(text)) = Len(text) + 1
           /\ Put(text)[1] = Len(text) /\ Has(Put(text), 1, text)
<1> DEFINE l == <<Len(text) % B>>
<1>1. Len(text) \in Nat
  OBVIOUS
<1>2. Len(text) % B = Len(text) /\ Len(text) \in Byte
  BY <1>1, OneByte
<1>3. l \in Seq(Byte) /\ Len(l) = 1 /\ l[1] = Len(text)
  BY <1>2
<1>4. Put(text) = l \o text
  BY DEF Put
<1> HIDE DEF l
<1>5. /\ l \o text \in Seq(Byte) /\ Len(l \o text) = Len(l) + Len(text)
      /\ Has(l \o text, 0, l) /\ Has(l \o text, Len(l), text)
  BY <1>3, Joined
<1>6. (l \o text)[0 + 1] = l[1]
  BY <1>3, <1>5 DEF Has
<1>7. QED
  BY <1>1, <1>3, <1>4, <1>5, <1>6

\* The rest of a message has what the message has, one byte earlier.
LEMMA RestHas ==
    ASSUME NEW e \in Seq(Byte), Len(e) > 0
    PROVE  /\ Tail(e) \in Seq(Byte) /\ Len(Tail(e)) = Len(e) - 1
           /\ \A i \in 1..(Len(e) - 1) : Tail(e)[i] = e[i + 1]
<1>1. e # <<>>
  OBVIOUS
<1>2. QED
  BY <1>1, HeadTailProperties

\* So a text is found in the rest with its length before it.
LEMMA RestPut ==
    ASSUME NEW e \in Seq(Byte), Len(e) > 0, NEW d, d = Tail(e),
           NEW text \in Seq(Byte), Len(text) < B, NEW k \in Nat, Has(e, k + 1, Put(text))
    PROVE  d[k + 1] = Len(text) /\ Has(d, k + 1, text)
<1> DEFINE p == Put(text)
           n == Len(text)
<1>1. p \in Seq(Byte) /\ Len(p) = n + 1 /\ p[1] = n /\ Has(p, 1, text)
  BY PutBytes
<1>2. /\ d \in Seq(Byte) /\ Len(d) = Len(e) - 1
      /\ \A i \in 1..(Len(e) - 1) : d[i] = e[i + 1]
  BY RestHas
<1>3. n \in Nat /\ Len(e) \in Nat
  OBVIOUS
<1>4. k + 1 + (n + 1) <= Len(e) /\ \A i \in 1..(n + 1) : e[k + 1 + i] = p[i]
  BY <1>1 DEF Has
<1>5. \A i \in 1..n : p[1 + i] = text[i]
  BY <1>1 DEF Has
<1> HIDE DEF p, n
<1>6. d[k + 1] = n
  <2>1. k + 1 \in 1..(Len(e) - 1) /\ 1 \in 1..(n + 1)
    BY <1>3, <1>4
  <2>2. d[k + 1] = e[k + 1 + 1] /\ e[k + 1 + 1] = p[1]
    BY <1>2, <1>4, <2>1
  <2>3. QED
    BY <1>1, <2>2
<1>7. ASSUME NEW i \in 1..n PROVE d[k + 1 + i] = text[i]
  <2>1. /\ k + 1 + i \in 1..(Len(e) - 1) /\ 1 + i \in 1..(n + 1)
        /\ k + 1 + i + 1 = k + 1 + (1 + i)
    BY <1>3, <1>4
  <2>2. d[k + 1 + i] = e[k + 1 + i + 1] /\ e[k + 1 + (1 + i)] = p[1 + i]
    BY <1>2, <1>4, <2>1
  <2>3. QED
    BY <1>5, <2>1, <2>2
<1>8. k + 1 + n <= Len(d)
  BY <1>2, <1>3, <1>4
<1>9. QED
  BY <1>6, <1>7, <1>8 DEF Has, n

\* What the event of a call is.
LEMMA EventWritten ==
    ASSUME NEW a \in Seq(Byte), NEW b \in Seq(Byte), NEW c \in Seq(Byte),
           Len(a) < B, Len(b) < B, Len(c) < B, NEW reason \in 0..(B * B - 1),
           NEW e, e = <<OFFERED>> \o Put(a) \o Put(b) \o Put(c) \o Two(reason)
    PROVE  e[1] = OFFERED /\ Written(Tail(e), a, b, c, reason)
<1> DEFINE o  == <<OFFERED>>
           pa == Put(a)
           pb == Put(b)
           pc == Put(c)
           w  == Two(reason)
           la == Len(a)
           lb == Len(b)
           lc == Len(c)
<1>1. /\ pa \in Seq(Byte) /\ Len(pa) = la + 1 /\ pa[1] = la /\ Has(pa, 1, a)
      /\ pb \in Seq(Byte) /\ Len(pb) = lb + 1 /\ pb[1] = lb /\ Has(pb, 1, b)
      /\ pc \in Seq(Byte) /\ Len(pc) = lc + 1 /\ pc[1] = lc /\ Has(pc, 1, c)
  BY PutBytes
<1>2. w \in Seq(Byte) /\ Len(w) = 2 /\ w[1] + B * w[2] = reason
  <2>1. /\ reason % B \in Byte /\ reason \div B \in Byte
        /\ (reason % B) + B * (reason \div B) = reason
    BY TwoBytes
  <2>2. w = <<reason % B, reason \div B>>
    BY DEF Two
  <2>3. QED
    BY <2>1, <2>2
<1>3. o \in Seq(Byte) /\ Len(o) = 1 /\ o[1] = OFFERED
  <2>1. OFFERED \in Byte
    BY Sizes DEF OFFERED, Byte
  <2>2. QED
    BY <2>1
<1>4. la \in Nat /\ lb \in Nat /\ lc \in Nat
  OBVIOUS
<1>5. e = (((o \o pa) \o pb) \o pc) \o w
  OBVIOUS
<1> HIDE DEF o, pa, pb, pc, w, la, lb, lc
<1> DEFINE e1 == o \o pa
           e2 == e1 \o pb
           e3 == e2 \o pc
<1>6. /\ e1 \in Seq(Byte) /\ Len(e1) = la + 2 /\ Has(e1, 0, o) /\ Has(e1, 1, pa)
  <2>1. /\ e1 \in Seq(Byte) /\ Len(e1) = Len(o) + Len(pa)
        /\ Has(e1, 0, o) /\ Has(e1, Len(o), pa)
    BY <1>1, <1>3, Joined
  <2> HIDE DEF e1
  <2>2. QED
    BY <1>1, <1>3, <1>4, <2>1
<1> HIDE DEF e1
<1>7. /\ e2 \in Seq(Byte) /\ Len(e2) = la + lb + 3
      /\ Has(e2, 0, o) /\ Has(e2, 1, pa) /\ Has(e2, la + 2, pb)
  <2>1. /\ e2 \in Seq(Byte) /\ Len(e2) = Len(e1) + Len(pb) /\ Has(e2, Len(e1), pb)
        /\ \A base \in Nat, text \in Seq(Byte) : Has(e1, base, text) => Has(e2, base, text)
    BY <1>1, <1>6, Joined
  <2> HIDE DEF e2
  <2>2. QED
    BY <1>1, <1>3, <1>4, <1>6, <2>1
<1> HIDE DEF e2
<1>8. /\ e3 \in Seq(Byte) /\ Len(e3) = la + lb + lc + 4
      /\ Has(e3, 0, o) /\ Has(e3, 1, pa) /\ Has(e3, la + 2, pb) /\ Has(e3, la + lb + 3, pc)
  <2>1. /\ e3 \in Seq(Byte) /\ Len(e3) = Len(e2) + Len(pc) /\ Has(e3, Len(e2), pc)
        /\ \A base \in Nat, text \in Seq(Byte) : Has(e2, base, text) => Has(e3, base, text)
    BY <1>1, <1>7, Joined
  <2> HIDE DEF e3
  <2>2. la + 2 \in Nat
    BY <1>4
  <2>3. QED
    BY <1>1, <1>3, <1>4, <1>7, <2>1, <2>2
<1> HIDE DEF e3
<1> DEFINE f == e3 \o w
<1>9. /\ f \in Seq(Byte) /\ Len(f) = la + lb + lc + 6
      /\ Has(f, 0, o) /\ Has(f, 1, pa) /\ Has(f, la + 2, pb) /\ Has(f, la + lb + 3, pc)
      /\ Has(f, la + lb + lc + 4, w)
  <2>1. /\ f \in Seq(Byte) /\ Len(f) = Len(e3) + Len(w) /\ Has(f, Len(e3), w)
        /\ \A base \in Nat, text \in Seq(Byte) : Has(e3, base, text) => Has(f, base, text)
    BY <1>2, <1>8, Joined
  <2> HIDE DEF f
  <2>2. la + 2 \in Nat /\ la + lb + 3 \in Nat
    BY <1>4
  <2>3. QED
    BY <1>1, <1>2, <1>3, <1>4, <1>8, <2>1, <2>2
<1> HIDE DEF f
<1> DEFINE d == Tail(f)
<1>10. /\ d \in Seq(Byte) /\ Len(d) = la + lb + lc + 5
       /\ \A i \in 1..(la + lb + lc + 5) : d[i] = f[i + 1]
  <2>1. Len(f) > 0 /\ Len(f) - 1 = la + lb + lc + 5
    BY <1>4, <1>9
  <2>2. QED
    BY <1>9, <2>1, RestHas
<1> HIDE DEF d
<1>11. d[1] = la /\ Has(d, 1, a)
  <2>1. 0 \in Nat /\ 0 + 1 = 1 /\ Len(f) > 0 /\ Has(f, 0 + 1, Put(a))
    BY <1>4, <1>9 DEF pa
  <2>2. d[0 + 1] = Len(a) /\ Has(d, 0 + 1, a)
    BY <1>9, <2>1, RestPut DEF d
  <2>3. QED
    BY <2>1, <2>2 DEF la
<1>12. d[la + 2] = lb /\ Has(d, la + 2, b)
  <2> DEFINE k == la + 1
  <2>1. k \in Nat /\ k + 1 = la + 2 /\ Len(f) > 0
    BY <1>4, <1>9
  <2>2. Has(f, k + 1, Put(b))
    BY <1>9, <2>1 DEF pb
  <2> HIDE DEF k
  <2>3. d[k + 1] = Len(b) /\ Has(d, k + 1, b)
    BY <1>9, <2>1, <2>2, RestPut DEF d
  <2>4. QED
    BY <2>1, <2>3 DEF lb
<1>13. d[la + lb + 3] = lc /\ Has(d, la + lb + 3, c)
  <2> DEFINE k == la + lb + 2
  <2>1. k \in Nat /\ k + 1 = la + lb + 3 /\ Len(f) > 0
    BY <1>4, <1>9
  <2>2. Has(f, k + 1, Put(c))
    BY <1>9, <2>1 DEF pc
  <2> HIDE DEF k
  <2>3. d[k + 1] = Len(c) /\ Has(d, k + 1, c)
    BY <1>9, <2>1, <2>2, RestPut DEF d
  <2>4. QED
    BY <2>1, <2>3 DEF lc
<1>14. d[la + lb + lc + 4] = w[1] /\ d[la + lb + lc + 5] = w[2]
  <2> DEFINE k == la + lb + lc + 4
  <2> HIDE DEF k
  <2>1. f[k + 1] = w[1] /\ f[k + 2] = w[2]
    <3>1. Has(f, k, w)
      BY <1>9 DEF k
    <3>2. QED
      BY <1>2, <3>1 DEF Has
  <2>2. /\ la + lb + lc + 4 \in 1..(la + lb + lc + 5)
        /\ la + lb + lc + 5 \in 1..(la + lb + lc + 5)
        /\ k = la + lb + lc + 4 /\ la + lb + lc + 5 + 1 = k + 2
    BY <1>4 DEF k
  <2>3. d[la + lb + lc + 4] = f[k + 1] /\ d[la + lb + lc + 5] = f[k + 2]
    BY <1>10, <2>2
  <2>4. QED
    BY <2>1, <2>3
<1>15. f[1] = OFFERED
  <2>1. 0 + 1 = 1 /\ Has(f, 0, o)
    BY <1>9
  <2>2. QED
    BY <1>3, <2>1 DEF Has
<1>16. Written(d, a, b, c, reason)
  <2>1. /\ la + 2 + lb + 1 = la + lb + 3 /\ la + lb + 3 + lc + 1 = la + lb + lc + 4
        /\ la + lb + lc + 4 + 1 = la + lb + lc + 5
    BY <1>4
  <2>2. QED
    BY <1>2, <1>10, <1>11, <1>12, <1>13, <1>14, <2>1 DEF Written, la, lb, lc
<1>17. QED
  BY <1>5, <1>15, <1>16 DEF d, e1, e2, e3, f


\* A reader that comes to a text takes it.
LEMMA TextTaken ==
    ASSUME NEW data \in Seq(Byte), NEW at \in Nat \ {0}, NEW text \in Seq(Byte),
           data[at] = Len(text), Has(data, at, text)
    PROVE  /\ TextAt(data, at) = text /\ After(data, at) = at + Len(text) + 1
           /\ at <= Len(data) /\ at + data[at] <= Len(data)
<1>1. Len(text) \in Nat /\ Len(data) \in Nat /\ at + Len(text) <= Len(data)
  BY DEF Has
<1>2. Min({at + Len(text), Len(data)}) = at + Len(text)
  BY <1>1, MinOfTwo
<1>3. SubSeq(data, at + 1, at + Len(text)) = text
  BY PieceIs
<1>4. TextAt(data, at) = text
  BY <1>2, <1>3 DEF TextAt
<1>5. QED
  BY <1>1, <1>4 DEF After

\* Where a reader of an event finds the texts and the reason.
LEMMA WrittenPlaces ==
    ASSUME NEW data, NEW a \in Seq(Byte), NEW b \in Seq(Byte), NEW c \in Seq(Byte), NEW reason,
           Written(data, a, b, c, reason)
    PROVE  /\ Second(data) = Len(a) + 2 /\ Third(data) = Second(data) + Len(b) + 1
           /\ ReasonAt(data) = Third(data) + Len(c) + 1 /\ Len(data) = ReasonAt(data) + 1
           /\ TextAt(data, 1) = a /\ TextAt(data, Second(data)) = b
           /\ TextAt(data, Third(data)) = c
           /\ Second(data) \in Nat \ {0} /\ Third(data) \in Nat \ {0}
           /\ 1 <= Len(data) /\ 1 + data[1] <= Len(data)
           /\ Second(data) <= Len(data) /\ Second(data) + data[Second(data)] <= Len(data)
           /\ Third(data) <= Len(data) /\ Third(data) + data[Third(data)] <= Len(data)
           /\ data[ReasonAt(data)] + B * data[ReasonAt(data) + 1] = reason
<1> DEFINE p2 == Len(a) + 2
           p3 == p2 + Len(b) + 1
           p4 == p3 + Len(c) + 1
<1>1. Len(a) \in Nat /\ Len(b) \in Nat /\ Len(c) \in Nat
  OBVIOUS
<1>2. p2 \in Nat \ {0} /\ p3 \in Nat \ {0} /\ 1 \in Nat \ {0} /\ 1 + Len(a) + 1 = p2
  BY <1>1
<1>3. /\ data \in Seq(Byte) /\ Len(data) = p4 + 1
      /\ data[1] = Len(a) /\ Has(data, 1, a)
      /\ data[p2] = Len(b) /\ Has(data, p2, b)
      /\ data[p3] = Len(c) /\ Has(data, p3, c)
      /\ data[p4] + B * data[p4 + 1] = reason
  BY DEF Written
<1>4. /\ TextAt(data, 1) = a /\ After(data, 1) = 1 + Len(a) + 1
      /\ 1 <= Len(data) /\ 1 + data[1] <= Len(data)
  BY <1>2, <1>3, TextTaken
<1> HIDE DEF p2
<1>5. Second(data) = p2
  BY <1>2, <1>4 DEF Second
<1>6. /\ TextAt(data, p2) = b /\ After(data, p2) = p3
      /\ p2 <= Len(data) /\ p2 + data[p2] <= Len(data)
  BY <1>2, <1>3, TextTaken
<1> HIDE DEF p3
<1>7. Third(data) = p3
  BY <1>5, <1>6 DEF Third
<1>8. /\ TextAt(data, p3) = c /\ After(data, p3) = p4
      /\ p3 <= Len(data) /\ p3 + data[p3] <= Len(data)
  BY <1>2, <1>3, TextTaken
<1> HIDE DEF p4
<1>9. ReasonAt(data) = p4
  BY <1>7, <1>8 DEF ReasonAt
<1>10. QED
  BY <1>2, <1>3, <1>4, <1>5, <1>6, <1>7, <1>8, <1>9 DEF p2, p3, p4

\* The texts that were read, one after the other.
LEMMA Texts ==
    ASSUME NEW a \in Seq(Byte), NEW b \in Seq(Byte), NEW c \in Seq(Byte)
    PROVE  /\ Append(<<>>, a) = <<a>> /\ Append(<<a>>, b) = <<a, b>>
           /\ Append(<<a, b>>, c) = <<a, b, c>>
<1> DEFINE S == Seq(Byte)
<1> HIDE DEF S
<1>1. a \in S /\ b \in S /\ c \in S
  BY DEF S
<1>2. /\ <<>> \in Seq(S) /\ <<a>> \in Seq(S) /\ <<a, b>> \in Seq(S) /\ <<a, b, c>> \in Seq(S)
      /\ Len(<<>>) = 0 /\ Len(<<a>>) = 1 /\ Len(<<a, b>>) = 2 /\ Len(<<a, b, c>>) = 3
  BY <1>1
<1>3. ASSUME NEW s \in Seq(S), NEW e \in S, NEW t \in Seq(S), Len(t) = Len(s) + 1,
             t[Len(s) + 1] = e, \A i \in 1..Len(s) : t[i] = s[i]
      PROVE  Append(s, e) = t
  <2>1. /\ Append(s, e) \in Seq(S) /\ Len(Append(s, e)) = Len(s) + 1
        /\ \A i \in 1..(Len(s) + 1) : Append(s, e)[i] = IF i <= Len(s) THEN s[i] ELSE e
    BY AppendProperties
  <2>2. \A i \in 1..(Len(s) + 1) : i \in 1..Len(s) \/ (i = Len(s) + 1 /\ ~(i <= Len(s)))
    OBVIOUS
  <2>3. \A i \in 1..(Len(s) + 1) : Append(s, e)[i] = t[i]
    BY <1>3, <2>1, <2>2
  <2>4. QED
    BY <1>3, <2>1, <2>3, SeqEqual
<1>4. Append(<<>>, a) = <<a>>
  BY <1>1, <1>2, <1>3
<1>5. Append(<<a>>, b) = <<a, b>>
  <2> DEFINE s == <<a>>
             t == <<a, b>>
  <2>1. /\ s \in Seq(S) /\ t \in Seq(S) /\ Len(t) = Len(s) + 1 /\ t[Len(s) + 1] = b
        /\ \A i \in 1..Len(s) : t[i] = s[i]
    BY <1>2
  <2> HIDE DEF s, t
  <2>2. Append(s, b) = t
    BY <1>1, <1>3, <2>1
  <2>3. QED
    BY <2>2 DEF s, t
<1>6. Append(<<a, b>>, c) = <<a, b, c>>
  <2> DEFINE s == <<a, b>>
             t == <<a, b, c>>
  <2>1. /\ s \in Seq(S) /\ t \in Seq(S) /\ Len(t) = Len(s) + 1 /\ t[Len(s) + 1] = c
        /\ \A i \in 1..Len(s) : t[i] = s[i]
    BY <1>2
  <2> HIDE DEF s, t
  <2>2. Append(s, c) = t
    BY <1>1, <1>3, <2>1
  <2>3. QED
    BY <2>2 DEF s, t
<1>7. QED
  BY <1>4, <1>5, <1>6

\* A reader that has read all.
AllRead(texts, at, reason) ==
    [outcome |-> "ok", texts |-> texts, at |-> at, reason |-> reason]

\* Both readers read an event as it was written; only the last text may be none.
LEMMA EventRead ==
    ASSUME NEW data, NEW a \in Seq(Byte), NEW b \in Seq(Byte), NEW c \in Seq(Byte), NEW reason,
           Written(data, a, b, c, reason), Decodes(a), Decodes(b), NEW checked \in BOOLEAN
    PROVE  /\ Decodes(c) => unpack(data, checked) = AllRead(<<a, b, c>>, ReasonAt(data), reason)
           /\ ~Decodes(c) => unpack(data, checked).outcome = "raises"
<1> DEFINE p2 == Second(data)
           p3 == Third(data)
           p4 == ReasonAt(data)
           r1 == readStr(data, Reading(<<>>, 1), checked)
           r2 == readStr(data, r1, checked)
           r3 == readStr(data, r2, checked)
<1>1. data \in Seq(Byte) /\ 1 \in Nat \ {0} /\ Len(data) \in Nat
  BY DEF Written
<1>2. /\ TextAt(data, 1) = a /\ TextAt(data, p2) = b /\ TextAt(data, p3) = c
      /\ p2 \in Nat \ {0} /\ p3 \in Nat \ {0} /\ Len(data) = p4 + 1
      /\ 1 <= Len(data) /\ 1 + data[1] <= Len(data)
      /\ p2 <= Len(data) /\ p2 + data[p2] <= Len(data)
      /\ p3 <= Len(data) /\ p3 + data[p3] <= Len(data)
      /\ data[p4] + B * data[p4 + 1] = reason
  BY WrittenPlaces
<1>3. readNumbers(data, checked) = r3
  BY DEF readNumbers, Reading
<1>4. r1 = Reading(<<a>>, p2)
  <2>1. r1 = IF Decodes(TextAt(data, 1))
             THEN Reading(Append(<<>>, TextAt(data, 1)), After(data, 1))
             ELSE [outcome |-> "raises", texts |-> <<>>, at |-> 1, reason |-> 0]
    BY <1>1, <1>2, TextIsRead
  <2>2. QED
    BY <1>2, <2>1, Texts DEF Second
<1> HIDE DEF r1
<1>5. r2 = Reading(<<a, b>>, p3)
  <2>1. readStr(data, Reading(<<a>>, p2), checked)
           = IF Decodes(TextAt(data, p2))
             THEN Reading(Append(<<a>>, TextAt(data, p2)), After(data, p2))
             ELSE [outcome |-> "raises", texts |-> <<a>>, at |-> p2, reason |-> 0]
    BY <1>1, <1>2, TextIsRead
  <2>2. QED
    BY <1>2, <1>4, <2>1, Texts DEF Third
<1> HIDE DEF r2
<1>6. r3 = IF Decodes(c) THEN Reading(<<a, b, c>>, p4)
           ELSE [outcome |-> "raises", texts |-> <<a, b>>, at |-> p3, reason |-> 0]
  <2>1. readStr(data, Reading(<<a, b>>, p3), checked)
           = IF Decodes(TextAt(data, p3))
             THEN Reading(Append(<<a, b>>, TextAt(data, p3)), After(data, p3))
             ELSE [outcome |-> "raises", texts |-> <<a, b>>, at |-> p3, reason |-> 0]
    BY <1>1, <1>2, TextIsRead
  <2>2. QED
    BY <1>2, <1>5, <2>1, Texts DEF ReasonAt
<1> HIDE DEF r3, p2, p3
<1>7. CASE Decodes(c)
  <2>1. r3 = Reading(<<a, b, c>>, p4)
    BY <1>6, <1>7
  <2> HIDE DEF p4
  <2>2. ~(p4 + 1 > Len(data))
    BY <1>1, <1>2
  <2>3. unpack(data, checked) = [Reading(<<a, b, c>>, p4) EXCEPT
                                     !.reason = data[p4] + B * data[p4 + 1]]
    BY <1>3, <2>1, <2>2 DEF unpack, Reading
  <2>4. QED
    BY <1>2, <1>7, <2>3 DEF Reading, AllRead, p4
<1>8. CASE ~Decodes(c)
  BY <1>3, <1>6, <1>8 DEF unpack
<1>9. QED
  BY <1>7, <1>8

\* An event that was cut is read by neither.
LEMMA CutFails ==
    ASSUME NEW data, NEW a \in Seq(Byte), NEW b \in Seq(Byte), NEW c \in Seq(Byte), NEW reason,
           Written(data, a, b, c, reason), NEW n \in Nat, n < Len(data), NEW checked \in BOOLEAN
    PROVE  unpack(SubSeq(data, 1, n), checked).outcome # "ok"
<1> DEFINE d == SubSeq(data, 1, n)
<1>1. data \in Seq(Byte) /\ Len(data) \in Nat
  BY DEF Written
<1>2. d \in Seq(Byte) /\ Len(d) = n /\ \A i \in 1..n : d[i] = data[i]
  BY <1>1, Beginning
<1> HIDE DEF d
<1>3. SUFFICES ASSUME unpack(d, checked).outcome = "ok" PROVE FALSE
  BY DEF d
<1>4. /\ Second(d) \in Nat /\ Third(d) \in Nat /\ ReasonAt(d) \in Nat
      /\ 1 < Second(d) /\ Second(d) < Third(d) /\ Third(d) < ReasonAt(d)
      /\ ReasonAt(d) + 1 <= n
  BY <1>2, <1>3, ReadsAll
<1>5. Second(d) = Second(data)
  <2>1. 1 \in 1..n
    BY <1>4
  <2>2. QED
    BY <1>2, <2>1 DEF Second, After
<1>6. Third(d) = Third(data)
  <2>1. Second(d) \in 1..n
    BY <1>4
  <2>2. QED
    BY <1>2, <1>5, <2>1 DEF Third, After
<1>7. ReasonAt(d) = ReasonAt(data)
  <2>1. Third(d) \in 1..n
    BY <1>4
  <2>2. QED
    BY <1>2, <1>6, <2>1 DEF ReasonAt, After
<1>8. Len(data) = ReasonAt(data) + 1
  BY WrittenPlaces
<1>9. QED
  BY <1>1, <1>4, <1>7, <1>8

-----------------------------------------------------------------------------
(* What the SCP knows of an offered call, and what becomes of its reply. *)

\* The event a call is offered with.
EventOf(call) == SSPEventOffered(call, Diversion(call).RdPN, Diversion(call).reasonCode)

\* What the SCP, whose reader checks, makes of it.
ReadOf(call) == unpack(Tail(EventOf(call)), TRUE)

\* The third text of an event is what is read of the diverting number.
ToldAs(call, s) ==
    LET told == Diversion(call) IN
    /\ s \in Seq(Byte) /\ Cut(s) = Cut(told.RdPN)
    /\ Len(told.RdPN) < MAX_NUMSIZE => s = told.RdPN
    /\ Len(told.RdPN) < MAX_NUMSIZE \/ told.reasonCode = 0 => Decodes(s)

\* The event of a call has its numbers, its reason, and what is read of the diverting one.
LEMMA CallWritten ==
    ASSUME NEW call \in Calls
    PROVE  /\ call.CgPN \in Seq(Byte) /\ Decodes(call.CgPN)
           /\ call.CdPN \in Seq(Byte) /\ Decodes(call.CdPN)
           /\ Diversion(call).reasonCode \in {0, Unavailable, Busy}
           /\ Diversion(call).reasonCode \in 0..(B * B - 1)
           /\ EventOf(call)[1] = OFFERED
           /\ \E s : ToldAs(call, s) /\ Written(Tail(EventOf(call)), call.CgPN, call.CdPN, s,
                                               Diversion(call).reasonCode)
<1> DEFINE RdPN   == Diversion(call).RdPN
           reason == Diversion(call).reasonCode
           m      == Memory(call, RdPN, reason)
           s      == CString(m, 2 * MAX_NUMSIZE + 1)
<1>1. /\ call.CgPN \in Text /\ call.CdPN \in Text /\ RdPN \in Text
      /\ Len(call.CgPN) < MAX_NUMSIZE /\ Len(call.CdPN) < MAX_NUMSIZE
      /\ reason \in {0, Unavailable, Busy}
  BY CallsAssumption, DiversionIs DEF IsDiversion
<1>2. reason \in 0..(B * B - 1)
  BY <1>1, OfferedAssumption, Sizes
<1>3. /\ call.CgPN \in Seq(Byte) /\ Decodes(call.CgPN) /\ Len(call.CgPN) \in Nat
      /\ call.CdPN \in Seq(Byte) /\ Decodes(call.CdPN) /\ Len(call.CdPN) \in Nat
  BY <1>1, TextBytes
<1>4. Len(call.CgPN) < B /\ Len(call.CdPN) < B
  BY <1>1, <1>3, Sizes
<1> HIDE DEF RdPN, reason
<1>5. Laid(m, call, RdPN, reason)
  BY <1>1, <1>2, MemoryLaid
<1> HIDE DEF m
<1>6. CString(m, 1) = call.CgPN
  BY <1>1, <1>5, FieldRead, 0 \in Nat, 0 + 1 = 1 DEF Laid
<1>7. CString(m, MAX_NUMSIZE + 1) = call.CdPN
  BY <1>1, <1>5, FieldRead, Sizes DEF Laid
<1>8. /\ s \in Seq(Byte) /\ Len(s) < B /\ Cut(s) = Cut(RdPN)
      /\ Len(RdPN) < MAX_NUMSIZE => s = RdPN
      /\ Len(RdPN) < MAX_NUMSIZE \/ reason = 0 => Decodes(s)
  BY <1>1, <1>2, <1>5, DiversionRead
<1> HIDE DEF s
<1>9. EventOf(call) = <<OFFERED>> \o Put(call.CgPN) \o Put(call.CdPN) \o Put(s) \o Two(reason)
  BY <1>6, <1>7 DEF EventOf, SSPEventOffered, m, s, RdPN, reason
<1>10. /\ EventOf(call)[1] = OFFERED
       /\ Written(Tail(EventOf(call)), call.CgPN, call.CdPN, s, reason)
  BY <1>2, <1>3, <1>4, <1>8, <1>9, EventWritten
<1>11. ToldAs(call, s)
  BY <1>8 DEF ToldAs, RdPN, reason
<1>12. QED
  BY <1>1, <1>2, <1>3, <1>10, <1>11 DEF reason

\* What is read is what callserver has of the call.
LEMMA CallRead ==
    ASSUME NEW call \in Calls, NEW read, read = ReadOf(call)
    PROVE  /\ read.outcome \in {"ok", "raises"}
           /\ read.outcome = "ok" =>
                 /\ read.texts[1] = call.CgPN /\ read.texts[2] = call.CdPN
                 /\ read.reason = Diversion(call).reasonCode
                 /\ ToldAs(call, read.texts[3])
           /\ read.outcome = "raises" =>
                 /\ ~(Len(Diversion(call).RdPN) < MAX_NUMSIZE)
                 /\ Diversion(call).reasonCode # 0
<1> DEFINE data   == Tail(EventOf(call))
           reason == Diversion(call).reasonCode
           CgPN   == call.CgPN
           CdPN   == call.CdPN
<1>1. PICK s : ToldAs(call, s) /\ Written(data, CgPN, CdPN, s, reason)
  BY CallWritten
<1>2. /\ CgPN \in Seq(Byte) /\ Decodes(CgPN)
      /\ CdPN \in Seq(Byte) /\ Decodes(CdPN) /\ s \in Seq(Byte)
  BY <1>1, CallWritten DEF ToldAs
<1> HIDE DEF data, reason, CgPN, CdPN
<1>3. /\ Decodes(s) => unpack(data, TRUE) = AllRead(<<CgPN, CdPN, s>>, ReasonAt(data), reason)
      /\ ~Decodes(s) => unpack(data, TRUE).outcome = "raises"
  BY <1>1, <1>2, EventRead
<1>4. read = unpack(data, TRUE)
  BY DEF data, ReadOf
<1>5. CASE Decodes(s)
  <2>1. read = AllRead(<<CgPN, CdPN, s>>, ReasonAt(data), reason)
    BY <1>3, <1>4, <1>5
  <2>2. /\ read.outcome = "ok" /\ read.outcome # "raises" /\ read.reason = reason
        /\ read.texts = <<CgPN, CdPN, s>>
    BY <2>1 DEF AllRead
  <2>3. read.texts[1] = CgPN /\ read.texts[2] = CdPN /\ read.texts[3] = s
    BY <2>2
  <2> DEFINE texts == read.texts
  <2> HIDE DEF texts
  <2>4. texts[1] = call.CgPN /\ texts[2] = call.CdPN /\ ToldAs(call, texts[3])
    BY <1>1, <2>3 DEF CgPN, CdPN, texts
  <2>5. QED
    BY <2>2, <2>4 DEF reason, texts
<1>6. CASE ~Decodes(s)
  <2>1. read.outcome = "raises"
    BY <1>3, <1>4, <1>6
  <2>2. ~(Len(Diversion(call).RdPN) < MAX_NUMSIZE) /\ Diversion(call).reasonCode # 0
    BY <1>1, <1>6 DEF ToldAs
  <2>3. QED
    BY <2>1, <2>2
<1>7. QED
  BY <1>5, <1>6

\* While an offered event or the reply to it is on the way, its session leads to the
\* channel that asked; the event is that of the call, and the reply answers it or drops
\* it with the reason it tells.
ToAsked == ending = "none" => getChannelBySession(message.session) = asked.channel

OfferedIsTold ==
    /\ Offers => /\ asked.call \in Calls /\ message.payload = EventOf(asked.call)
                 /\ ToAsked
    /\ scp.outcome # "none" => /\ asked.call \in Calls
                               /\ scp = ReadOf(asked.call)
    /\ (message.kind = "command" /\ scp.outcome = "ok") =>
          /\ message.payload \in {answerCall, dropCall(scp.reason)}
          /\ ToAsked

\* Nothing was read at first.
LEMMA ToldInit == Init => OfferedIsTold
BY DEF Init, OfferedIsTold, Offers, NoMessage, NotRead

\* Every step of the path keeps it.
LEMMA ToldNext == PathInv /\ OfferedIsTold /\ [Next]_vars => OfferedIsTold'
<1> SUFFICES ASSUME PathInv, OfferedIsTold, [Next]_vars PROVE OfferedIsTold'
  OBVIOUS
<1>1. message = [kind |-> message.kind, session |-> message.session,
                 payload |-> message.payload]
  BY DEF PathInv, AskedUnderNewest
<1>2. NotRead.outcome = "none" /\ NoMessage.kind = "none"
  BY DEF NotRead, NoMessage
<1>3. ASSUME NEW c \in Channels, NEW call \in Calls, Offered(c, call)
      PROVE  OfferedIsTold'
  <2>1. message' = [kind |-> "event", session |-> lastSession, payload |-> EventOf(call)]
    BY <1>3 DEF Offered, send, EventOf
  <2>2. scp' = NotRead /\ asked' = [channel |-> c, call |-> call]
    BY <1>3 DEF Offered
  <2>3. session2channel'[lastSession] = c
    <3>1. /\ session2channel' = [session2channel EXCEPT ![lastSession] = c]
          /\ session2channel \in [TSessionID -> Channels \cup {NoChannel}]
          /\ lastSession \in TSessionID
      BY <1>3 DEF Offered, createSession, PathInv, SInv, SessionTypeOK
    <3>2. QED
      BY <3>1
  <2>4. ToAsked'
    BY <2>1, <2>2, <2>3 DEF ToAsked, getChannelBySession
  <2>5. QED
    BY <1>2, <2>1, <2>2, <2>4 DEF OfferedIsTold, Offers
<1>4. ASSUME NEW c \in Channels,
             NEW payload \in {SSPEventAnswered, SSPEventOnPlayFinished(0)}, Later(c, payload)
      PROVE  OfferedIsTold'
  <2>1. scp' = NotRead
    BY <1>4 DEF Later
  <2>2. ~Offers'
    <3>1. CASE getSessionByChannel(c) = UNKNOWN_SESSION
      BY <1>4, <3>1 DEF Later, Offers
    <3>2. CASE getSessionByChannel(c) # UNKNOWN_SESSION
      <4>1. message'.payload = payload
        BY <1>4, <3>2 DEF Later, send
      <4>2. payload[1] # OFFERED
        <5>1. SSPEventAnswered[1] # OFFERED
          BY DEF SSPEventAnswered, ANSWERED, OFFERED
        <5>2. SSPEventOnPlayFinished(0)[1] # OFFERED
          <6>1. 0 \in 0..(B * B - 1)
            BY Sizes
          <6>2. 0 % B \in Byte /\ 0 \div B \in Byte /\ 0 \in Byte
            BY <6>1, Sizes, TwoBytes DEF Byte
          <6>3. IntBytes(0) \in Seq(Byte)
            BY <6>2 DEF IntBytes
          <6>4. <<PLAY_FINISHED>> \in Seq(Nat) /\ Len(<<PLAY_FINISHED>>) = 1
                /\ IntBytes(0) \in Seq(Nat)
            BY <6>3, Sizes DEF PLAY_FINISHED, Byte
          <6>5. SSPEventOnPlayFinished(0)[1] = <<PLAY_FINISHED>>[1]
            BY <6>4, ConcatProperties DEF SSPEventOnPlayFinished
          <6>6. QED
            BY <6>5 DEF PLAY_FINISHED, OFFERED
        <5>3. QED
          BY <5>1, <5>2
      <4>3. QED
        BY <4>1, <4>2 DEF Offers
    <3>3. QED
      BY <3>1, <3>2
  <2>3. QED
    BY <1>2, <2>1, <2>2 DEF OfferedIsTold
<1>5. ASSUME NEW c \in Channels, SecondEvent(c) PROVE OfferedIsTold'
  <2>1. ending' = "exception" /\ message' = message /\ scp' = scp /\ asked' = asked
    BY <1>5 DEF SecondEvent
  <2>2. QED
    BY <2>1 DEF OfferedIsTold, Offers, ToAsked
<1>6. CASE OnOffered
  <2>1. /\ Offers /\ scp' = ReadOffered /\ asked' = asked /\ ending' = ending
        /\ session2channel' = session2channel /\ ReadOffered.outcome = "ok"
    BY <1>6 DEF OnOffered, replies, sessionVars
  <2>2. /\ message'.kind = "command" /\ message'.session = message.session
        /\ message'.payload \in {answerCall, dropCall(scp'.reason)}
    BY <1>1, <1>6 DEF OnOffered, replies
  <2>3. asked.call \in Calls /\ ReadOffered = ReadOf(asked.call) /\ ToAsked
    BY <2>1 DEF OfferedIsTold, ReadOffered, ReadOf
  <2>4. ToAsked'
    BY <2>1, <2>2, <2>3 DEF ToAsked, getChannelBySession
  <2>5. QED
    BY <2>1, <2>2, <2>3, <2>4 DEF OfferedIsTold, Offers
<1>7. CASE OnUnreadable
  <2>1. /\ Offers /\ scp' = ReadOffered /\ asked' = asked /\ message'.kind = "unanswered"
    BY <1>1, <1>7 DEF OnUnreadable
  <2>2. asked.call \in Calls /\ ReadOffered = ReadOf(asked.call)
    BY <2>1 DEF OfferedIsTold, ReadOffered, ReadOf
  <2>3. QED
    BY <2>1, <2>2 DEF OfferedIsTold, Offers
<1>8. CASE OnOther
  <2>1. scp' = NotRead /\ message'.kind = "command"
    BY <1>1, <1>8 DEF OnOther, replies
  <2>2. QED
    BY <1>2, <2>1 DEF OfferedIsTold, Offers
<1>9. CASE processPacket
  <2>1. scp' = scp /\ asked' = asked /\ message' = NoMessage
    BY <1>9 DEF processPacket
  <2>2. QED
    BY <1>2, <2>1 DEF OfferedIsTold, Offers
<1>10. CASE UNCHANGED vars
  BY <1>10 DEF vars, pathVars, sessionVars, OfferedIsTold, Offers, ToAsked, getChannelBySession
<1>11. QED
  BY <1>3, <1>4, <1>5, <1>6, <1>7, <1>8, <1>9, <1>10 DEF Next

\* It holds on every path.
LEMMA ToldHolds == Spec => [](PathInv /\ OfferedIsTold)
<1>1. Init => PathInv /\ OfferedIsTold
  BY PathInit, ToldInit
<1>2. (PathInv /\ OfferedIsTold) /\ [Next]_vars => (PathInv /\ OfferedIsTold)'
  BY PathNext, ToldNext
<1>3. QED
  BY <1>1, <1>2, PTL DEF Spec

\* The SCP reads from an event what callserver has of the call, whatever the length of
\* the diverting number, for fields of any size.
THEOREM Framing == Spec => []FramingHolds
<1>1. OfferedIsTold => FramingHolds
  <2> SUFFICES ASSUME OfferedIsTold, scp.outcome = "ok"
               PROVE  LET told == Diversion(asked.call) IN
                      /\ scp.texts[1] = asked.call.CgPN /\ scp.texts[2] = asked.call.CdPN
                      /\ scp.reason = told.reasonCode
                      /\ Cut(scp.texts[3]) = Cut(told.RdPN)
                      /\ Len(told.RdPN) < MAX_NUMSIZE => scp.texts[3] = told.RdPN
    BY DEF FramingHolds
  <2>1. asked.call \in Calls /\ scp = ReadOf(asked.call)
    BY DEF OfferedIsTold
  <2>2. /\ scp.texts[1] = asked.call.CgPN /\ scp.texts[2] = asked.call.CdPN
        /\ scp.reason = Diversion(asked.call).reasonCode
        /\ ToldAs(asked.call, scp.texts[3])
    BY <2>1, CallRead
  <2>3. QED
    BY <2>2 DEF ToldAs
<1>2. QED
  BY <1>1, ToldHolds, PTL

\* Only a diverting number that fills its field, with a reason after it, is not read.
THEOREM OverlongOnly == Spec => []OnlyOverlongFails
<1>1. OfferedIsTold => OnlyOverlongFails
  <2> SUFFICES ASSUME OfferedIsTold, scp.outcome \in {"malformed", "raises"}
               PROVE  /\ scp.outcome = "raises"
                      /\ Len(Diversion(asked.call).RdPN) >= MAX_NUMSIZE
                      /\ Diversion(asked.call).reasonCode # 0
    BY DEF OnlyOverlongFails
  <2>1. asked.call \in Calls /\ scp = ReadOf(asked.call)
    BY DEF OfferedIsTold
  <2>2. /\ scp.outcome = "raises"
        /\ ~(Len(Diversion(asked.call).RdPN) < MAX_NUMSIZE)
        /\ Diversion(asked.call).reasonCode # 0
    BY <2>1, CallRead
  <2>3. Len(Diversion(asked.call).RdPN) \in Nat
    BY <2>1, DiversionIs, TextBytes DEF IsDiversion
  <2>4. QED
    BY <2>2, <2>3, Sizes
<1>2. QED
  BY <1>1, ToldHolds, PTL

\* The two readers agree on every event and on all that is left of it when it is cut.
THEOREM ReadersAgree == Spec => []UnpackersAgree
<1>1. OfferedIsTold => UnpackersAgree
  <2> SUFFICES ASSUME OfferedIsTold, Offers, NEW n \in 0..Len(Tail(message.payload))
               PROVE  LET data    == Tail(message.payload)
                          with    == unpack(SubSeq(data, 1, n), TRUE)
                          without == unpack(SubSeq(data, 1, n), FALSE)
                      IN  /\ (with.outcome = "ok") <=> (without.outcome = "ok")
                          /\ with.outcome = "ok" => n = Len(data) /\ with = without
    BY DEF UnpackersAgree
  <2> DEFINE data == Tail(message.payload)
             d    == SubSeq(data, 1, n)
  <2>1. asked.call \in Calls /\ data = Tail(EventOf(asked.call))
    BY DEF OfferedIsTold
  <2>2. PICK s : /\ s \in Seq(Byte) /\ asked.call.CgPN \in Seq(Byte)
                 /\ asked.call.CdPN \in Seq(Byte)
                 /\ Written(data, asked.call.CgPN, asked.call.CdPN, s,
                            Diversion(asked.call).reasonCode)
    BY <2>1, CallWritten DEF ToldAs
  <2>3. n \in Nat /\ n <= Len(data) /\ data \in Seq(Byte) /\ Len(data) \in Nat
    BY <2>2 DEF Written
  <2> HIDE DEF data
  <2>4. d \in Seq(Byte)
    BY <2>3, Beginning
  <2>5. ASSUME NEW c \in BOOLEAN, unpack(d, c).outcome = "ok"
        PROVE  n = Len(data)
    <3>1. ~(n < Len(data))
      BY <2>2, <2>3, <2>5, CutFails
    <3>2. QED
      BY <2>3, <3>1
  <2> HIDE DEF d
  <2>6. ASSUME NEW c \in BOOLEAN, unpack(d, c).outcome = "ok"
        PROVE  unpack(d, TRUE) = unpack(d, c) /\ unpack(d, FALSE) = unpack(d, c)
    BY <2>4, <2>6, ReadsAll
  <2>7. /\ (unpack(d, TRUE).outcome = "ok") <=> (unpack(d, FALSE).outcome = "ok")
        /\ unpack(d, TRUE).outcome = "ok" => n = Len(data) /\ unpack(d, TRUE) = unpack(d, FALSE)
    BY <2>5, <2>6
  <2>8. QED
    BY <2>7 DEF d, data
<1>2. QED
  BY <1>1, ToldHolds, PTL

\* A command is read as it was written.
LEMMA DropRead ==
    ASSUME NEW reason \in 0..(B * B - 1)
    PROVE  /\ Construct(dropCall(reason)).command = "DROP"
           /\ Construct(dropCall(reason)).reason = reason
<1> DEFINE d == dropCall(reason)
<1>1. /\ reason % B \in Byte /\ reason \div B \in Byte
      /\ (reason % B) + B * (reason \div B) = reason
  BY TwoBytes
<1>2. <<0>> \in Seq(Byte) /\ Two(reason) \in Seq(Byte)
  BY <1>1, Sizes DEF Two, Byte
<1>3. Len(<<0>>) = 1 /\ <<0>>[1] = 0 /\ Len(Two(reason)) = 2
      /\ Two(reason)[1] = reason % B /\ Two(reason)[2] = reason \div B
  BY DEF Two
<1>4. d[1] = 0 /\ d[2] = reason % B /\ d[3] = reason \div B
  <2>1. Has(d, 0, <<0>>) /\ Has(d, Len(<<0>>), Two(reason))
    BY <1>2, Joined DEF dropCall
  <2>2. d[0 + 1] = 0 /\ d[1 + 1] = reason % B /\ d[1 + 2] = reason \div B
    BY <1>3, <2>1 DEF Has
  <2>3. QED
    BY <2>2
<1> HIDE DEF d
<1>5. Construct(d) = [command |-> "DROP", reason |-> Word(d, 2), fragment |-> <<>>]
  BY <1>4 DEF Construct
<1>6. Word(d, 2) = reason
  BY <1>1, <1>4 DEF Word
<1>7. QED
  BY <1>5, <1>6 DEF d

\* The reason a call was diverted for comes back with its channel, as the status the
\* library refuses the call with, for any two statuses.
THEOREM ReasonComesBack == Spec => ReasonReturns
<1> DEFINE A == (processPacket /\ scp.outcome = "ok" /\ done'.command = "DROP") =>
                    /\ done'.channel = asked.channel
                    /\ SipStatus(done'.cause) = Diversion(asked.call).reasonCode
<1>1. (PathInv /\ OfferedIsTold) /\ [Next]_vars => [A]_vars
  <2> SUFFICES ASSUME PathInv, OfferedIsTold, processPacket, scp.outcome = "ok",
                      done'.command = "DROP"
               PROVE  /\ done'.channel = asked.channel
                      /\ SipStatus(done'.cause) = Diversion(asked.call).reasonCode
    OBVIOUS
  <2>1. /\ ending = "none" /\ message.kind = "command"
        /\ asked.call \in Calls /\ scp = ReadOf(asked.call)
        /\ message.payload \in {answerCall, dropCall(scp.reason)}
        /\ getChannelBySession(message.session) = asked.channel
    BY DEF processPacket, OfferedIsTold, ToAsked
  <2>2. asked.channel # NoChannel
    BY <2>1, WrapAssumption DEF PathInv, AskedUnderNewest
  <2>3. done' = [channel |-> asked.channel, command |-> Construct(message.payload).command,
                 cause |-> reasonCodeIP2reasonCodeDialogic(Construct(message.payload).reason),
                 fragment |-> Construct(message.payload).fragment]
    BY <2>1, <2>2 DEF processPacket
  <2>4. Construct(answerCall).command # "DROP"
    BY DEF Construct, answerCall
  <2>5. message.payload = dropCall(scp.reason)
    BY <2>1, <2>3, <2>4
  <2>6. scp.reason = Diversion(asked.call).reasonCode
    BY <2>1, CallRead
  <2>7. /\ Diversion(asked.call).reasonCode \in {0, Unavailable, Busy}
        /\ Diversion(asked.call).reasonCode \in 0..(B * B - 1)
    BY <2>1, CallWritten
  <2>8. Construct(message.payload).reason = Diversion(asked.call).reasonCode
    BY <2>5, <2>6, <2>7, DropRead
  <2>9. done'.channel = asked.channel
        /\ done'.cause = reasonCodeIP2reasonCodeDialogic(Diversion(asked.call).reasonCode)
    BY <2>3, <2>8
  <2>10. ASSUME NEW r \in {0, Unavailable, Busy}
         PROVE  SipStatus(reasonCodeIP2reasonCodeDialogic(r)) = r
    <3>1. 0 \notin {Unavailable, Busy}
      BY OfferedAssumption
    <3>2. QED
      BY <3>1 DEF SipStatus, reasonCodeIP2reasonCodeDialogic, IPEC_SIPReasonStatus480,
                  IPEC_SIPReasonStatus486, IPEC_InternalReason
  <2>11. QED
    BY <2>7, <2>9, <2>10
<1>2. QED
  BY <1>1, ToldHolds, PTL DEF Spec, ReasonReturns

=============================================================================
