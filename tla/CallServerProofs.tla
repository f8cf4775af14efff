--------------------------- MODULE CallServerProofs ---------------------------
(***************************************************************************)
(* The bookkeeping of CallServer, for any number of channels and calls,    *)
(* any bounds on the outside, any SCP and both modes: its types, voice     *)
(* resources, the order of a call's events, the count of calls, and that   *)
(* every event finds its call.                                             *)
(***************************************************************************)
EXTENDS CallServer, CallChannelProofs

USE ServerAssumption

-----------------------------------------------------------------------------
(* Sending. *)

\* What a step leaves alone keeps its type.
LEMMA TypeUnchanged ==
    ASSUME TypeOK
    PROVE  /\ UNCHANGED deviceVars => DeviceTypeOK'
           /\ UNCHANGED channelVars => ChannelTypeOK'
           /\ UNCHANGED <<sessionVars, exchange>> => SessionTypeOK'
           /\ UNCHANGED <<files, pc, proc>> => ProcessTypeOK'
BY ChannelTypeUnchanged DEF TypeOK, SessionTypeOK, sessionVars, ProcessTypeOK

\* A message goes out under an existing session, or the process ends.
LEMMA SendType ==
    ASSUME TypeOK, NEW s \in Session, NEW e \in SspEvent, Send(s, e)
    PROVE  /\ exchange' \in Exchange
           /\ exchange' = exchange \/ exchange'.session = s
           /\ proc' \in Ending \cup {"running"}
<1>1. CASE exchange.stage = "idle"
  <2>1. exchange' = [stage |-> "asked", session |-> s, body |-> e]
    BY <1>1 DEF Send
  <2>2. exchange' \in Exchange
    BY <2>1 DEF Exchange
  <2>3. QED
    BY <1>1, <2>1, <2>2 DEF Send, TypeOK, ProcessTypeOK
<1>2. CASE exchange.stage # "idle"
  BY <1>2 DEF Send, TypeOK, SessionTypeOK, Ending
<1>3. QED
  BY <1>1, <1>2

\* So does an event of a channel, and without a session the process ends.
LEMMA SendOfChannelType ==
    ASSUME TypeOK, UNCHANGED sessionVars, NEW c \in Channels, NEW e \in SspEvent,
           SendOfChannel(c, e)
    PROVE  SessionTypeOK' /\ proc' \in Ending \cup {"running"}
<1>1. CASE channel2session[c] # UNKNOWN_SESSION
  <2>1. channel2session[c] \in Session /\ channel2session[c] \in 0..(lastSession - 1)
    BY <1>1 DEF TypeOK, SessionTypeOK, Session
  <2>2. Send(channel2session[c], e)
    BY <1>1 DEF SendOfChannel, getSessionByChannel
  <2>3. QED
    BY <2>1, <2>2, SendType DEF TypeOK, SessionTypeOK, sessionVars
<1>2. CASE channel2session[c] = UNKNOWN_SESSION
  BY <1>2 DEF SendOfChannel, getSessionByChannel, TypeOK, SessionTypeOK, sessionVars,
              Ending
<1>3. QED
  BY <1>1, <1>2

-----------------------------------------------------------------------------
(* Type correctness. *)

\* The first state is well typed.
LEMMA TypeInit == Init => TypeOK
<1> SUFFICES ASSUME Init PROVE TypeOK
  OBVIOUS
<1>1. DeviceTypeOK /\ ChannelTypeOK
  BY ChannelTypeInit DEF Init
<1>2. SessionTypeOK
  <2>1. session2channel \in [0..(lastSession - 1) -> Channels]
    <3>1. 0..(lastSession - 1) = {}
      BY DEF Init
    <3>2. QED
      BY <3>1 DEF Init
  <2>2. exchange \in Exchange /\ exchange.stage = "idle"
    BY DEF Init, Exchange, NoExchange
  <2>3. lastSession \in 0..UNKNOWN_SESSION
    BY DEF Init
  <2>4. channel2session \in [Channels -> 0..(lastSession - 1) \cup {UNKNOWN_SESSION}]
    BY DEF Init
  <2>5. QED
    BY <2>1, <2>2, <2>3, <2>4 DEF SessionTypeOK
<1>3. ProcessTypeOK
  BY DEF Init, ProcessTypeOK
<1>4. QED
  BY <1>1, <1>2, <1>3 DEF TypeOK

\* A new call: its session is counted, known to its channel and has a channel.
LEMMA OfferedType ==
    ASSUME TypeOK, NEW c \in Channels, OnOffered(c)
    PROVE  TypeOK'
<1>1. DeviceTypeOK' /\ ChannelTypeOK'
  <2>1. /\ call' \in [Channels -> [Crn -> CallState]]
        /\ PState' \in [Channels -> PStateSet]
    BY DEF OnOffered, TypeOK, DeviceTypeOK, ChannelTypeOK, PStateSet
  <2>2. NewCall(c)
    BY DEF OnOffered
  <2>3. QED
    BY <2>1, <2>2, NewCallType DEF TypeOK
<1>2. lastSession \in Session /\ lastSession' = lastSession + 1
  BY DEF OnOffered, createSession, TypeOK, SessionTypeOK, Session
<1>3. /\ lastSession' \in 0..UNKNOWN_SESSION
      /\ 0..(lastSession' - 1) = 0..lastSession
      /\ 0..(lastSession - 1) \subseteq 0..lastSession
  BY <1>2 DEF OnOffered, TypeOK, SessionTypeOK
<1>4. channel2session' \in [Channels -> 0..lastSession \cup {UNKNOWN_SESSION}]
  BY <1>2, <1>3 DEF OnOffered, createSession, TypeOK, SessionTypeOK, Session
<1>5. session2channel' \in [0..lastSession -> Channels]
  BY <1>2 DEF OnOffered, createSession, TypeOK, SessionTypeOK, Session
<1>6. /\ exchange' \in Exchange
      /\ exchange' = exchange \/ exchange'.session = lastSession
      /\ proc' \in Ending \cup {"running"}
  BY <1>2, SendType DEF OnOffered, SspEvent
<1>7. exchange'.stage # "idle" => exchange'.session \in 0..lastSession
  BY <1>2, <1>3, <1>6 DEF TypeOK, SessionTypeOK, Session
<1>8. SessionTypeOK'
  BY <1>3, <1>4, <1>5, <1>6, <1>7 DEF SessionTypeOK
<1>9. ProcessTypeOK'
  BY <1>6 DEF OnOffered, AtEvent, TypeOK, ProcessTypeOK
<1>10. QED
  BY <1>1, <1>8, <1>9 DEF TypeOK

\* An answered call is reported, or dropped if it is in no slot.
LEMMA AnsweredType ==
    ASSUME TypeOK, NEW c \in Channels, OnAnswered(c)
    PROVE  TypeOK'
<1> DEFINE n == Head(evq[c]).crn
<1>1. DeviceTypeOK /\ ChannelTypeOK
  BY DEF TypeOK
<1>2. evq' \in [Channels -> Seq(Event)] /\ n \in Crn \cup {NoCrn}
  BY <1>1, TakeType DEF OnAnswered
<1>3. /\ gc_DropCall(call[c], n) \in [Crn -> CallState]
      /\ WithSState(Calls[c], n, "CONNECTED") \in [Slot -> CallInfo]
  BY <1>1, <1>2, RequestType, SlotsType, HandlerType DEF SStateSet
<1> HIDE DEF n
<1>4. call' \in [Channels -> [Crn -> CallState]]
  BY <1>1, <1>3, HandlerType DEF OnAnswered, n, DeviceTypeOK
<1>5. Calls' \in [Channels -> [Slot -> CallInfo]]
  BY <1>1, <1>3, HandlerType DEF OnAnswered, n
<1>6. DeviceTypeOK' /\ ChannelTypeOK'
  BY <1>1, <1>2, <1>4, <1>5 DEF OnAnswered, DeviceTypeOK, ChannelTypeOK, statVars
<1>7. SessionTypeOK' /\ proc' \in Ending \cup {"running"}
  <2>1. CASE Registered(Calls[c], n)
    BY <2>1, SendOfChannelType DEF OnAnswered, SspEvent, n
  <2>2. CASE ~Registered(Calls[c], n)
    <3>1. UNCHANGED <<exchange, proc, sessionVars>>
      BY <2>2 DEF OnAnswered, n
    <3>2. QED
      BY <3>1, TypeUnchanged DEF TypeOK, ProcessTypeOK
  <2>3. QED
    BY <2>1, <2>2
<1>8. ProcessTypeOK'
  BY <1>7 DEF OnAnswered, AtEvent, TypeOK, ProcessTypeOK
<1>9. QED
  BY <1>6, <1>7, <1>8 DEF TypeOK

\* Every step of processGlobalCall keeps the types.
LEMMA TypeEvent ==
    ASSUME TypeOK, NEW c \in Channels, ProcessEvent(c)
    PROVE  TypeOK'
<1>1. CASE OnChannelEvent(c)
  <2>1. DeviceTypeOK' /\ ChannelTypeOK'
    BY <1>1, LineType, CallType, FailureType DEF OnChannelEvent, TypeOK
  <2>2. SessionTypeOK'
    BY <1>1, TypeUnchanged DEF OnChannelEvent
  <2>3. ProcessTypeOK'
    BY <1>1 DEF OnChannelEvent, AtEvent, TypeOK, ProcessTypeOK
  <2>4. QED
    BY <2>1, <2>2, <2>3 DEF TypeOK
<1>2. CASE OnPlay(c)
  <2>1. evq' \in [Channels -> Seq(Event)]
    BY <1>2, TakeType DEF OnPlay, TypeOK
  <2>2. DeviceTypeOK' /\ ChannelTypeOK'
    BY <1>2, <2>1, TypeUnchanged DEF OnPlay, TypeOK, DeviceTypeOK
  <2>3. SessionTypeOK' /\ proc' \in Ending \cup {"running"}
    BY <1>2, SendOfChannelType DEF OnPlay, SspEvent
  <2>4. ProcessTypeOK'
    BY <1>2, <2>3 DEF OnPlay, AtEvent, TypeOK, ProcessTypeOK
  <2>5. QED
    BY <2>2, <2>3, <2>4 DEF TypeOK
<1>3. QED
  BY <1>1, <1>2, OfferedType, AnsweredType DEF ProcessEvent

\* Receiving a reply, whose session has a channel.
LEMMA ReceivedType ==
    ASSUME TypeOK, NEW cmd, Received(cmd)
    PROVE  /\ SessionTypeOK'
           /\ OfReply \in Channels
           /\ call[OfReply] \in [Crn -> CallState]
           /\ UNCHANGED <<Calls, VReady, stUnblocked, stUsed, interrupted, pc>>
<1>1. OfReply \in Channels
  BY DEF TypeOK, SessionTypeOK, Received, recv, OfReply, getChannelBySession
<1>2. NoExchange \in Exchange /\ NoExchange.stage = "idle"
  BY DEF Exchange, NoExchange
<1>3. SessionTypeOK'
  BY <1>2 DEF TypeOK, SessionTypeOK, Received, recv, sessionVars
<1>4. QED
  BY <1>1, <1>3 DEF TypeOK, DeviceTypeOK, Received, statVars

\* So does every step of processNetwork.
LEMMA TypeNetwork ==
    ASSUME TypeOK,
           \/ NothingReceived \/ Answer \/ PlayFragment \/ PlayFragmentFails
           \/ DropCall \/ UnknownCommand
    PROVE  TypeOK'
<1>1. CASE NothingReceived
  <2>1. ProcessTypeOK'
    BY <1>1 DEF NothingReceived, TypeOK, ProcessTypeOK, Ending
  <2>2. QED
    BY <1>1, <2>1, TypeUnchanged DEF NothingReceived, TypeOK
<1>2. CASE Answer
  <2>1. Received("ANSWER")
    BY <1>2 DEF Answer
  <2>2. call' \in [Channels -> [Crn -> CallState]]
    BY <1>2, <2>1, ReceivedType, RequestType DEF Answer, TypeOK, DeviceTypeOK
  <2>3. DeviceTypeOK'
    BY <1>2, <2>2 DEF Answer, TypeOK, DeviceTypeOK
  <2>4. ChannelTypeOK' /\ ProcessTypeOK'
    BY <1>2, <2>1, ReceivedType, TypeUnchanged DEF Answer, channelVars, statVars
  <2>5. QED
    BY <2>1, <2>3, <2>4, ReceivedType DEF TypeOK
<1>3. CASE PlayFragment
  <2>1. Received("PLAY")
    BY <1>3 DEF PlayFragment
  <2>2. /\ voice' \in [Channels -> {"idle", "play", "stopping"}]
        /\ PState' \in [Channels -> PStateSet]
        /\ files' \in [Channels -> Nat]
    BY <1>3, <2>1, ReceivedType
       DEF PlayFragment, TypeOK, DeviceTypeOK, ChannelTypeOK, PStateSet, ProcessTypeOK
  <2>3. DeviceTypeOK' /\ ChannelTypeOK' /\ ProcessTypeOK'
    BY <1>3, <2>1, <2>2, ReceivedType
       DEF PlayFragment, TypeOK, DeviceTypeOK, ChannelTypeOK, ProcessTypeOK
  <2>4. QED
    BY <2>1, <2>3, ReceivedType DEF TypeOK
<1>4. CASE PlayFragmentFails
  <2>1. Received("PLAY")
    BY <1>4 DEF PlayFragmentFails
  <2>2. spent' \in [Budget -> Nat]
    BY <1>4, SpendType DEF PlayFragmentFails, Budget, TypeOK, DeviceTypeOK
  <2>3. DeviceTypeOK'
    BY <1>4, <2>2 DEF PlayFragmentFails, TypeOK, DeviceTypeOK
  <2>4. ChannelTypeOK' /\ ProcessTypeOK'
    BY <1>4, <2>1, ReceivedType, TypeUnchanged DEF PlayFragmentFails, channelVars, statVars
  <2>5. QED
    BY <2>1, <2>3, <2>4, ReceivedType DEF TypeOK
<1>5. CASE DropCall
  <2>1. Received("DROP")
    BY <1>5 DEF DropCall
  <2>2. /\ call' \in [Channels -> [Crn -> CallState]]
        /\ PState' \in [Channels -> PStateSet]
    BY <1>5, <2>1, ReceivedType, DisconnectType DEF DropCall, TypeOK
  <2>3. DeviceTypeOK' /\ ChannelTypeOK' /\ ProcessTypeOK'
    BY <1>5, <2>1, <2>2, ReceivedType
       DEF DropCall, TypeOK, DeviceTypeOK, ChannelTypeOK, ProcessTypeOK
  <2>4. QED
    BY <2>1, <2>3, ReceivedType DEF TypeOK
<1>6. CASE UnknownCommand
  <2>1. Received("OTHER")
    BY <1>6 DEF UnknownCommand
  <2>2. ChannelTypeOK'
    BY <1>6, <2>1, ReceivedType, TypeUnchanged DEF UnknownCommand, channelVars, statVars
  <2>3. ProcessTypeOK'
    BY <1>6, <2>1, ReceivedType DEF UnknownCommand, TypeOK, ProcessTypeOK, Ending
  <2>4. QED
    BY <1>6, <2>1, <2>2, <2>3, ReceivedType, TypeUnchanged DEF UnknownCommand, TypeOK
<1>7. QED
  BY <1>1, <1>2, <1>3, <1>4, <1>5, <1>6

\* The remaining steps: a poll without event, the exit check, the signal handler
\* and the SCP.
LEMMA TypeRest ==
    ASSUME TypeOK,
           \/ NoEvent \/ NotInterrupted \/ checkAppExitCondition
           \/ ScpProcess \/ ScpSilent \/ Signal
    PROVE  TypeOK'
<1>1. CASE NoEvent \/ NotInterrupted
  <2>1. ProcessTypeOK'
    BY <1>1 DEF NoEvent, AtEvent, NotInterrupted, AtExit, TypeOK, ProcessTypeOK
  <2>2. QED
    BY <1>1, <2>1, TypeUnchanged DEF NoEvent, NotInterrupted, TypeOK
<1>2. CASE checkAppExitCondition
  <2>1. DeviceTypeOK' /\ ChannelTypeOK'
    BY <1>2, CloseType DEF checkAppExitCondition, TypeOK
  <2>2. ProcessTypeOK'
    BY <1>2 DEF checkAppExitCondition, AtExit, TypeOK, ProcessTypeOK, Ending
  <2>3. QED
    BY <1>2, <2>1, <2>2, TypeUnchanged DEF checkAppExitCondition, TypeOK
<1>3. CASE ScpProcess
  <2>1. PICK cmd \in Script[exchange.body] :
            exchange' = [exchange EXCEPT !.stage = "told", !.body = cmd]
    BY <1>3 DEF ScpProcess
  <2>2. exchange \in [stage : {"asked", "lost"}, session : Session, body : SspEvent]
    <3>1. exchange \in Exchange /\ exchange.stage = "asked"
      BY <1>3 DEF ScpProcess, TypeOK, SessionTypeOK
    <3>2. QED
      BY <3>1 DEF Exchange, NoExchange
  <2>3. cmd \in Command
    BY <2>1, <2>2
  <2>4. exchange' \in Exchange /\ exchange'.session = exchange.session
    BY <2>1, <2>2, <2>3 DEF Exchange
  <2>5. SessionTypeOK'
    BY <1>3, <2>4 DEF ScpProcess, TypeOK, SessionTypeOK, sessionVars
  <2>6. QED
    BY <1>3, <2>5, TypeUnchanged DEF ScpProcess, TypeOK
<1>4. CASE ScpSilent
  <2>1. spent' \in [Budget -> Nat]
    BY <1>4, SpendType DEF ScpSilent, Budget, TypeOK, DeviceTypeOK
  <2>2. DeviceTypeOK'
    BY <1>4, <2>1 DEF ScpSilent, TypeOK, DeviceTypeOK
  <2>3. exchange \in [stage : {"asked", "lost"}, session : Session, body : SspEvent]
    BY <1>4 DEF ScpSilent, TypeOK, SessionTypeOK, Exchange, NoExchange
  <2>4. exchange' \in Exchange /\ exchange'.session = exchange.session
    BY <1>4, <2>3 DEF ScpSilent, Exchange
  <2>5. SessionTypeOK'
    BY <1>4, <2>4 DEF ScpSilent, TypeOK, SessionTypeOK, sessionVars
  <2>6. QED
    BY <1>4, <2>2, <2>5, TypeUnchanged DEF ScpSilent, TypeOK
<1>5. CASE Signal
  BY <1>5, SignalType, TypeUnchanged DEF Signal, TypeOK
<1>6. QED
  BY <1>1, <1>2, <1>3, <1>4, <1>5

\* Every step of the program, the library and the SCP keeps the types.
LEMMA TypeNext == TypeOK /\ [Next]_vars => TypeOK'
<1> SUFFICES ASSUME TypeOK, [Next]_vars PROVE TypeOK'
  OBVIOUS
<1>1. CASE UNCHANGED vars
  BY <1>1, TypeUnchanged DEF vars, serverVars, TypeOK
<1>2. ASSUME NEW c \in Channels, Library(c) \/ Network(c), Outside PROVE TypeOK'
  BY <1>2, EnvironmentType, TypeUnchanged DEF Outside, serverVars, TypeOK
<1>3. CASE Next
  BY <1>2, <1>3, TypeEvent, TypeNetwork, TypeRest DEF Next, MainLoop
<1>4. QED
  BY <1>1, <1>3

\* Every variable keeps its type, and every session the SCP can name in a reply
\* has a channel: the lookups of processPacket and SendOfChannel are defined.
THEOREM TypeCorrect == Spec => []TypeOK
BY TypeInit, TypeNext, PTL DEF Spec

-----------------------------------------------------------------------------
(* No call without a voice resource. *)

\* The steps of callserver's own: an offered or answered call, a playback, a command.
LEMMA ServerVoice ==
    ASSUME TypeOK, VoiceInv, UNCHANGED VReady,
           \/ \E c \in Channels : OnOffered(c) \/ OnAnswered(c) \/ OnPlay(c)
           \/ \E cmd \in Command : Received(cmd) /\ (Answer \/ PlayFragment \/ PlayFragmentFails \/ DropCall \/ UnknownCommand)
    PROVE  VoiceInv'
<1> SUFFICES ASSUME NEW d \in Channels, ~VReady[d]
             PROVE  ~waiting'[d] /\ resets'[d] = 0 /\ NoLive(call'[d]) /\ Harmless(evq'[d])
  BY DEF VoiceInv
<1>1. ~waiting[d] /\ resets[d] = 0 /\ NoLive(call[d]) /\ Harmless(evq[d])
  BY DEF VoiceInv
<1>2. DeviceTypeOK /\ call \in [Channels -> [Crn -> CallState]]
  BY DEF TypeOK, DeviceTypeOK
<1>3. ASSUME NEW c \in Channels, OnOffered(c) \/ OnAnswered(c) \/ OnPlay(c)
      PROVE  ~waiting'[d] /\ resets'[d] = 0 /\ NoLive(call'[d]) /\ Harmless(evq'[d])
  <2>1. Harmless(evq'[d])
    BY <1>1, <1>2, <1>3, TakeHarmless DEF OnOffered, NewCall, OnAnswered, OnPlay
  <2>2. NoLive(call'[d])
    BY <1>1, <1>2, <1>3, RequestNoLive DEF OnOffered, OnAnswered, OnPlay
  <2>3. QED
    BY <1>1, <1>3, <2>1, <2>2 DEF OnOffered, NewCall, OnAnswered, OnPlay
<1>4. ASSUME NEW cmd, Received(cmd),
             Answer \/ PlayFragment \/ PlayFragmentFails \/ DropCall \/ UnknownCommand
      PROVE  ~waiting'[d] /\ resets'[d] = 0 /\ NoLive(call'[d]) /\ Harmless(evq'[d])
  <2>1. NoLive(call'[d])
    BY <1>1, <1>2, <1>4, RequestNoLive
       DEF Answer, PlayFragment, PlayFragmentFails, DropCall, InitDisconnect, UnknownCommand,
           deviceVars
  <2>2. QED
    BY <1>1, <1>4, <2>1
       DEF Answer, PlayFragment, PlayFragmentFails, DropCall, UnknownCommand, deviceVars
<1>5. QED
  BY <1>3, <1>4

\* Every step leaves a channel without voice without calls.
LEMMA VoiceNext == TypeOK /\ VoiceInv /\ [Next]_vars => VoiceInv'
<1> SUFFICES ASSUME TypeOK, VoiceInv, [Next]_vars PROVE VoiceInv'
  OBVIOUS
<1>1. DeviceTypeOK /\ ChannelTypeOK
  BY DEF TypeOK
<1>2. ASSUME UNCHANGED <<waiting, resets, call, evq, VReady>> PROVE VoiceInv'
  BY <1>2 DEF VoiceInv
<1>3. CASE \/ UNCHANGED vars \/ NoEvent \/ NothingReceived \/ NotInterrupted
           \/ ScpProcess \/ ScpSilent
  BY <1>2, <1>3 DEF vars, serverVars, deviceVars, channelVars, NoEvent, NothingReceived,
                    NotInterrupted, ScpProcess, ScpSilent
<1>4. ASSUME NEW c \in Channels, ProcessEvent(c) PROVE VoiceInv'
  BY <1>1, <1>4, HandlerVoice, ServerVoice
     DEF ProcessEvent, OnChannelEvent, OnOffered, NewCall, OnAnswered, OnPlay, channelVars
<1>5. CASE Answer \/ PlayFragment \/ PlayFragmentFails \/ DropCall \/ UnknownCommand
  BY <1>5, ServerVoice
     DEF Answer, PlayFragment, PlayFragmentFails, DropCall, UnknownCommand, Received, Command
<1>6. CASE checkAppExitCondition \/ Signal
  BY <1>1, <1>6, EndingVoice DEF checkAppExitCondition, Signal
<1>7. ASSUME NEW c \in Channels, Library(c) \/ Network(c), Outside PROVE VoiceInv'
  BY <1>1, <1>7, EnvironmentVoice DEF Outside, serverVars, channelVars
<1>8. QED
  BY <1>3, <1>4, <1>5, <1>6, <1>7 DEF Next, MainLoop

\* No line waits for a call, or carries one, whose voice resource was never found:
\* on any number of channels, however often lines are blocked and reset.
THEOREM VoiceBeforeCalls == Spec => []NoCallWithoutVoice
<1>1. Init => VoiceInv
  BY VoiceInit DEF Init
<1>2. QED
  BY <1>1, VoiceNext, VoiceImplies, TypeCorrect, PTL DEF Spec

-----------------------------------------------------------------------------
(* The order of a call's events. *)

\* Every step keeps the order on every channel, and no state of a call goes back.
LEMMA OrderNext ==
    ASSUME TypeOK, OrderInv, [Next]_vars
    PROVE  OrderInv' /\ \A d \in Channels : Forward(Calls[d], Calls'[d])
<1> SUFFICES ASSUME NEW d \in Channels PROVE Kept(d)
  BY DEF OrderInv, Kept
<1>1. /\ DeviceTypeOK /\ ChannelTypeOK
      /\ call \in [Channels -> [Crn -> CallState]] /\ Calls \in [Channels -> [Slot -> CallInfo]]
  BY DEF TypeOK, DeviceTypeOK, ChannelTypeOK
<1>2. ASSUME UNCHANGED <<call, evq, Calls>> PROVE Kept(d)
  BY <1>1, <1>2, KeptElsewhere
<1>3. CASE \/ UNCHANGED vars \/ NoEvent \/ NothingReceived \/ NotInterrupted
           \/ ScpProcess \/ ScpSilent
  BY <1>2, <1>3 DEF vars, serverVars, deviceVars, channelVars, NoEvent, NothingReceived,
                    NotInterrupted, ScpProcess, ScpSilent
<1>4. ASSUME NEW c \in Channels, ProcessEvent(c) PROVE Kept(d)
  <2>1. CASE OnChannelEvent(c)
    BY <1>1, <2>1, HandlerKept DEF OnChannelEvent
  <2>2. CASE OnOffered(c)
    BY <1>1, <2>2, NewCallKept DEF OnOffered
  <2>3. CASE OnPlay(c)
    BY <1>1, <2>3, KeptMoved DEF OnPlay, channelVars
  <2>4. CASE OnAnswered(c)
    <3>1. /\ TakeEvent(c, "ANSWERED")
          /\ Calls' = [Calls EXCEPT ![c] = WithSState(@, Head(evq[c]).crn, "CONNECTED")]
          /\ \/ call' = call
             \/ call' = [call EXCEPT ![c] = gc_DropCall(@, Head(evq[c]).crn)]
      BY <2>4 DEF OnAnswered
    <3>2. call'[c] = call[c] \/ call'[c] = gc_DropCall(call[c], Head(evq[c]).crn)
      BY <1>1, <3>1
    <3>3. Rank["CONNECTED"] = RankOf("ANSWERED") /\ "CONNECTED" \in SStateSet /\ "ANSWERED" \in Ranked
      BY DEF Rank, RankOf, SStateSet, Ranked
    <3>4. Kept(c)
      BY <1>1, <3>1, <3>2, <3>3, KeptState
    <3>5. d # c => call'[d] = call[d] /\ evq'[d] = evq[d] /\ Calls'[d] = Calls[d]
      BY <1>1, <3>1, KeptTake
    <3>6. QED
      BY <1>1, <3>4, <3>5, KeptElsewhere
  <2>5. QED
    BY <1>4, <2>1, <2>2, <2>3, <2>4 DEF ProcessEvent
<1>5. CASE Answer \/ PlayFragment \/ PlayFragmentFails \/ DropCall \/ UnknownCommand
  <2>1. evq' = evq /\ Calls' = Calls
    BY <1>5 DEF Answer, PlayFragment, PlayFragmentFails, DropCall, UnknownCommand, Received,
                deviceVars
  <2>2. \E n : \/ call'[d] = call[d]
               \/ call'[d] = gc_AcceptCall(call[d], n)
               \/ call'[d] = gc_AnswerCall(call[d], n)
               \/ call'[d] = gc_DropCall(call[d], n)
    BY <1>1, <1>5 DEF Answer, PlayFragment, PlayFragmentFails, DropCall, InitDisconnect,
                      UnknownCommand, deviceVars
  <2>3. QED
    BY <1>1, <2>1, <2>2, KeptRequest
<1>6. CASE checkAppExitCondition \/ Signal
  BY <1>1, <1>6, EndingKept DEF checkAppExitCondition, Signal
<1>7. ASSUME NEW c \in Channels, Library(c) \/ Network(c), Outside PROVE Kept(d)
  BY <1>1, <1>7, EnvironmentKept DEF Outside, serverVars, channelVars
<1>8. QED
  BY <1>3, <1>4, <1>5, <1>6, <1>7 DEF Next, MainLoop

\* "got event at unexpected SState" (callserver.cpp:1031) is never logged for a
\* release: whatever overlaps, fails or is hung up, a call that is released was IDLE.
THEOREM ReleaseFollows == Spec => []ReleaseFollowsDrop
<1>1. Init => OrderInv
  BY OrderInit DEF Init
<1>2. TypeOK /\ OrderInv /\ [Next]_vars => OrderInv'
  BY OrderNext
<1>3. TypeOK /\ OrderInv => ReleaseFollowsDrop
  BY OrderImplies DEF TypeOK
<1>4. QED
  BY <1>1, <1>2, <1>3, TypeCorrect, PTL DEF Spec

\* As long as a call is registered its state only moves towards IDLE, whichever slot
\* it is pushed to and whatever is late.
THEOREM NeverRegress == Spec => CallsNeverRegress
<1>1. Init => OrderInv
  BY OrderInit DEF Init
<1>2. TypeOK /\ OrderInv /\ [Next]_vars => OrderInv'
  BY OrderNext
<1>3. TypeOK /\ OrderInv /\ [Next]_vars =>
          [\A c \in Channels, i, j \in Slot :
              (Calls[c][i].crn # NoCrn /\ Calls'[c][j].crn = Calls[c][i].crn) =>
                  Rank[Calls'[c][j].SState] >= Rank[Calls[c][i].SState]]_<<deviceVars, channelVars>>
  BY OrderNext DEF Forward
<1>4. QED
  BY <1>1, <1>2, <1>3, TypeCorrect, PTL DEF Spec, CallsNeverRegress

-----------------------------------------------------------------------------
(* The count of the calls in progress. *)

\* Every step counts a call when it is offered to the program, and uncounts it when
\* its release is announced.
LEMMA CountNext ==
    ASSUME TypeOK, TypeOK', OrderInv, CountInv, [Next]_vars
    PROVE  CountInv'
<1>1. DeviceTypeOK /\ ChannelTypeOK /\ DeviceTypeOK' /\ call \in [Channels -> [Crn -> CallState]]
  BY DEF TypeOK, DeviceTypeOK
<1>2. ASSUME UNCHANGED <<call, evq, stUsed, interrupted>>,
             spent' = spent \/ \E b \in Budget : Spend(b)
      PROVE  CountInv'
  <2>1. Later
    BY <1>1, <1>2, SpendLater
  <2>2. \A d \in Channels : Steady(d)
    BY <1>1, <1>2, <2>1, SteadyMove DEF CountInv
  <2>3. QED
    BY <1>1, <1>2, <2>1, <2>2, CountSteady
<1>3. CASE \/ UNCHANGED vars \/ NoEvent \/ NothingReceived \/ NotInterrupted
           \/ ScpProcess \/ ScpSilent
  BY <1>2, <1>3 DEF vars, serverVars, deviceVars, channelVars, statVars, NoEvent, NothingReceived,
                    NotInterrupted, ScpProcess, ScpSilent, Budget
<1>4. ASSUME NEW c \in Channels, ProcessEvent(c) PROVE CountInv'
  <2>1. CASE OnChannelEvent(c)
    BY <1>1, <2>1, HandlerCount DEF OnChannelEvent
  <2>2. CASE OnOffered(c)
    BY <1>1, <2>2, NewCallCount DEF OnOffered
  <2>3. CASE OnPlay(c) \/ OnAnswered(c)
    <3>1. PICK type : TakeEvent(c, type) /\ type \notin {"OFFERED", "RELEASECALL"}
      BY <2>3 DEF OnPlay, OnAnswered
    <3>2. stUsed' = stUsed /\ spent' = spent /\ interrupted' = interrupted
      BY <2>3 DEF OnPlay, OnAnswered, channelVars, statVars
    <3>3. call' = call \/ call' = [call EXCEPT ![c] = gc_DropCall(@, Head(evq[c]).crn)]
      BY <2>3 DEF OnPlay, OnAnswered
    <3>4. Later
      BY <1>1, <3>2, SpendLater
    <3>5. \A d \in Channels : Steady(d)
      BY <1>1, <3>1, <3>3, <3>4, MoveSteady
    <3>6. QED
      BY <1>1, <3>2, <3>4, <3>5, CountSteady
  <2>4. QED
    BY <1>4, <2>1, <2>2, <2>3 DEF ProcessEvent
<1>5. CASE Answer \/ PlayFragment \/ PlayFragmentFails \/ DropCall \/ UnknownCommand
  <2>1. evq' = evq /\ stUsed' = stUsed /\ interrupted' = interrupted
    BY <1>5 DEF Answer, PlayFragment, PlayFragmentFails, DropCall, UnknownCommand, Received,
                deviceVars, statVars
  <2>2. spent' = spent \/ \E b \in Budget : Spend(b)
    BY <1>5 DEF Answer, PlayFragment, PlayFragmentFails, DropCall, UnknownCommand, deviceVars,
                Budget
  <2>3. Later
    BY <1>1, <2>1, <2>2, SpendLater
  <2>4. ASSUME NEW d \in Channels PROVE Steady(d)
    <3>1. PICK n : \/ call'[d] = call[d]
                   \/ call'[d] = gc_AcceptCall(call[d], n)
                   \/ call'[d] = gc_AnswerCall(call[d], n)
                   \/ call'[d] = gc_DropCall(call[d], n)
      BY <1>1, <1>5 DEF Answer, PlayFragment, PlayFragmentFails, DropCall, InitDisconnect,
                        UnknownCommand, deviceVars
    <3>2. evq'[d] = evq[d] /\ QueueInv
      BY <2>1 DEF CountInv
    <3>3. QED
      BY <1>1, <2>3, <3>1, <3>2, SteadyMove
  <2>5. QED
    BY <1>1, <2>1, <2>3, <2>4, CountSteady
<1>6. CASE checkAppExitCondition \/ Signal
  BY <1>1, <1>6, EndingCount DEF checkAppExitCondition, Signal
<1>7. ASSUME NEW c \in Channels, Library(c) \/ Network(c), Outside PROVE CountInv'
  <2>1. stUsed' = stUsed /\ interrupted' = interrupted
    BY <1>7 DEF Outside, serverVars, channelVars, statVars
  <2>2. Later /\ \A d \in Channels : Steady(d)
    BY <1>1, <1>7, <2>1, EnvironmentSteady
  <2>3. QED
    BY <1>1, <2>1, <2>2, CountSteady
<1>8. QED
  BY <1>3, <1>4, <1>5, <1>6, <1>7 DEF Next, MainLoop

\* stUsed never misses a call that is in progress, and is exact until a fault makes a
\* reset forget calls or lines are being closed: no call is counted twice, and none
\* uncounted that was not counted.
THEOREM UsedCountsCalls == Spec => []StUsedCounts
<1>1. Init => OrderInv /\ CountInv
  BY OrderInit, CountInit DEF Init
<1>2. TypeOK /\ TypeOK' /\ OrderInv /\ CountInv /\ [Next]_vars => OrderInv' /\ CountInv'
  BY OrderNext, CountNext
<1>3. QED
  BY <1>1, <1>2, CountImplies, TypeCorrect, PTL DEF Spec

-----------------------------------------------------------------------------
(* Every event finds its call. *)

\* Every step keeps every call found: what is dropped is the call in slot 0.
LEMMA FoundNext ==
    ASSUME TypeOK, OrderInv, OrderInv', QueueInv, FoundInv, [Next]_vars
    PROVE  FoundInv'
<1> SUFFICES ASSUME NEW d \in Channels PROVE Trace(d)
  BY DEF FoundInv, Trace
<1>1. DeviceTypeOK /\ ChannelTypeOK /\ call \in [Channels -> [Crn -> CallState]]
  BY DEF TypeOK, DeviceTypeOK
<1>2. CASE \/ UNCHANGED vars \/ NoEvent \/ NothingReceived \/ NotInterrupted
           \/ ScpProcess \/ ScpSilent
  BY <1>1, <1>2, TraceElsewhere
     DEF vars, serverVars, deviceVars, channelVars, NoEvent, NothingReceived, NotInterrupted,
         ScpProcess, ScpSilent
<1>3. ASSUME NEW c \in Channels, ProcessEvent(c) PROVE Trace(d)
  <2>1. CASE OnChannelEvent(c)
    BY <1>1, <2>1, HandlerTrace DEF OnChannelEvent
  <2>2. CASE OnOffered(c)
    BY <1>1, <2>2, NewCallTrace DEF OnOffered
  <2>3. CASE OnPlay(c)
    <3>1. /\ TakeEvent(c, "TDX_PLAY") /\ call' = call /\ UNCHANGED resets /\ UNCHANGED Calls
      BY <2>3 DEF OnPlay, channelVars
    <3>2. QED
      BY <1>1, <3>1, HandledTrace
  <2>4. CASE OnAnswered(c)
    <3> DEFINE n == Head(evq[c]).crn
    <3>1. /\ TakeEvent(c, "ANSWERED") /\ UNCHANGED resets
          /\ \E state : Calls' = [Calls EXCEPT ![c] = WithSState(@, n, state)]
          /\ call' = call \/ call' = [call EXCEPT ![c] = gc_DropCall(@, n)]
      BY <2>4 DEF OnAnswered
    <3>2. Calls[c][0].crn = n
      <4>1. evq[c] # <<>> /\ Head(evq[c]).type = "ANSWERED"
        BY <3>1 DEF TakeEvent
      <4>2. QED
        BY <1>1, <4>1, HeadFound DEF UndroppedEvent
    <3>3. /\ TakeEvent(c, "ANSWERED") /\ "ANSWERED" \notin {"OFFERED", "RELEASECALL"}
          /\ \E m, state : Calls' = [Calls EXCEPT ![c] = WithSState(@, m, state)]
          /\ \/ call' = call
             \/ call' = [call EXCEPT ![c] = gc_DropCall(@, n)] /\ Calls[c][0].crn = n
      BY <3>1, <3>2
    <3> HIDE DEF n
    <3>4. QED
      BY <1>1, <3>1, <3>3, HandledTrace
  <2>5. QED
    BY <1>3, <2>1, <2>2, <2>3, <2>4 DEF ProcessEvent
<1>4. CASE Answer \/ PlayFragment \/ PlayFragmentFails \/ DropCall \/ UnknownCommand
  <2>1. evq' = evq /\ Calls' = Calls /\ resets' = resets
    BY <1>4 DEF Answer, PlayFragment, PlayFragmentFails, DropCall, UnknownCommand, Received,
                deviceVars
  <2>2. \/ call'[d] = call[d]
        \/ call'[d] = gc_AcceptCall(call[d], Calls[d][0].crn)
        \/ call'[d] = gc_AnswerCall(call[d], Calls[d][0].crn)
        \/ call'[d] = gc_DropCall(call[d], Calls[d][0].crn)
    BY <1>1, <1>4 DEF Answer, PlayFragment, PlayFragmentFails, DropCall, InitDisconnect,
                      UnknownCommand, deviceVars
  <2>3. Served(call[d], call'[d], Calls[d])
    BY <1>1, <2>2, RequestsServe
  <2>4. QED
    BY <1>1, <2>1, <2>3, TraceServed
<1>5. CASE checkAppExitCondition \/ Signal
  BY <1>1, <1>5, EndingTrace DEF checkAppExitCondition, Signal
<1>6. ASSUME NEW c \in Channels, Library(c) \/ Network(c), Outside PROVE Trace(d)
  BY <1>1, <1>6, EnvironmentTrace DEF Outside, serverVars, channelVars
<1>7. QED
  BY <1>2, <1>3, <1>4, <1>5, <1>6 DEF Next, MainLoop

\* callserver.cpp:955, "Should not be such case", is right: whatever overlaps, fails, is
\* hung up or dropped late, every event of a call but its offer and its release finds
\* the call in one of the two slots.
THEOREM CallsAreFound == Spec => []CallIsFound
<1>1. Init => OrderInv /\ CountInv /\ FoundInv
  BY OrderInit, CountInit, FoundInit DEF Init
<1>2. TypeOK /\ TypeOK' /\ OrderInv /\ CountInv /\ FoundInv /\ [Next]_vars =>
          OrderInv' /\ CountInv' /\ FoundInv'
  BY OrderNext, CountNext, FoundNext DEF CountInv
<1>3. TypeOK /\ FoundInv => CallIsFound
  BY FoundImplies DEF TypeOK
<1>4. QED
  BY <1>1, <1>2, <1>3, TypeCorrect, PTL DEF Spec

=============================================================================
