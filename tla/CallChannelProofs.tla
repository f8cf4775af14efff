--------------------------- MODULE CallChannelProofs ---------------------------
(***************************************************************************)
(* What holds of the bookkeeping callserver and callflow share, for any    *)
(* number of channels and calls and any bounds on the outside: its types,  *)
(* and what every handler, the library and the network preserve of         *)
(*   - the voice resource of a line that carries calls (VoiceInv),         *)
(*   - the order of a call's events (OrderInv),                            *)
(*   - the count of the calls in progress (CountInv),                      *)
(*   - the slots in which events find their calls (FoundInv),              *)
(*   - the answers of calls (AnswersOnce).                                 *)
(* The theorems of both programs rest on these lemmas.                     *)
(***************************************************************************)
EXTENDS CallChannel, FiniteSetTheorems, TLAPS

USE DeviceAssumption

-----------------------------------------------------------------------------
(* Types of the operators the actions are built from. *)

\* Adding an event keeps the type of the queues.
LEMMA RaiseType ==
    ASSUME DeviceTypeOK,
           NEW c \in Channels, NEW type \in LineEvent \cup CallEvent,
           NEW n \in Crn \cup {NoCrn}, Raise(c, type, n)
    PROVE  evq' \in [Channels -> Seq(Event)]
<1>1. [type |-> type, crn |-> n] \in Event
  BY DEF Event
<1>2. Append(evq[c], [type |-> type, crn |-> n]) \in Seq(Event)
  BY <1>1 DEF DeviceTypeOK
<1>3. QED
  BY <1>2 DEF DeviceTypeOK, Raise

\* Taking an event keeps the type of the queues, and the event is one.
LEMMA TakeType ==
    ASSUME DeviceTypeOK, NEW c \in Channels, NEW type, TakeEvent(c, type)
    PROVE  /\ evq' \in [Channels -> Seq(Event)]
           /\ Head(evq[c]) \in Event
           /\ Head(evq[c]).crn \in Crn \cup {NoCrn}
<1>1. evq[c] \in Seq(Event) /\ evq[c] # <<>>
  BY DEF DeviceTypeOK, TakeEvent
<1>2. Head(evq[c]) \in Event /\ Tail(evq[c]) \in Seq(Event)
  BY <1>1
<1>3. QED
  BY <1>2 DEF DeviceTypeOK, TakeEvent, Event

\* Spending keeps within the naturals.
LEMMA SpendType ==
    ASSUME DeviceTypeOK, NEW b \in Budget, Spend(b)
    PROVE  spent' \in [Budget -> Nat]
BY DEF Spend, DeviceTypeOK

\* The library functions keep the type of the calls of a line.
LEMMA RequestType ==
    ASSUME NEW calls \in [Crn -> CallState], NEW n
    PROVE  /\ gc_CallAck(calls, n) \in [Crn -> CallState]
           /\ gc_AcceptCall(calls, n) \in [Crn -> CallState]
           /\ gc_AnswerCall(calls, n) \in [Crn -> CallState]
           /\ gc_DropCall(calls, n) \in [Crn -> CallState]
           /\ gc_ReleaseCallEx(calls, n) \in [Crn -> CallState]
           /\ Cleared(calls) \in [Crn -> CallState]
BY DEF gc_CallAck, gc_AcceptCall, gc_AnswerCall, gc_DropCall, gc_ReleaseCallEx, Request,
       Cleared, CallState, Live, Droppable, Talking

\* The operators on the slots of a channel keep their type.
LEMMA SlotsType ==
    ASSUME NEW calls \in [Slot -> CallInfo], NEW n \in Crn \cup {NoCrn},
           NEW state \in SStateSet
    PROVE  /\ RegNewCall(calls, n, state) \in [Slot -> CallInfo]
           /\ WithSState(calls, n, state) \in [Slot -> CallInfo]
           /\ Emptied(calls, n) \in [Slot -> CallInfo]
           /\ [i \in Slot |-> NoCall] \in [Slot -> CallInfo]
<1>1. NoCall \in CallInfo /\ [crn |-> n, SState |-> state] \in CallInfo
  BY DEF NoCall, CallInfo, SStateSet
<1>2. RegNewCall(calls, n, state) \in [Slot -> CallInfo]
  BY <1>1 DEF RegNewCall, Slot, MAX_CALLS
<1>3. \A i \in Slot : [calls[i] EXCEPT !.SState = state] \in CallInfo
  BY DEF CallInfo
<1>4. WithSState(calls, n, state) \in [Slot -> CallInfo]
  BY <1>3 DEF WithSState
<1>5. QED
  BY <1>1, <1>2, <1>4 DEF Emptied

\* What a step leaves alone keeps its type.
LEMMA ChannelTypeUnchanged ==
    /\ DeviceTypeOK /\ UNCHANGED deviceVars => DeviceTypeOK'
    /\ ChannelTypeOK /\ UNCHANGED channelVars => ChannelTypeOK'
BY DEF DeviceTypeOK, deviceVars, ChannelTypeOK, channelVars, statVars

-----------------------------------------------------------------------------
(* Initial states, and the library and the network. *)

\* After InitChannels.
LEMMA ChannelTypeInit == DeviceInit /\ ChannelInit => DeviceTypeOK /\ ChannelTypeOK
<1>1. DeviceInit => DeviceTypeOK
  BY DEF DeviceInit, DeviceTypeOK, LineState, CallState, Live, Droppable, Talking, Event,
         Budget
<1>2. NoCall \in CallInfo
  BY DEF NoCall, CallInfo, SStateSet
<1>3. ASSUME ChannelInit PROVE ChannelTypeOK
  <2>1. stUnblocked \in Nat /\ stUsed \in Int
    BY <1>3 DEF ChannelInit
  <2>2. interrupted \in BOOLEAN
    BY <1>3 DEF ChannelInit
  <2>3. QED
    BY <1>2, <1>3, <2>1, <2>2 DEF ChannelInit, ChannelTypeOK, PStateSet
<1>4. QED
  BY <1>1, <1>3

\* The environment keeps the types.
LEMMA EnvironmentType ==
    ASSUME DeviceTypeOK, NEW c \in Channels, Library(c) \/ Network(c)
    PROVE  DeviceTypeOK'
<1> USE DEF LineState, NoCrn
<1>4. CASE OpenDone(c)
  BY <1>4, RaiseType DEF OpenDone, DeviceTypeOK, LineEvent
<1>5. CASE Unblock(c)
  BY <1>5, RaiseType DEF Unblock, DeviceTypeOK, LineEvent
<1>6. CASE ResetDone(c)
  BY <1>6, RaiseType DEF ResetDone, DeviceTypeOK, LineEvent
<1>7. CASE PlayDone(c)
  BY <1>7, RaiseType DEF PlayDone, DeviceTypeOK, LineEvent
<1>8. ASSUME NEW n \in Crn, Complete(c, n) PROVE DeviceTypeOK'
  <2>1. /\ Completion[call[c][n]].state \in CallState
        /\ Completion[call[c][n]].event \in CallEvent
    BY <1>8 DEF Complete, Completion, Pending, CallState, Live, Droppable, Talking,
                CallEvent
  <2>2. evq' \in [Channels -> Seq(Event)]
    BY <1>8, <2>1, RaiseType DEF Complete
  <2>3. QED
    BY <1>8, <2>1, <2>2 DEF Complete, DeviceTypeOK
<1>9. ASSUME Spend("fault") \/ Spend("hangup") PROVE spent' \in [Budget -> Nat]
  BY <1>9, SpendType DEF Budget
<1>10. CASE OpenFails(c)
  BY <1>9, <1>10, RaiseType DEF OpenFails, DeviceTypeOK, LineEvent
<1>11. CASE Block(c)
  BY <1>9, <1>11, RaiseType DEF Block, DeviceTypeOK, LineEvent
<1>12. ASSUME NEW n \in Crn, Offer(c, n) PROVE DeviceTypeOK'
  BY <1>12, RaiseType DEF Offer, DeviceTypeOK, CallEvent, CallState, Live, Droppable,
                          Talking
<1>13. ASSUME NEW n \in Crn, HangUp(c, n) PROVE DeviceTypeOK'
  BY <1>9, <1>13, RaiseType DEF HangUp, DeviceTypeOK, CallEvent, CallState, Live,
                                Droppable
<1>14. ASSUME NEW n \in Crn, TaskFails(c, n) PROVE DeviceTypeOK'
  BY <1>9, <1>14, RaiseType DEF TaskFails, DeviceTypeOK, LineEvent, CallState, Live,
                                Droppable
<1>15. QED
  BY <1>4, <1>5, <1>6, <1>7, <1>8, <1>10, <1>11, <1>12, <1>13, <1>14
     DEF Library, Network

-----------------------------------------------------------------------------
(* The handlers of events. *)

\* The parts of the types that a handler of an event of channel c changes.
LEMMA HandlerType ==
    ASSUME DeviceTypeOK, ChannelTypeOK, NEW c \in Channels
    PROVE  /\ \A calls \in [Slot -> CallInfo] : Calls' = [Calls EXCEPT ![c] = calls] =>
                  Calls' \in [Channels -> [Slot -> CallInfo]]
           /\ \A calls \in [Crn -> CallState] : call' = [call EXCEPT ![c] = calls] =>
                  call' \in [Channels -> [Crn -> CallState]]
           /\ Calls[c] \in [Slot -> CallInfo]
           /\ call[c] \in [Crn -> CallState]
BY DEF DeviceTypeOK, ChannelTypeOK

\* GCEV_OPENEX, BLOCKED and UNBLOCKED.
LEMMA LineType ==
    ASSUME DeviceTypeOK, ChannelTypeOK, NEW c \in Channels, OnLine(c)
    PROVE  DeviceTypeOK' /\ ChannelTypeOK'
<1>1. ASSUME NEW type, TakeEvent(c, type) PROVE evq' \in [Channels -> Seq(Event)]
  BY <1>1, TakeType
<1>2. CASE OnLogged(c)
  BY <1>1, <1>2 DEF OnLogged, DeviceTypeOK, ChannelTypeOK, channelVars, statVars
<1>3. CASE OnUnblocked(c)
  <2>1. DeviceTypeOK'
    BY <1>1, <1>3 DEF OnUnblocked, DeviceTypeOK
  <2>2. stUnblocked' \in Nat
    BY <1>3 DEF OnUnblocked, ChannelTypeOK
  <2>3. QED
    BY <1>3, <2>1, <2>2 DEF OnUnblocked, ChannelTypeOK
<1>4. CASE OnUnblockedNoVoice(c)
  <2>1. spent' \in [Budget -> Nat]
    BY <1>4, SpendType DEF OnUnblockedNoVoice, Budget
  <2>2. (waiting[c] \/ VReady[c]) \in BOOLEAN
    OBVIOUS
  <2>3. waiting' \in [Channels -> BOOLEAN]
    BY <1>4, <2>2 DEF OnUnblockedNoVoice, DeviceTypeOK
  <2>4. DeviceTypeOK'
    BY <1>1, <1>4, <2>1, <2>3 DEF OnUnblockedNoVoice, DeviceTypeOK
  <2>5. QED
    BY <1>4, <2>4, ChannelTypeUnchanged DEF OnUnblockedNoVoice
<1>5. QED
  BY <1>2, <1>3, <1>4 DEF OnLine

\* A new call; what the program then asks of it is the program's own.
LEMMA NewCallType ==
    ASSUME DeviceTypeOK, ChannelTypeOK, NEW c \in Channels, NewCall(c),
           call' \in [Channels -> [Crn -> CallState]],
           PState' \in [Channels -> PStateSet]
    PROVE  DeviceTypeOK' /\ ChannelTypeOK'
<1>1. evq' \in [Channels -> Seq(Event)] /\ Head(evq[c]).crn \in Crn \cup {NoCrn}
  BY TakeType DEF NewCall
<1>2. RegNewCall(Calls[c], Head(evq[c]).crn, "OFFERED") \in [Slot -> CallInfo]
  BY <1>1, SlotsType, HandlerType DEF SStateSet
<1>3. Calls' \in [Channels -> [Slot -> CallInfo]]
  BY <1>2, HandlerType DEF NewCall
<1>4. stUsed' \in Int
  BY DEF NewCall, ChannelTypeOK
<1>5. QED
  BY <1>1, <1>3, <1>4 DEF NewCall, DeviceTypeOK, ChannelTypeOK

\* The events of a call, but OFFERED and ANSWERED.
LEMMA CallType ==
    ASSUME DeviceTypeOK, ChannelTypeOK, NEW c \in Channels, OnCall(c)
    PROVE  DeviceTypeOK' /\ ChannelTypeOK'
<1> DEFINE n == Head(evq[c]).crn
<1>1. evq' \in [Channels -> Seq(Event)] /\ n \in Crn \cup {NoCrn}
  BY TakeType DEF OnCall, OnAccept, OnDisconnected, OnDropCall, OnReleaseCall
<1>2. /\ \A state \in SStateSet : WithSState(Calls[c], n, state) \in [Slot -> CallInfo]
      /\ Emptied(Calls[c], n) \in [Slot -> CallInfo]
  BY <1>1, SlotsType, HandlerType DEF SStateSet
<1>3. /\ gc_AnswerCall(call[c], n) \in [Crn -> CallState]
      /\ gc_DropCall(call[c], n) \in [Crn -> CallState]
      /\ gc_ReleaseCallEx(call[c], n) \in [Crn -> CallState]
  BY RequestType, HandlerType
<1> HIDE DEF n
<1>4. Calls' \in [Channels -> [Slot -> CallInfo]]
  BY <1>2, HandlerType DEF OnCall, OnAccept, OnDisconnected, OnDropCall, OnReleaseCall,
                           SStateSet, n
<1>5. call' \in [Channels -> [Crn -> CallState]]
  BY <1>3, HandlerType DEF OnCall, OnAccept, OnDisconnected, OnDropCall, OnReleaseCall, n,
                           DeviceTypeOK
<1>6. voice' \in [Channels -> {"idle", "play", "stopping"}]
  BY DEF OnCall, OnAccept, OnDisconnected, OnDropCall, OnReleaseCall, DeviceTypeOK,
         dx_stopch
<1>7. PState' \in [Channels -> PStateSet]
  BY DEF OnCall, OnAccept, OnDisconnected, OnDropCall, OnReleaseCall, ChannelTypeOK,
         PStateSet
<1>8. stUsed' \in Int /\ UNCHANGED <<stUnblocked, VReady, interrupted>>
  BY DEF OnCall, OnAccept, OnDisconnected, OnDropCall, OnReleaseCall, ChannelTypeOK,
         statVars
<1>9. UNCHANGED <<line, waiting, resets, spent>>
  BY DEF OnCall, OnAccept, OnDisconnected, OnDropCall, OnReleaseCall
<1>10. QED
  BY <1>1, <1>4, <1>5, <1>6, <1>7, <1>8, <1>9 DEF DeviceTypeOK, ChannelTypeOK

\* TASKFAIL and RESETLINEDEV.
LEMMA FailureType ==
    ASSUME DeviceTypeOK, ChannelTypeOK, NEW c \in Channels, OnFailure(c)
    PROVE  DeviceTypeOK' /\ ChannelTypeOK'
<1>1. evq' \in [Channels -> Seq(Event)]
  BY TakeType DEF OnFailure, OnResetLineDev, OnTaskFail
<1>2. CASE OnResetLineDev(c)
  <2>1. NoCall \in CallInfo
    BY DEF NoCall, CallInfo, SStateSet
  <2>2. QED
    BY <1>1, <1>2, <2>1 DEF OnResetLineDev, DeviceTypeOK, ChannelTypeOK, statVars
<1>3. CASE OnTaskFail(c)
  <2>1. Cleared(call[c]) \in [Crn -> CallState]
    BY RequestType, HandlerType
  <2>2. call' \in [Channels -> [Crn -> CallState]]
    BY <1>3, <2>1, HandlerType DEF OnTaskFail
  <2>3. resets' \in [Channels -> Nat] /\ waiting' \in [Channels -> BOOLEAN]
    BY <1>3 DEF OnTaskFail, DeviceTypeOK
  <2>4. DeviceTypeOK'
    BY <1>1, <1>3, <2>2, <2>3 DEF OnTaskFail, DeviceTypeOK
  <2>5. QED
    BY <1>3, <2>4, ChannelTypeUnchanged DEF OnTaskFail
<1>4. QED
  BY <1>2, <1>3 DEF OnFailure

-----------------------------------------------------------------------------
(* Dropping, the signal handler and the closing of lines. *)

\* InitDisconnect, whatever slot 0 holds.
LEMMA DisconnectType ==
    ASSUME DeviceTypeOK, ChannelTypeOK, NEW c \in Channels, InitDisconnect(c)
    PROVE  /\ call' \in [Channels -> [Crn -> CallState]]
           /\ PState' \in [Channels -> PStateSet]
<1>1. gc_DropCall(call[c], Calls[c][0].crn) \in [Crn -> CallState]
  BY RequestType, HandlerType
<1>2. QED
  BY <1>1, HandlerType DEF InitDisconnect, ChannelTypeOK, PStateSet

\* The signal handler.
LEMMA SignalType ==
    ASSUME DeviceTypeOK, ChannelTypeOK, intr_hdlr
    PROVE  DeviceTypeOK' /\ ChannelTypeOK'
<1>1. \A c \in Channels : call[c] \in [Crn -> CallState]
  BY DEF DeviceTypeOK
<1>2. \A c \in Channels : gc_DropCall(call[c], Calls[c][0].crn) \in [Crn -> CallState]
  BY <1>1, RequestType
<1>3. call' \in [Channels -> [Crn -> CallState]]
  BY <1>1, <1>2 DEF intr_hdlr
<1>4. voice' \in [Channels -> {"idle", "play", "stopping"}]
  BY DEF intr_hdlr, dx_stopch, DeviceTypeOK
<1>5. spent' \in [Budget -> Nat]
  BY SpendType DEF intr_hdlr, Budget
<1>6. DeviceTypeOK'
  BY <1>3, <1>4, <1>5 DEF intr_hdlr, DeviceTypeOK
<1>7. QED
  BY <1>6 DEF intr_hdlr, ChannelTypeOK, PStateSet, statVars

\* The closing of idle lines.
LEMMA CloseType ==
    ASSUME DeviceTypeOK, ChannelTypeOK, CloseIdleLines
    PROVE  DeviceTypeOK' /\ ChannelTypeOK'
<1>1. \A c \in Channels : call[c] \in [Crn -> CallState]
  BY DEF DeviceTypeOK
<1>2. \A c \in Channels : Cleared(call[c]) \in [Crn -> CallState]
  BY <1>1, RequestType
<1>3. call' \in [Channels -> [Crn -> CallState]]
  BY <1>1, <1>2 DEF CloseIdleLines
<1>4. <<>> \in Seq(Event)
  OBVIOUS
<1>5. evq' \in [Channels -> Seq(Event)]
  BY <1>4 DEF CloseIdleLines, DeviceTypeOK
<1>6. waiting' \in [Channels -> BOOLEAN]
  BY DEF CloseIdleLines, DeviceTypeOK
<1>7. /\ line' \in [Channels -> LineState]
      /\ voice' \in [Channels -> {"idle", "play", "stopping"}]
      /\ resets' \in [Channels -> Nat]
      /\ spent' \in [Budget -> Nat]
  BY DEF CloseIdleLines, DeviceTypeOK, LineState
<1>8. DeviceTypeOK'
  BY <1>3, <1>5, <1>6, <1>7 DEF DeviceTypeOK
<1>9. QED
  BY <1>8 DEF CloseIdleLines, ChannelTypeOK, PStateSet, statVars

-----------------------------------------------------------------------------
(* No call without a voice resource. *)

\* No call of the line is alive.
NoLive(calls) == \A n \in Crn : calls[n] \notin Live

\* No reset is announced, nor the failure that leads to one.
Harmless(q) == \A i \in 1..Len(q) : q[i].type \notin {"TASKFAIL", "RESETLINEDEV"}

\* NoCallWithoutVoice made inductive: a channel whose voice resource was never found
\* does not wait, has no call, and nothing that would make it wait is due.
VoiceInv ==
    \A c \in Channels :
        ~VReady[c] => ~waiting[c] /\ resets[c] = 0 /\ NoLive(call[c]) /\ Harmless(evq[c])

\* It says what T_CHAN_INFO says of VReady.
LEMMA VoiceImplies == VoiceInv => NoCallWithoutVoice
BY DEF VoiceInv, NoCallWithoutVoice, NoLive

\* InitChannels.
LEMMA VoiceInit == DeviceInit /\ ChannelInit => VoiceInv
BY DEF DeviceInit, ChannelInit, VoiceInv, NoLive, Harmless, Live, Droppable, Talking

\* No function of the library brings a call to life.
LEMMA RequestNoLive ==
    ASSUME NEW calls \in [Crn -> CallState], NoLive(calls), NEW n
    PROVE  /\ NoLive(gc_AcceptCall(calls, n)) /\ NoLive(gc_AnswerCall(calls, n))
           /\ NoLive(gc_DropCall(calls, n)) /\ NoLive(gc_ReleaseCallEx(calls, n))
           /\ NoLive(gc_CallAck(calls, n))
BY DEF NoLive, Request, gc_AcceptCall, gc_AnswerCall, gc_DropCall, gc_ReleaseCallEx,
       gc_CallAck, Unanswered, Live, Droppable, Talking

\* Resetting or closing a line ends its calls.
LEMMA ClearedNoLive == \A calls : NoLive(Cleared(calls))
BY DEF NoLive, Cleared, Live, Droppable, Talking

\* An event that is raised is the last one.
LEMMA RaiseHarmless ==
    ASSUME DeviceTypeOK, NEW c \in Channels, NEW type, NEW n, Raise(c, type, n),
           type \notin {"TASKFAIL", "RESETLINEDEV"}
    PROVE  \A d \in Channels : Harmless(evq[d]) => Harmless(evq'[d])
<1> SUFFICES ASSUME NEW d \in Channels, Harmless(evq[d]) PROVE Harmless(evq'[d])
  OBVIOUS
<1>1. CASE d # c
  BY <1>1 DEF Raise, DeviceTypeOK
<1>2. CASE d = c
  <2>1. evq'[c] = Append(evq[c], [type |-> type, crn |-> n]) /\ evq[c] \in Seq(Event)
    BY DEF Raise, DeviceTypeOK
  <2>2. QED
    BY <1>2, <2>1 DEF Harmless
<1>3. QED
  BY <1>1, <1>2

\* The event that is taken was queued, and so was what is left.
LEMMA TakeHarmless ==
    ASSUME DeviceTypeOK, NEW c \in Channels, NEW type, TakeEvent(c, type)
    PROVE  /\ \A d \in Channels : Harmless(evq[d]) => Harmless(evq'[d])
           /\ Harmless(evq[c]) => type \notin {"TASKFAIL", "RESETLINEDEV"}
<1>1. evq[c] \in Seq(Event) /\ evq[c] # <<>>
  BY DEF DeviceTypeOK, TakeEvent
<1>2. /\ Len(evq[c]) > 0 /\ Head(evq[c]) = evq[c][1]
      /\ Len(Tail(evq[c])) = Len(evq[c]) - 1
      /\ \A i \in 1..(Len(evq[c]) - 1) : Tail(evq[c])[i] = evq[c][i + 1]
  BY <1>1
<1>3. \A d \in Channels : evq'[d] = IF d = c THEN Tail(evq[c]) ELSE evq[d]
  BY DEF TakeEvent, DeviceTypeOK
<1>4. Harmless(evq[c]) => Harmless(Tail(evq[c]))
  BY <1>1, <1>2 DEF Harmless
<1>5. QED
  BY <1>1, <1>2, <1>3, <1>4 DEF Harmless, TakeEvent

\* What the library and the network do.
LEMMA EnvironmentVoice ==
    ASSUME DeviceTypeOK, VoiceInv, UNCHANGED VReady,
           NEW c \in Channels, Library(c) \/ Network(c)
    PROVE  VoiceInv'
<1> SUFFICES ASSUME NEW d \in Channels, ~VReady[d]
             PROVE  ~waiting'[d] /\ resets'[d] = 0 /\ NoLive(call'[d]) /\ Harmless(evq'[d])
  BY DEF VoiceInv
<1>1. ~waiting[d] /\ resets[d] = 0 /\ NoLive(call[d]) /\ Harmless(evq[d])
  BY DEF VoiceInv
<1>2. CASE OpenDone(c) \/ OpenFails(c) \/ Unblock(c) \/ Block(c) \/ PlayDone(c)
  BY <1>1, <1>2, RaiseHarmless DEF OpenDone, OpenFails, Unblock, Block, PlayDone
<1>3. CASE ResetDone(c)
  <2>1. c # d
    BY <1>1, <1>3 DEF ResetDone
  <2>2. QED
    BY <1>1, <1>3, <2>1 DEF ResetDone, Raise, DeviceTypeOK
<1>4. ASSUME NEW n \in Crn, \/ Complete(c, n) \/ Offer(c, n) \/ HangUp(c, n) \/ TaskFails(c, n)
      PROVE  ~waiting'[d] /\ resets'[d] = 0 /\ NoLive(call'[d]) /\ Harmless(evq'[d])
  <2>1. c # d
    BY <1>1, <1>4 DEF Complete, Offer, HangUp, TaskFails, NoLive, Live, Droppable, Pending,
                      Talking
  <2>2. call'[d] = call[d] /\ evq'[d] = evq[d]
    BY <1>4, <2>1 DEF Complete, Offer, HangUp, TaskFails, Raise, DeviceTypeOK
  <2>3. QED
    BY <1>1, <1>4, <2>2 DEF Complete, Offer, HangUp, TaskFails
<1>5. QED
  BY <1>2, <1>3, <1>4 DEF Library, Network

\* The handlers both programs share.
LEMMA HandlerVoice ==
    ASSUME DeviceTypeOK, ChannelTypeOK, VoiceInv, NEW c \in Channels,
           OnLine(c) \/ OnCall(c) \/ OnFailure(c)
    PROVE  VoiceInv'
<1> SUFFICES ASSUME NEW d \in Channels, ~VReady'[d]
             PROVE  ~waiting'[d] /\ resets'[d] = 0 /\ NoLive(call'[d]) /\ Harmless(evq'[d])
  BY DEF VoiceInv
<1>1. call[c] \in [Crn -> CallState] /\ call \in [Channels -> [Crn -> CallState]]
  BY DEF DeviceTypeOK
<1>2. ~VReady[d]
  BY DEF OnLine, OnCall, OnFailure, OnLogged, OnUnblocked, OnUnblockedNoVoice, OnAccept,
         OnDisconnected, OnDropCall, OnReleaseCall, OnResetLineDev, OnTaskFail, channelVars,
         ChannelTypeOK
<1>3. ~waiting[d] /\ resets[d] = 0 /\ NoLive(call[d]) /\ Harmless(evq[d])
  BY <1>2 DEF VoiceInv
<1>4. Harmless(evq'[d])
  BY <1>3, TakeHarmless
     DEF OnLine, OnCall, OnFailure, OnLogged, OnUnblocked, OnUnblockedNoVoice, OnAccept,
         OnDisconnected, OnDropCall, OnReleaseCall, OnResetLineDev, OnTaskFail
<1>5. CASE OnLogged(c)
  BY <1>3, <1>4, <1>5 DEF OnLogged
<1>6. CASE OnUnblocked(c)
  <2>1. c # d
    BY <1>6 DEF OnUnblocked, ChannelTypeOK
  <2>2. QED
    BY <1>3, <1>4, <1>6, <2>1 DEF OnUnblocked, DeviceTypeOK
<1>7. CASE OnUnblockedNoVoice(c)
  <2>1. ~waiting'[d]
    BY <1>2, <1>3, <1>7 DEF OnUnblockedNoVoice, DeviceTypeOK
  <2>2. QED
    BY <1>3, <1>4, <1>7, <2>1 DEF OnUnblockedNoVoice
<1>8. CASE OnCall(c)
  <2>1. NoLive(call'[d])
    BY <1>1, <1>3, <1>8, RequestNoLive
       DEF OnCall, OnAccept, OnDisconnected, OnDropCall, OnReleaseCall
  <2>2. QED
    BY <1>3, <1>4, <1>8, <2>1 DEF OnCall, OnAccept, OnDisconnected, OnDropCall, OnReleaseCall
<1>9. CASE OnFailure(c)
  <2>1. c # d
    BY <1>3, <1>9, TakeHarmless DEF OnFailure, OnResetLineDev, OnTaskFail
  <2>2. QED
    BY <1>3, <1>4, <1>9, <2>1 DEF OnFailure, OnResetLineDev, OnTaskFail, DeviceTypeOK
<1>10. QED
  BY <1>5, <1>6, <1>7, <1>8, <1>9 DEF OnLine

\* The signal handler and the closing of lines.
LEMMA EndingVoice ==
    ASSUME DeviceTypeOK, VoiceInv, intr_hdlr \/ CloseIdleLines
    PROVE  VoiceInv'
<1>1. \A c \in Channels : call[c] \in [Crn -> CallState]
  BY DEF DeviceTypeOK
<1>2. CASE intr_hdlr
  BY <1>1, <1>2, RequestNoLive DEF intr_hdlr, VoiceInv
<1>3. CASE CloseIdleLines
  <2>1. Harmless(<<>>)
    BY DEF Harmless
  <2>2. QED
    BY <1>3, <2>1, ClearedNoLive DEF CloseIdleLines, VoiceInv
<1>4. QED
  BY <1>2, <1>3

-----------------------------------------------------------------------------
(* The order of a call's events. *)

\* The events that set the state of a call, and the rank of the state they set.
Ranked == {"OFFERED", "ACCEPT", "ANSWERED", "DISCONNECTED", "DROPCALL", "RELEASECALL"}

RankOf(type) ==
    CASE type = "OFFERED"      -> 1
      [] type = "ACCEPT"       -> 2
      [] type = "ANSWERED"     -> 3
      [] type = "DISCONNECTED" -> 4
      [] OTHER                 -> 5

\* The least rank of the events the library may still raise for a call in this state.
Due(state) ==
    CASE state = "none"                                      -> 1
      [] state \in {"offered", "acking", "acked", "accepting"} -> 2
      [] state \in {"accepted", "answering"}                 -> 3
      [] state \in {"connected", "disconnected"}              -> 4
      [] OTHER                                               -> 5

\* The i-th event of q is one of call n's.
About(q, i, n) == q[i].type \in Ranked /\ q[i].crn = n

\* Call n was dropped, and its release is under way or announced.
Gone(k, q, n) ==
    k[n] = "releasing" \/ \E i \in 1..Len(q) : q[i].type = "RELEASECALL" /\ q[i].crn = n

\* The events of each call are queued in the order of their ranks, OFFERED once, and
\* none is beyond what the library has reached.
EventsOrdered(k, q) ==
    \A n \in Crn, i \in 1..Len(q) : About(q, i, n) =>
        /\ k[n] # "none"
        /\ RankOf(q[i].type) <= Due(k[n])
        /\ Gone(k, q, n) => q[i].type # "OFFERED"
        /\ \A j \in 1..Len(q) : (i < j /\ About(q, j, n)) =>
               RankOf(q[i].type) <= RankOf(q[j].type) /\ q[j].type # "OFFERED"

\* A registered call was offered, is in one slot, and is not ahead of its events.
SlotsOrdered(k, q, s) ==
    /\ \A n \in Crn, x \in Slot : s[x].crn = n =>
           /\ k[n] # "none"
           /\ Rank[s[x].SState] <= Due(k[n])
           /\ Gone(k, q, n) => s[x].SState = "IDLE"
           /\ \A i \in 1..Len(q) : About(q, i, n) =>
                  Rank[s[x].SState] <= RankOf(q[i].type) /\ q[i].type # "OFFERED"
    /\ s[0].crn # NoCrn => s[0].crn # s[1].crn

Ordered(k, q, s) == EventsOrdered(k, q) /\ SlotsOrdered(k, q, s)

\* A release is a call's.
Numbered(q) == \A i \in 1..Len(q) : q[i].type = "RELEASECALL" => q[i].crn # NoCrn

\* ReleaseFollowsDrop and CallsNeverRegress made inductive.
OrderInv == \A c \in Channels : Ordered(call[c], evq[c], Calls[c]) /\ Numbered(evq[c])

\* The ranks are numbers.
LEMMA RankType ==
    /\ \A state \in SStateSet : Rank[state] \in 0..5
    /\ \A type : RankOf(type) \in 1..5
    /\ \A state : Due(state) \in 1..5
<1>1. \A state \in SStateSet : Rank[state] \in 0..5
  BY DEF Rank, SStateSet
<1>2. \A type : RankOf(type) \in 1..5
  BY DEF RankOf
<1>3. \A state : Due(state) \in 1..5
  BY DEF Due
<1>4. QED
  BY <1>1, <1>2, <1>3

\* A call may go from one state to the other while this event is raised about it.
Admissible(old, type, new) ==
    /\ type \in CallEvent \cup LineEvent /\ new \in CallState \ {"none", "releasing"}
    /\ Due(old) <= Due(new)
    /\ type \in Ranked => Due(old) <= RankOf(type) /\ RankOf(type) <= Due(new)
    /\ type = "OFFERED" => old = "none"
    /\ type = "RELEASECALL" => old = "releasing"

\* So may a call that is offered or hung up, and one whose request ends or fails.
LEMMA AdmissibleSteps ==
    /\ Admissible("none", "OFFERED", "offered")
    /\ \A old \in Talking \cup {"disconnected"} : Admissible(old, "DISCONNECTED", "disconnected")
    /\ \A old \in Pending : Admissible(old, "TASKFAIL", "failed")
    /\ \A old \in Pending : Admissible(old, Completion[old].event, Completion[old].state)
<1>1. Admissible("none", "OFFERED", "offered")
  BY DEF Admissible, Due, RankOf, Ranked, CallEvent, CallState, Live, Droppable, Talking
<1>2. ASSUME NEW old \in Talking \cup {"disconnected"} PROVE Admissible(old, "DISCONNECTED", "disconnected")
  BY <1>2 DEF Admissible, Due, RankOf, Ranked, CallEvent, CallState, Live, Droppable, Talking
<1>3. ASSUME NEW old \in Pending PROVE Admissible(old, "TASKFAIL", "failed")
  BY <1>3 DEF Admissible, Due, RankOf, Ranked, LineEvent, CallState, Live, Droppable, Pending
<1>4. ASSUME NEW old \in Pending
      PROVE  Admissible(old, Completion[old].event, Completion[old].state)
  BY <1>4 DEF Admissible, Completion, Pending, Due, RankOf, Ranked, CallEvent, CallState, Live,
              Droppable, Talking
<1>5. QED
  BY <1>1, <1>2, <1>3, <1>4

\* The library moves on with call n and raises an event about it.
LEMMA OrderedRaise ==
    ASSUME NEW k \in [Crn -> CallState], NEW q \in Seq(Event), NEW s \in [Slot -> CallInfo],
           Ordered(k, q, s), NEW n \in Crn,
           NEW type, NEW new, Admissible(k[n], type, new)
    PROVE  Ordered([k EXCEPT ![n] = new], Append(q, [type |-> type, crn |-> n]), s)
<1> DEFINE e == [type |-> type, crn |-> n]
           l == [k EXCEPT ![n] = new]
           p == Append(q, e)
<1> USE DEF Admissible
<1>1. /\ Len(q) \in Nat /\ Len(p) = Len(q) + 1
      /\ \A i \in 1..Len(q) : p[i] = q[i]
      /\ p[Len(q) + 1] = e
  OBVIOUS
<1>2. \A m \in Crn : l[m] = IF m = n THEN new ELSE k[m]
  OBVIOUS
<1>3. /\ \A i \in 1..Len(q), m \in Crn : About(p, i, m) <=> About(q, i, m)
      /\ \A m \in Crn : About(p, Len(q) + 1, m) <=> (type \in Ranked /\ m = n)
  BY <1>1 DEF About
<1>4. \A m \in Crn : Gone(l, p, m) => Gone(k, q, m)
  BY <1>1, <1>2 DEF Gone
<1> HIDE DEF p, l
<1>5. EventsOrdered(l, p)
  <2> SUFFICES ASSUME NEW m \in Crn, NEW i \in 1..Len(p), About(p, i, m)
               PROVE  /\ l[m] # "none"
                      /\ RankOf(p[i].type) <= Due(l[m])
                      /\ Gone(l, p, m) => p[i].type # "OFFERED"
                      /\ \A j \in 1..Len(p) : (i < j /\ About(p, j, m)) =>
                             RankOf(p[i].type) <= RankOf(p[j].type) /\ p[j].type # "OFFERED"
    BY DEF EventsOrdered
  <2>1. CASE i = Len(q) + 1
    <3>1. m = n /\ type \in Ranked /\ p[i].type = type
      BY <1>1, <1>3, <2>1
    <3>2. Gone(l, p, m) => type # "OFFERED"
      BY <1>4, <3>1 DEF Gone, Ordered, EventsOrdered, About, Ranked
    <3>3. QED
      BY <1>1, <1>2, <2>1, <3>1, <3>2
  <2>2. CASE i \in 1..Len(q)
    <3>1. p[i] = q[i] /\ About(q, i, m)
      BY <1>1, <1>3, <2>2
    <3>2. /\ k[m] # "none"
          /\ RankOf(q[i].type) <= Due(k[m])
          /\ Gone(k, q, m) => q[i].type # "OFFERED"
          /\ \A j \in 1..Len(q) : (i < j /\ About(q, j, m)) =>
                 RankOf(q[i].type) <= RankOf(q[j].type) /\ q[j].type # "OFFERED"
      BY <2>2, <3>1 DEF Ordered, EventsOrdered
    <3>3. RankOf(p[i].type) <= Due(l[m])
      <4>1. RankOf(q[i].type) \in 1..5 /\ Due(k[m]) \in 1..5 /\ Due(l[m]) \in 1..5
        BY RankType
      <4>2. Due(k[m]) <= Due(l[m])
        BY <1>2, <4>1
      <4>3. QED
        BY <3>1, <3>2, <4>1, <4>2
    <3>4. ASSUME NEW j \in 1..Len(p), i < j, About(p, j, m)
          PROVE  RankOf(p[i].type) <= RankOf(p[j].type) /\ p[j].type # "OFFERED"
      <4>1. CASE j \in 1..Len(q)
        BY <1>1, <1>3, <3>1, <3>2, <3>4, <4>1
      <4>2. CASE j = Len(q) + 1
        <5>1. m = n /\ type \in Ranked /\ p[j].type = type
          BY <1>1, <1>3, <3>4, <4>2
        <5>2. QED
          <6>1. RankOf(q[i].type) \in 1..5 /\ RankOf(type) \in 1..5 /\ Due(k[n]) \in 1..5
            BY RankType
          <6>2. QED
            BY <3>1, <3>2, <5>1, <6>1
      <4>3. QED
        BY <1>1, <4>1, <4>2
    <3>5. QED
      BY <1>2, <1>4, <3>1, <3>2, <3>3, <3>4
  <2>3. QED
    BY <1>1, <2>1, <2>2
<1>6. SlotsOrdered(l, p, s)
  <2> SUFFICES ASSUME NEW m \in Crn, NEW x \in Slot, s[x].crn = m
               PROVE  /\ l[m] # "none"
                      /\ Rank[s[x].SState] <= Due(l[m])
                      /\ Gone(l, p, m) => s[x].SState = "IDLE"
                      /\ \A i \in 1..Len(p) : About(p, i, m) =>
                             Rank[s[x].SState] <= RankOf(p[i].type) /\ p[i].type # "OFFERED"
    BY DEF SlotsOrdered, Ordered
  <2>1. /\ k[m] # "none"
        /\ Rank[s[x].SState] <= Due(k[m])
        /\ Gone(k, q, m) => s[x].SState = "IDLE"
        /\ \A i \in 1..Len(q) : About(q, i, m) =>
               Rank[s[x].SState] <= RankOf(q[i].type) /\ q[i].type # "OFFERED"
    BY DEF Ordered, SlotsOrdered
  <2>2. Rank[s[x].SState] \in 0..5
    BY RankType DEF CallInfo
  <2>3. Rank[s[x].SState] <= Due(l[m])
    <3>1. Due(k[m]) \in 1..5 /\ Due(l[m]) \in 1..5
      BY RankType
    <3>2. Due(k[m]) <= Due(l[m])
      BY <1>2, <3>1
    <3>3. QED
      BY <2>1, <2>2, <3>1, <3>2
  <2>4. ASSUME NEW i \in 1..Len(p), About(p, i, m)
        PROVE  Rank[s[x].SState] <= RankOf(p[i].type) /\ p[i].type # "OFFERED"
    <3>1. CASE i \in 1..Len(q)
      BY <1>1, <1>3, <2>1, <2>4, <3>1
    <3>2. CASE i = Len(q) + 1
      <4>1. m = n /\ type \in Ranked /\ p[i].type = type
        BY <1>1, <1>3, <2>4, <3>2
      <4>2. QED
        <5>1. RankOf(type) \in 1..5 /\ Due(k[n]) \in 1..5
          BY RankType
        <5>2. QED
          BY <2>1, <2>2, <4>1, <5>1
    <3>3. QED
      BY <1>1, <3>1, <3>2
  <2>5. QED
    BY <1>2, <1>4, <2>1, <2>3, <2>4
<1>7. QED
  BY <1>5, <1>6 DEF Ordered, p, l

\* What is left of a queue is ordered.
LEMMA OrderedTake ==
    ASSUME NEW k \in [Crn -> CallState], NEW q \in Seq(Event), NEW s \in [Slot -> CallInfo],
           Ordered(k, q, s), q # <<>>
    PROVE  /\ Ordered(k, Tail(q), s)
           /\ Len(Tail(q)) \in Nat
           /\ \A n \in Crn, i \in 1..Len(Tail(q)) : About(Tail(q), i, n) => About(q, i + 1, n)
           /\ \A i \in 1..Len(Tail(q)) : i + 1 \in 1..Len(q) /\ Tail(q)[i] = q[i + 1]
           /\ 1 \in 1..Len(q) /\ Head(q) = q[1]
<1> DEFINE p == Tail(q)
<1>1. /\ Len(q) \in Nat /\ Len(q) > 0 /\ Len(p) = Len(q) - 1
      /\ Head(q) = q[1]
      /\ \A i \in 1..Len(p) : p[i] = q[i + 1]
  OBVIOUS
<1> HIDE DEF p
<1>2. \A n \in Crn, i \in 1..Len(p) : About(p, i, n) <=> About(q, i + 1, n)
  BY <1>1 DEF About
<1>3. \A n \in Crn : Gone(k, p, n) => Gone(k, q, n)
  BY <1>1 DEF Gone
<1>4. EventsOrdered(k, p)
  <2> SUFFICES ASSUME NEW m \in Crn, NEW i \in 1..Len(p), About(p, i, m)
               PROVE  /\ k[m] # "none"
                      /\ RankOf(p[i].type) <= Due(k[m])
                      /\ Gone(k, p, m) => p[i].type # "OFFERED"
                      /\ \A j \in 1..Len(p) : (i < j /\ About(p, j, m)) =>
                             RankOf(p[i].type) <= RankOf(p[j].type) /\ p[j].type # "OFFERED"
    BY DEF EventsOrdered
  <2>1. i + 1 \in 1..Len(q) /\ About(q, i + 1, m) /\ p[i] = q[i + 1]
    BY <1>1, <1>2
  <2>2. /\ k[m] # "none"
        /\ RankOf(q[i + 1].type) <= Due(k[m])
        /\ Gone(k, q, m) => q[i + 1].type # "OFFERED"
        /\ \A j \in 1..Len(q) : (i + 1 < j /\ About(q, j, m)) =>
               RankOf(q[i + 1].type) <= RankOf(q[j].type) /\ q[j].type # "OFFERED"
    BY <2>1 DEF Ordered, EventsOrdered
  <2>3. ASSUME NEW j \in 1..Len(p), i < j, About(p, j, m)
        PROVE  RankOf(p[i].type) <= RankOf(p[j].type) /\ p[j].type # "OFFERED"
    <3>1. j + 1 \in 1..Len(q) /\ About(q, j + 1, m) /\ p[j] = q[j + 1] /\ i + 1 < j + 1
      BY <1>1, <1>2, <2>3
    <3>2. QED
      BY <2>1, <2>2, <3>1
  <2>4. QED
    BY <1>3, <2>1, <2>2, <2>3
<1>5. SlotsOrdered(k, p, s)
  BY <1>1, <1>2, <1>3 DEF Ordered, SlotsOrdered
<1>6. QED
  BY <1>1, <1>2, <1>4, <1>5 DEF Ordered, p

\* Calls only move on, and none starts to be released.
LEMMA OrderedOn ==
    ASSUME NEW k \in [Crn -> CallState], NEW q \in Seq(Event), NEW s \in [Slot -> CallInfo],
           Ordered(k, q, s), NEW l \in [Crn -> CallState],
           \A n \in Crn : \/ l[n] = k[n]
                          \/ l[n] \notin {"none", "releasing"} /\ Due(k[n]) <= Due(l[n])
    PROVE  Ordered(l, q, s)
<1>1. \A n \in Crn : Gone(l, q, n) => Gone(k, q, n)
  BY DEF Gone
<1>2. \A n \in Crn : Due(k[n]) <= Due(l[n]) /\ (k[n] # "none" => l[n] # "none")
  BY RankType
<1>3. EventsOrdered(l, q)
  <2> SUFFICES ASSUME NEW m \in Crn, NEW i \in 1..Len(q), About(q, i, m)
               PROVE  /\ l[m] # "none"
                      /\ RankOf(q[i].type) <= Due(l[m])
                      /\ Gone(l, q, m) => q[i].type # "OFFERED"
                      /\ \A j \in 1..Len(q) : (i < j /\ About(q, j, m)) =>
                             RankOf(q[i].type) <= RankOf(q[j].type) /\ q[j].type # "OFFERED"
    BY DEF EventsOrdered
  <2>1. /\ k[m] # "none"
        /\ RankOf(q[i].type) <= Due(k[m])
        /\ Gone(k, q, m) => q[i].type # "OFFERED"
        /\ \A j \in 1..Len(q) : (i < j /\ About(q, j, m)) =>
               RankOf(q[i].type) <= RankOf(q[j].type) /\ q[j].type # "OFFERED"
    BY DEF Ordered, EventsOrdered
  <2>2. RankOf(q[i].type) \in 1..5 /\ Due(k[m]) \in 1..5 /\ Due(l[m]) \in 1..5
    BY RankType
  <2>3. RankOf(q[i].type) <= Due(l[m])
    BY <1>2, <2>1, <2>2
  <2>4. QED
    BY <1>1, <1>2, <2>1, <2>3
<1>4. SlotsOrdered(l, q, s)
  <2> SUFFICES ASSUME NEW m \in Crn, NEW x \in Slot, s[x].crn = m
               PROVE  /\ l[m] # "none"
                      /\ Rank[s[x].SState] <= Due(l[m])
                      /\ Gone(l, q, m) => s[x].SState = "IDLE"
                      /\ \A i \in 1..Len(q) : About(q, i, m) =>
                             Rank[s[x].SState] <= RankOf(q[i].type) /\ q[i].type # "OFFERED"
    BY DEF SlotsOrdered, Ordered
  <2>1. /\ k[m] # "none"
        /\ Rank[s[x].SState] <= Due(k[m])
        /\ Gone(k, q, m) => s[x].SState = "IDLE"
        /\ \A i \in 1..Len(q) : About(q, i, m) =>
               Rank[s[x].SState] <= RankOf(q[i].type) /\ q[i].type # "OFFERED"
    BY DEF Ordered, SlotsOrdered
  <2>2. Rank[s[x].SState] \in 0..5
    BY RankType DEF CallInfo
  <2>3. Rank[s[x].SState] <= Due(l[m])
    BY <1>2, <2>1, <2>2, RankType
  <2>4. QED
    BY <1>1, <1>2, <2>1, <2>3
<1>5. QED
  BY <1>3, <1>4 DEF Ordered

\* So the functions of the library but gc_ReleaseCallEx do, and the end of a line.
LEMMA OrderedRequest ==
    ASSUME NEW k \in [Crn -> CallState], NEW q \in Seq(Event), NEW s \in [Slot -> CallInfo],
           Ordered(k, q, s), NEW n
    PROVE  /\ Ordered(gc_CallAck(k, n), q, s)
           /\ Ordered(gc_AcceptCall(k, n), q, s)
           /\ Ordered(gc_AnswerCall(k, n), q, s)
           /\ Ordered(gc_DropCall(k, n), q, s)
           /\ Ordered(Cleared(k), q, s)
<1> DEFINE On(l) == \A m \in Crn : \/ l[m] = k[m]
                                   \/ l[m] \notin {"none", "releasing"} /\ Due(k[m]) <= Due(l[m])
<1>1. /\ gc_CallAck(k, n) \in [Crn -> CallState] /\ gc_AcceptCall(k, n) \in [Crn -> CallState]
      /\ gc_AnswerCall(k, n) \in [Crn -> CallState] /\ gc_DropCall(k, n) \in [Crn -> CallState]
      /\ Cleared(k) \in [Crn -> CallState]
  BY RequestType
<1>2. On(gc_CallAck(k, n)) /\ On(gc_AcceptCall(k, n)) /\ On(gc_AnswerCall(k, n))
  BY DEF gc_CallAck, gc_AcceptCall, gc_AnswerCall, Request, Unanswered, Due
<1>3. On(gc_DropCall(k, n))
  BY RankType DEF gc_DropCall, Request, Due
<1>4. On(Cleared(k))
  BY RankType DEF Cleared, Due
<1>5. QED
  BY <1>1, <1>2, <1>3, <1>4, OrderedOn

\* States only move towards IDLE, whichever slots calls are in.
Forward(s, t) ==
    \A i, j \in Slot : (s[i].crn # NoCrn /\ t[j].crn = s[i].crn) =>
        Rank[t[j].SState] >= Rank[s[i].SState]

\* Slots that are emptied do no harm, and slots that are kept.
LEMMA OrderedEmpty ==
    ASSUME NEW k \in [Crn -> CallState], NEW q \in Seq(Event), NEW s \in [Slot -> CallInfo],
           Ordered(k, q, s), NEW t \in [Slot -> CallInfo],
           \A x \in Slot : t[x] = s[x] \/ t[x] = NoCall
    PROVE  Ordered(k, q, t) /\ Forward(s, t)
<1>1. 0 \in Slot /\ 1 \in Slot /\ \A x \in Slot : x = 0 \/ x = 1
  BY DEF Slot, MAX_CALLS
<1>2. NoCall.crn = NoCrn /\ NoCrn \notin Crn
  BY DEF NoCall, NoCrn, Crn
<1>3. \A x \in Slot : Rank[s[x].SState] \in 0..5
  BY RankType DEF CallInfo
<1>4. Ordered(k, q, t)
  <2>1. t[0].crn # NoCrn => t[0].crn # t[1].crn
    BY <1>1, <1>2 DEF Ordered, SlotsOrdered
  <2>2. QED
    BY <1>1, <1>2, <2>1 DEF Ordered, SlotsOrdered
<1>5. Forward(s, t)
  BY <1>1, <1>2, <1>3 DEF Forward, Ordered, SlotsOrdered
<1>6. QED
  BY <1>4, <1>5

\* The event at the head of the queue gives its call the state of its rank.
LEMMA OrderedState ==
    ASSUME NEW k \in [Crn -> CallState], NEW q \in Seq(Event), NEW s \in [Slot -> CallInfo],
           Ordered(k, q, s), q # <<>>, NEW state \in SStateSet,
           Head(q).type \in Ranked, Rank[state] = RankOf(Head(q).type)
    PROVE  /\ Ordered(k, Tail(q), WithSState(s, Head(q).crn, state))
           /\ Forward(s, WithSState(s, Head(q).crn, state))
<1> DEFINE n == Head(q).crn
           t == WithSState(s, n, state)
<1>1. 0 \in Slot /\ 1 \in Slot /\ \A x \in Slot : x = 0 \/ x = 1
  BY DEF Slot, MAX_CALLS
<1>2. /\ Ordered(k, Tail(q), s)
      /\ \A m \in Crn, i \in 1..Len(Tail(q)) :
             About(Tail(q), i, m) => i + 1 \in 1..Len(q) /\ About(q, i + 1, m) /\ Tail(q)[i] = q[i + 1]
      /\ 1 \in 1..Len(q) /\ Head(q) = q[1]
      /\ \A m \in Crn : m = n => About(q, 1, m)
  BY OrderedTake DEF About
<1>3. \A m \in Crn : Gone(k, Tail(q), m) => Gone(k, q, m)
  BY OrderedTake DEF Gone
<1>4. \A x \in Slot : /\ s[x] \in CallInfo /\ t[x].crn = s[x].crn
                      /\ t[x].SState = (IF GetCallNdx(s, n, x) THEN state ELSE s[x].SState)
  BY DEF WithSState, CallInfo
<1>5. \A x \in Slot : GetCallNdx(s, n, x) => s[x].crn = n
  BY DEF GetCallNdx
<1>6. /\ Rank[state] \in 0..5 /\ (Rank[state] = 5 => state = "IDLE") /\ Rank["IDLE"] = 5
      /\ \A x \in Slot : Rank[s[x].SState] \in 0..5
  BY <1>4, RankType DEF Rank, SStateSet, CallInfo
<1>7. \A x \in Slot : (n \in Crn /\ s[x].crn = n) =>
          Rank[s[x].SState] <= Rank[state] /\ (Gone(k, q, n) => state = "IDLE")
  BY <1>2, <1>6 DEF Ordered, SlotsOrdered
<1>8. \A i \in 1..Len(Tail(q)) : (n \in Crn /\ About(Tail(q), i, n)) =>
          Rank[state] <= RankOf(Tail(q)[i].type)
  <2> SUFFICES ASSUME NEW i \in 1..Len(Tail(q)), n \in Crn, About(Tail(q), i, n)
               PROVE  Rank[state] <= RankOf(Tail(q)[i].type)
    OBVIOUS
  <2>1. i + 1 \in 1..Len(q) /\ About(q, i + 1, n) /\ Tail(q)[i] = q[i + 1] /\ 1 < i + 1
    BY <1>2
  <2>2. QED
    BY <1>2, <2>1 DEF Ordered, EventsOrdered
<1> HIDE DEF n, t
<1>9. SlotsOrdered(k, Tail(q), t)
  <2>1. ASSUME NEW m \in Crn, NEW x \in Slot, t[x].crn = m
        PROVE  /\ k[m] # "none"
               /\ Rank[t[x].SState] <= Due(k[m])
               /\ Gone(k, Tail(q), m) => t[x].SState = "IDLE"
               /\ \A i \in 1..Len(Tail(q)) : About(Tail(q), i, m) =>
                      Rank[t[x].SState] <= RankOf(Tail(q)[i].type) /\ Tail(q)[i].type # "OFFERED"
    <3>1. /\ s[x].crn = m /\ k[m] # "none"
          /\ Rank[s[x].SState] <= Due(k[m])
          /\ Gone(k, Tail(q), m) => s[x].SState = "IDLE"
          /\ \A i \in 1..Len(Tail(q)) : About(Tail(q), i, m) =>
                 Rank[s[x].SState] <= RankOf(Tail(q)[i].type) /\ Tail(q)[i].type # "OFFERED"
      BY <1>2, <1>4, <2>1 DEF Ordered, SlotsOrdered
    <3>2. CASE ~GetCallNdx(s, n, x)
      BY <1>4, <3>1, <3>2
    <3>3. CASE GetCallNdx(s, n, x)
      <4>1. m = n /\ t[x].SState = state
        BY <1>4, <1>5, <3>1, <3>3
      <4>2. Rank[state] <= Due(k[m])
        BY <1>2, <4>1 DEF Ordered, EventsOrdered
      <4>3. Gone(k, Tail(q), m) => state = "IDLE"
        BY <1>3, <1>7, <3>1, <4>1
      <4>4. QED
        BY <1>8, <3>1, <4>1, <4>2, <4>3
    <3>4. QED
      BY <3>2, <3>3
  <2>2. t[0].crn # NoCrn => t[0].crn # t[1].crn
    BY <1>1, <1>4 DEF Ordered, SlotsOrdered
  <2>3. QED
    BY <2>1, <2>2 DEF SlotsOrdered
<1>10. Forward(s, t)
  <2> SUFFICES ASSUME NEW i \in Slot, NEW j \in Slot, s[i].crn # NoCrn, t[j].crn = s[i].crn
               PROVE  Rank[t[j].SState] >= Rank[s[i].SState]
    BY DEF Forward
  <2>1. i = j
    BY <1>1, <1>4 DEF Ordered, SlotsOrdered
  <2>2. s[i].crn \in Crn
    BY <1>4 DEF CallInfo
  <2>3. CASE GetCallNdx(s, n, i)
    <3>1. n \in Crn /\ s[i].crn = n /\ t[j].SState = state
      BY <1>4, <1>5, <2>1, <2>2, <2>3
    <3>2. Rank[s[i].SState] <= Rank[state]
      BY <1>7, <3>1
    <3>3. QED
      BY <1>6, <3>1, <3>2
  <2>4. CASE ~GetCallNdx(s, n, i)
    <3>1. t[i].SState = s[i].SState
      BY <1>4, <2>4
    <3>2. Rank[s[i].SState] \in 0..5
      BY <1>6
    <3>3. QED
      BY <2>1, <3>1, <3>2
  <2>5. QED
    BY <2>3, <2>4
<1>11. QED
  BY <1>2, <1>9, <1>10 DEF Ordered, n, t

\* A call whose drop completed is IDLE before it starts to be released.
LEMMA OrderedRelease ==
    ASSUME NEW k \in [Crn -> CallState], NEW q \in Seq(Event), NEW s \in [Slot -> CallInfo],
           Ordered(k, q, s), q # <<>>, Head(q).type = "DROPCALL"
    PROVE  /\ Ordered(gc_ReleaseCallEx(k, Head(q).crn), Tail(q), WithSState(s, Head(q).crn, "IDLE"))
           /\ Forward(s, WithSState(s, Head(q).crn, "IDLE"))
<1> DEFINE n == Head(q).crn
           t == WithSState(s, n, "IDLE")
           l == gc_ReleaseCallEx(k, n)
<1>1. Ordered(k, Tail(q), t) /\ Forward(s, t)
  <2>1. "IDLE" \in SStateSet /\ Rank["IDLE"] = 5 /\ RankOf("DROPCALL") = 5 /\ "DROPCALL" \in Ranked
    BY DEF SStateSet, Rank, RankOf, Ranked
  <2>2. QED
    BY <2>1, OrderedState
<1>2. /\ \A m \in Crn, i \in 1..Len(Tail(q)) :
             About(Tail(q), i, m) => i + 1 \in 1..Len(q) /\ About(q, i + 1, m) /\ Tail(q)[i] = q[i + 1]
      /\ 1 \in 1..Len(q) /\ Head(q) = q[1]
      /\ \A m \in Crn : m = n => About(q, 1, m)
  BY OrderedTake DEF About, Ranked
<1>3. \A i \in 1..Len(Tail(q)) : (n \in Crn /\ About(Tail(q), i, n)) => Tail(q)[i].type # "OFFERED"
  <2> SUFFICES ASSUME NEW i \in 1..Len(Tail(q)), n \in Crn, About(Tail(q), i, n)
               PROVE  Tail(q)[i].type # "OFFERED"
    OBVIOUS
  <2>1. i + 1 \in 1..Len(q) /\ About(q, i + 1, n) /\ Tail(q)[i] = q[i + 1] /\ 1 < i + 1
    BY <1>2
  <2>2. QED
    BY <1>2, <2>1 DEF Ordered, EventsOrdered
<1>4. \A x \in Slot : (n \in Crn /\ t[x].crn = n) => t[x].SState = "IDLE"
  <2>1. 0 \in Slot /\ 1 \in Slot /\ \A x \in Slot : x = 0 \/ x = 1
    BY DEF Slot, MAX_CALLS
  <2>2. \A x \in Slot : s[x] \in CallInfo /\ t[x].crn = s[x].crn
    BY DEF WithSState, CallInfo
  <2>3. \A x \in Slot : (n \in Crn /\ s[x].crn = n) => GetCallNdx(s, n, x)
    BY <2>1 DEF GetCallNdx, Ordered, SlotsOrdered, NoCrn, Crn
  <2>4. QED
    BY <2>2, <2>3 DEF WithSState, CallInfo
<1>5. /\ \A m \in Crn : l[m] = k[m] \/ (m = n /\ k[m] = "idle" /\ l[m] = "releasing")
      /\ \A m \in Crn : Due(l[m]) = Due(k[m]) /\ (l[m] = "none" <=> k[m] = "none")
  BY DEF gc_ReleaseCallEx, Request, Due
<1>6. \A m \in Crn : m # n => (Gone(l, Tail(q), m) => Gone(k, Tail(q), m))
  BY <1>5 DEF Gone
<1> HIDE DEF n, t, l
<1>7. EventsOrdered(l, Tail(q))
  BY <1>1, <1>3, <1>5, <1>6 DEF Ordered, EventsOrdered
<1>8. SlotsOrdered(l, Tail(q), t)
  BY <1>1, <1>4, <1>5, <1>6 DEF Ordered, SlotsOrdered
<1>9. QED
  BY <1>1, <1>7, <1>8 DEF Ordered, n, t, l

\* A new call was not registered before, and pushes no state back.
LEMMA OrderedRegister ==
    ASSUME NEW k \in [Crn -> CallState], NEW q \in Seq(Event), NEW s \in [Slot -> CallInfo],
           Ordered(k, q, s), q # <<>>, Head(q).type = "OFFERED"
    PROVE  /\ Ordered(k, Tail(q), RegNewCall(s, Head(q).crn, "OFFERED"))
           /\ Forward(s, RegNewCall(s, Head(q).crn, "OFFERED"))
<1> DEFINE n == Head(q).crn
           t == RegNewCall(s, n, "OFFERED")
<1>1. 0 \in Slot /\ 1 \in Slot /\ \A x \in Slot : x = 0 \/ x = 1
  BY DEF Slot, MAX_CALLS
<1>2. /\ Ordered(k, Tail(q), s)
      /\ \A m \in Crn, i \in 1..Len(Tail(q)) :
             About(Tail(q), i, m) => i + 1 \in 1..Len(q) /\ About(q, i + 1, m) /\ Tail(q)[i] = q[i + 1]
      /\ 1 \in 1..Len(q) /\ Head(q) = q[1]
      /\ \A m \in Crn : m = n => About(q, 1, m)
  BY OrderedTake DEF About, Ranked
<1>3. \A m \in Crn : Gone(k, Tail(q), m) => Gone(k, q, m)
  BY OrderedTake DEF Gone
<1>4. t[0] = [crn |-> n, SState |-> "OFFERED"] /\ t[1] = s[0]
  BY <1>1 DEF RegNewCall
<1>5. n \in Crn => /\ k[n] # "none" /\ ~Gone(k, q, n)
                   /\ s[0].crn # n /\ s[1].crn # n
                   /\ \A i \in 1..Len(Tail(q)) : About(Tail(q), i, n) => Tail(q)[i].type # "OFFERED"
  <2> SUFFICES ASSUME n \in Crn
               PROVE  /\ k[n] # "none" /\ ~Gone(k, q, n)
                      /\ s[0].crn # n /\ s[1].crn # n
                      /\ \A i \in 1..Len(Tail(q)) : About(Tail(q), i, n) => Tail(q)[i].type # "OFFERED"
    OBVIOUS
  <2>1. k[n] # "none" /\ ~Gone(k, q, n)
    BY <1>2 DEF Ordered, EventsOrdered
  <2>2. s[0].crn # n /\ s[1].crn # n
    BY <1>1, <1>2 DEF Ordered, SlotsOrdered
  <2>3. ASSUME NEW i \in 1..Len(Tail(q)), About(Tail(q), i, n) PROVE Tail(q)[i].type # "OFFERED"
    <3>1. i + 1 \in 1..Len(q) /\ About(q, i + 1, n) /\ Tail(q)[i] = q[i + 1] /\ 1 < i + 1
      BY <1>2, <2>3
    <3>2. QED
      BY <1>2, <3>1 DEF Ordered, EventsOrdered
  <2>4. QED
    BY <2>1, <2>2, <2>3
<1>6. Rank["OFFERED"] = 1 /\ \A x \in Slot : Rank[s[x].SState] \in 0..5
  BY RankType DEF Rank, CallInfo
<1> HIDE DEF n, t
<1>7. SlotsOrdered(k, Tail(q), t)
  <2>1. ASSUME NEW m \in Crn, NEW x \in Slot, t[x].crn = m
        PROVE  /\ k[m] # "none"
               /\ Rank[t[x].SState] <= Due(k[m])
               /\ Gone(k, Tail(q), m) => t[x].SState = "IDLE"
               /\ \A i \in 1..Len(Tail(q)) : About(Tail(q), i, m) =>
                      Rank[t[x].SState] <= RankOf(Tail(q)[i].type) /\ Tail(q)[i].type # "OFFERED"
    <3>1. CASE x = 0
      <4>1. m = n /\ t[x].SState = "OFFERED"
        BY <1>4, <2>1, <3>1
      <4>2. Rank[t[x].SState] = 1 /\ Due(k[m]) \in 1..5
        BY <1>6, <4>1, RankType
      <4>3. ~Gone(k, Tail(q), m)
        BY <1>3, <1>5, <4>1
      <4>4. ASSUME NEW i \in 1..Len(Tail(q)), About(Tail(q), i, m)
            PROVE  Rank[t[x].SState] <= RankOf(Tail(q)[i].type) /\ Tail(q)[i].type # "OFFERED"
        <5>1. RankOf(Tail(q)[i].type) \in 1..5
          BY RankType
        <5>2. Tail(q)[i].type # "OFFERED"
          BY <1>5, <4>1, <4>4
        <5>3. QED
          BY <4>2, <5>1, <5>2
      <4>5. k[m] # "none"
        BY <1>5, <4>1
      <4>6. QED
        BY <4>2, <4>3, <4>4, <4>5
    <3>2. CASE x = 1
      BY <1>1, <1>2, <1>4, <2>1, <3>2 DEF Ordered, SlotsOrdered
    <3>3. QED
      BY <1>1, <3>1, <3>2
  <2>2. t[0].crn # NoCrn => t[0].crn # t[1].crn
    <3>1. s[0].crn \in Crn \cup {NoCrn}
      BY <1>1 DEF CallInfo
    <3>2. n \in Crn => s[0].crn # n
      BY <1>5
    <3>3. QED
      BY <1>4, <3>1, <3>2
  <2>3. QED
    BY <2>1, <2>2 DEF SlotsOrdered
<1>8. Forward(s, t)
  <2> SUFFICES ASSUME NEW i \in Slot, NEW j \in Slot, s[i].crn # NoCrn, t[j].crn = s[i].crn
               PROVE  Rank[t[j].SState] >= Rank[s[i].SState]
    BY DEF Forward
  <2>1. j = 1
    <3>1. s[i].crn \in Crn
      BY DEF CallInfo
    <3>2. j # 0
      BY <1>1, <1>4, <1>5, <3>1
    <3>3. QED
      BY <1>1, <3>2
  <2>2. i = 0
    BY <1>1, <1>4, <2>1 DEF Ordered, SlotsOrdered
  <2>3. t[j] = s[i]
    BY <1>4, <2>1, <2>2
  <2>4. Rank[s[i].SState] \in 0..5
    BY <1>6
  <2>5. QED
    BY <2>3, <2>4
<1>9. QED
  BY <1>2, <1>7, <1>8 DEF Ordered, n, t

\* An event that is no call's changes nothing.
LEMMA OrderedOther ==
    ASSUME NEW k \in [Crn -> CallState], NEW q \in Seq(Event), NEW s \in [Slot -> CallInfo],
           Ordered(k, q, s), NEW type \in LineEvent
    PROVE  Ordered(k, Append(q, [type |-> type, crn |-> NoCrn]), s)
<1> DEFINE p == Append(q, [type |-> type, crn |-> NoCrn])
<1>1. /\ Len(q) \in Nat /\ Len(p) = Len(q) + 1
      /\ \A i \in 1..Len(q) : p[i] = q[i]
      /\ p[Len(q) + 1] = [type |-> type, crn |-> NoCrn]
  OBVIOUS
<1>2. NoCrn \notin Crn /\ type # "RELEASECALL"
  BY DEF NoCrn, Crn, LineEvent
<1> HIDE DEF p
<1>3. \A i \in 1..Len(p), m \in Crn :
          About(p, i, m) => i \in 1..Len(q) /\ About(q, i, m) /\ p[i] = q[i]
  BY <1>1, <1>2 DEF About
<1>4. ASSUME NEW m \in Crn, Gone(k, p, m) PROVE Gone(k, q, m)
  <2>1. CASE k[m] = "releasing"
    BY <2>1 DEF Gone
  <2>2. CASE k[m] # "releasing"
    <3>1. PICK i \in 1..Len(p) : p[i].type = "RELEASECALL" /\ p[i].crn = m
      BY <1>4, <2>2 DEF Gone
    <3>2. i \in 1..Len(q) /\ p[i] = q[i]
      BY <1>3, <3>1 DEF About, Ranked
    <3>3. QED
      BY <3>1, <3>2 DEF Gone
  <2>3. QED
    BY <2>1, <2>2
<1>5. EventsOrdered(k, p)
  <2> SUFFICES ASSUME NEW m \in Crn, NEW i \in 1..Len(p), About(p, i, m)
               PROVE  /\ k[m] # "none"
                      /\ RankOf(p[i].type) <= Due(k[m])
                      /\ Gone(k, p, m) => p[i].type # "OFFERED"
                      /\ \A j \in 1..Len(p) : (i < j /\ About(p, j, m)) =>
                             RankOf(p[i].type) <= RankOf(p[j].type) /\ p[j].type # "OFFERED"
    BY DEF EventsOrdered
  <2>1. i \in 1..Len(q) /\ About(q, i, m) /\ p[i] = q[i]
    BY <1>3
  <2>2. QED
    BY <1>3, <1>4, <2>1 DEF Ordered, EventsOrdered
<1>6. SlotsOrdered(k, p, s)
  BY <1>3, <1>4 DEF Ordered, SlotsOrdered
<1>7. QED
  BY <1>5, <1>6 DEF Ordered, p

\* What is raised, taken or kept on one channel leaves the releases numbered.
LEMMA NumberedSteps ==
    ASSUME NEW q \in Seq(Event), Numbered(q)
    PROVE  /\ \A type, n : (type = "RELEASECALL" => n # NoCrn) =>
                  Numbered(Append(q, [type |-> type, crn |-> n]))
           /\ q # <<>> => Numbered(Tail(q))
<1>1. ASSUME NEW type, NEW n, type = "RELEASECALL" => n # NoCrn
      PROVE  Numbered(Append(q, [type |-> type, crn |-> n]))
  BY <1>1 DEF Numbered
<1>2. ASSUME q # <<>> PROVE Numbered(Tail(q))
  <2>1. /\ Len(Tail(q)) = Len(q) - 1 /\ Len(q) \in Nat
        /\ \A i \in 1..Len(Tail(q)) : Tail(q)[i] = q[i + 1]
    BY <1>2
  <2>2. QED
    BY <2>1 DEF Numbered
<1>3. QED
  BY <1>1, <1>2

-----------------------------------------------------------------------------
(* The steps that keep the order. *)

\* What the steps of a program must show: the order is kept, no state goes back.
Kept(c) ==
    /\ Ordered(call'[c], evq'[c], Calls'[c]) /\ Numbered(evq'[c])
    /\ Forward(Calls[c], Calls'[c])

\* A channel the step does not concern.
LEMMA KeptElsewhere ==
    ASSUME DeviceTypeOK, ChannelTypeOK, OrderInv, NEW d \in Channels,
           call'[d] = call[d], evq'[d] = evq[d], Calls'[d] = Calls[d]
    PROVE  Kept(d)
<1>1. /\ call[d] \in [Crn -> CallState] /\ evq[d] \in Seq(Event)
      /\ Calls[d] \in [Slot -> CallInfo]
  BY DEF DeviceTypeOK, ChannelTypeOK
<1>2. Ordered(call[d], evq[d], Calls[d]) /\ Numbered(evq[d])
  BY DEF OrderInv
<1>3. Forward(Calls[d], Calls[d])
  BY <1>1, <1>2, OrderedEmpty
<1>4. QED
  BY <1>2, <1>3 DEF Kept

\* An admissible step of call n, with its event.
LEMMA RaiseKept ==
    ASSUME DeviceTypeOK, ChannelTypeOK, OrderInv, UNCHANGED Calls, NEW c \in Channels,
           NEW n \in Crn, NEW type, NEW new, Raise(c, type, n),
           call' = [call EXCEPT ![c][n] = new], Admissible(call[c][n], type, new)
    PROVE  Kept(c)
<1>1. /\ call[c] \in [Crn -> CallState] /\ evq[c] \in Seq(Event)
      /\ Calls[c] \in [Slot -> CallInfo]
      /\ Ordered(call[c], evq[c], Calls[c]) /\ Numbered(evq[c])
  BY DEF DeviceTypeOK, ChannelTypeOK, OrderInv
<1>2. evq'[c] = Append(evq[c], [type |-> type, crn |-> n])
  BY DEF Raise, DeviceTypeOK
<1>3. call'[c] = [call[c] EXCEPT ![n] = new]
  BY DEF DeviceTypeOK
<1>4. Ordered(call'[c], evq'[c], Calls[c])
  <2>1. Ordered([call[c] EXCEPT ![n] = new], Append(evq[c], [type |-> type, crn |-> n]), Calls[c])
    BY <1>1, OrderedRaise
  <2>2. QED
    BY <1>2, <1>3, <2>1
<1>5. n # NoCrn
  BY DEF Crn, NoCrn
<1>6. Numbered(evq'[c])
  BY <1>1, <1>2, <1>5, NumberedSteps
<1>7. Forward(Calls[c], Calls[c])
  BY <1>1, OrderedEmpty
<1>8. QED
  BY <1>4, <1>6, <1>7 DEF Kept

\* What the library and the network do.
LEMMA EnvironmentKept ==
    ASSUME DeviceTypeOK, ChannelTypeOK, OrderInv, UNCHANGED Calls,
           NEW c \in Channels, Library(c) \/ Network(c), NEW d \in Channels
    PROVE  Kept(d)
<1>1. /\ call[c] \in [Crn -> CallState] /\ evq[c] \in Seq(Event)
      /\ Calls[c] \in [Slot -> CallInfo]
      /\ Ordered(call[c], evq[c], Calls[c]) /\ Numbered(evq[c])
      /\ Forward(Calls[c], Calls[c])
  BY OrderedEmpty DEF DeviceTypeOK, ChannelTypeOK, OrderInv
<1>2. CASE d # c
  <2>1. call'[d] = call[d] /\ evq'[d] = evq[d]
    BY <1>2 DEF Library, Network, OpenDone, OpenFails, Unblock, Block, PlayDone, ResetDone,
                Complete, Offer, HangUp, TaskFails, Raise, DeviceTypeOK
  <2>2. QED
    BY <2>1, KeptElsewhere
<1>3. ASSUME d = c, OpenDone(c) \/ OpenFails(c) \/ Unblock(c) \/ Block(c) \/ PlayDone(c) \/ ResetDone(c)
      PROVE  Kept(c)
  <2>1. PICK type \in LineEvent : Raise(c, type, NoCrn) /\ UNCHANGED call
    BY <1>3 DEF OpenDone, OpenFails, Unblock, Block, PlayDone, ResetDone, LineEvent
  <2>2. evq'[c] = Append(evq[c], [type |-> type, crn |-> NoCrn]) /\ type # "RELEASECALL"
    BY <2>1 DEF Raise, DeviceTypeOK, LineEvent
  <2>3. QED
    BY <1>1, <2>1, <2>2, OrderedOther, NumberedSteps DEF Kept
<1>4. ASSUME NEW n \in Crn, \/ Complete(c, n) \/ Offer(c, n) \/ HangUp(c, n) \/ TaskFails(c, n)
      PROVE  Kept(c)
  <2>1. CASE Complete(c, n)
    <3>1. Admissible(call[c][n], Completion[call[c][n]].event, Completion[call[c][n]].state)
      BY <2>1, AdmissibleSteps DEF Complete
    <3>2. QED
      BY <2>1, <3>1, RaiseKept DEF Complete
  <2>2. CASE Offer(c, n)
    <3>1. Admissible(call[c][n], "OFFERED", "offered")
      BY <2>2, AdmissibleSteps DEF Offer
    <3>2. QED
      BY <2>2, <3>1, RaiseKept DEF Offer
  <2>3. CASE HangUp(c, n)
    <3>1. Admissible(call[c][n], "DISCONNECTED", "disconnected")
      BY <2>3, AdmissibleSteps DEF HangUp
    <3>2. QED
      BY <2>3, <3>1, RaiseKept DEF HangUp
  <2>4. CASE TaskFails(c, n)
    <3>1. Admissible(call[c][n], "TASKFAIL", "failed")
      BY <2>4, AdmissibleSteps DEF TaskFails
    <3>2. QED
      BY <2>4, <3>1, RaiseKept DEF TaskFails
  <2>5. QED
    BY <1>4, <2>1, <2>2, <2>3, <2>4
<1>5. QED
  BY <1>2, <1>3, <1>4 DEF Library, Network

\* Taking an event leaves the rest of the channel's queue, and the other queues.
LEMMA KeptTake ==
    ASSUME DeviceTypeOK, ChannelTypeOK, OrderInv, NEW c \in Channels, NEW type, TakeEvent(c, type)
    PROVE  /\ call[c] \in [Crn -> CallState] /\ evq[c] \in Seq(Event)
           /\ Calls[c] \in [Slot -> CallInfo]
           /\ Ordered(call[c], evq[c], Calls[c])
           /\ evq[c] # <<>> /\ Head(evq[c]).type = type
           /\ evq'[c] = Tail(evq[c]) /\ Numbered(evq'[c])
           /\ Ordered(call[c], evq'[c], Calls[c])
           /\ \A d \in Channels \ {c} : evq'[d] = evq[d]
<1>1. /\ call[c] \in [Crn -> CallState] /\ evq[c] \in Seq(Event)
      /\ Calls[c] \in [Slot -> CallInfo]
      /\ Ordered(call[c], evq[c], Calls[c]) /\ Numbered(evq[c])
  BY DEF DeviceTypeOK, ChannelTypeOK, OrderInv
<1>2. /\ evq[c] # <<>> /\ Head(evq[c]).type = type
      /\ evq'[c] = Tail(evq[c])
      /\ \A d \in Channels \ {c} : evq'[d] = evq[d]
  BY DEF TakeEvent, DeviceTypeOK
<1>3. QED
  BY <1>1, <1>2, OrderedTake, NumberedSteps

\* A call that is moved on by the library's functions keeps the order.
LEMMA KeptRequest ==
    ASSUME DeviceTypeOK, ChannelTypeOK, OrderInv, NEW d \in Channels, NEW n,
           evq'[d] = evq[d], Calls'[d] = Calls[d],
           \/ call'[d] = call[d]
           \/ call'[d] = gc_AcceptCall(call[d], n)
           \/ call'[d] = gc_AnswerCall(call[d], n)
           \/ call'[d] = gc_DropCall(call[d], n)
    PROVE  Kept(d)
<1>1. /\ call[d] \in [Crn -> CallState] /\ evq[d] \in Seq(Event)
      /\ Calls[d] \in [Slot -> CallInfo]
      /\ Ordered(call[d], evq[d], Calls[d]) /\ Numbered(evq[d])
      /\ Forward(Calls[d], Calls[d])
  BY OrderedEmpty DEF DeviceTypeOK, ChannelTypeOK, OrderInv
<1>2. Ordered(call'[d], evq[d], Calls[d])
  BY <1>1, OrderedRequest
<1>3. QED
  BY <1>1, <1>2 DEF Kept

\* A handler that stores the state its event stands for, and may move the call on.
LEMMA KeptState ==
    ASSUME DeviceTypeOK, ChannelTypeOK, OrderInv, NEW c \in Channels, NEW type \in Ranked,
           TakeEvent(c, type), NEW state \in SStateSet, Rank[state] = RankOf(type),
           Calls' = [Calls EXCEPT ![c] = WithSState(@, Head(evq[c]).crn, state)],
           NEW n,
           \/ call'[c] = call[c]
           \/ call'[c] = gc_AnswerCall(call[c], n)
           \/ call'[c] = gc_DropCall(call[c], n)
    PROVE  Kept(c)
<1> DEFINE t == WithSState(Calls[c], Head(evq[c]).crn, state)
<1>1. /\ call[c] \in [Crn -> CallState] /\ evq[c] \in Seq(Event)
      /\ Calls[c] \in [Slot -> CallInfo]
      /\ Ordered(call[c], evq[c], Calls[c])
      /\ evq[c] # <<>> /\ Head(evq[c]).type = type
      /\ evq'[c] = Tail(evq[c]) /\ Numbered(evq'[c])
  BY KeptTake
<1>2. Calls'[c] = t
  BY DEF ChannelTypeOK
<1>3. t \in [Slot -> CallInfo]
  <2>1. Head(evq[c]) \in Event
    BY <1>1
  <2>2. Head(evq[c]).crn \in Crn \cup {NoCrn}
    BY <2>1 DEF Event
  <2>3. QED
    BY <1>1, <2>2, SlotsType
<1>4. Ordered(call[c], Tail(evq[c]), t) /\ Forward(Calls[c], t)
  BY <1>1, OrderedState
<1>5. Tail(evq[c]) \in Seq(Event)
  BY <1>1
<1> HIDE DEF t
<1>6. Ordered(call'[c], Tail(evq[c]), t)
  BY <1>1, <1>3, <1>4, <1>5, OrderedRequest
<1>7. QED
  BY <1>1, <1>2, <1>4, <1>6 DEF Kept

\* The handlers both programs share.
LEMMA HandlerKept ==
    ASSUME DeviceTypeOK, ChannelTypeOK, OrderInv, NEW c \in Channels,
           OnLine(c) \/ OnCall(c) \/ OnFailure(c), NEW d \in Channels
    PROVE  Kept(d)
<1>1. CASE d # c
  <2>1. call'[d] = call[d] /\ evq'[d] = evq[d] /\ Calls'[d] = Calls[d]
    BY <1>1 DEF OnLine, OnCall, OnFailure, OnLogged, OnUnblocked, OnUnblockedNoVoice, OnAccept,
                OnDisconnected, OnDropCall, OnReleaseCall, OnResetLineDev, OnTaskFail, TakeEvent,
                channelVars, DeviceTypeOK, ChannelTypeOK
  <2>2. QED
    BY <2>1, KeptElsewhere
<1>2. call \in [Channels -> [Crn -> CallState]] /\ Calls \in [Channels -> [Slot -> CallInfo]]
  BY DEF DeviceTypeOK, ChannelTypeOK
<1>3. CASE OnLine(c)
  <2>1. PICK type : TakeEvent(c, type)
    BY <1>3 DEF OnLine, OnLogged, OnUnblocked, OnUnblockedNoVoice
  <2>2. call' = call /\ Calls' = Calls
    BY <1>3 DEF OnLine, OnLogged, OnUnblocked, OnUnblockedNoVoice, channelVars
  <2>3. Forward(Calls[c], Calls[c])
    BY <2>1, KeptTake, OrderedEmpty
  <2>4. Kept(c)
    BY <2>1, <2>2, <2>3, KeptTake DEF Kept
  <2>5. QED
    BY <1>1, <2>4
<1>4. CASE OnAccept(c)
  <2>1. Rank["ACCEPTED"] = RankOf("ACCEPT") /\ "ACCEPTED" \in SStateSet /\ "ACCEPT" \in Ranked
    BY DEF Rank, RankOf, SStateSet, Ranked
  <2>2. call'[c] = gc_AnswerCall(call[c], Head(evq[c]).crn)
    BY <1>2, <1>4 DEF OnAccept
  <2>3. Kept(c)
    BY <1>4, <2>1, <2>2, KeptState DEF OnAccept
  <2>4. QED
    BY <1>1, <2>3
<1>5. CASE OnDisconnected(c)
  <2>1. /\ Rank["DISCONNECTED"] = RankOf("DISCONNECTED")
        /\ "DISCONNECTED" \in SStateSet /\ "DISCONNECTED" \in Ranked
    BY DEF Rank, RankOf, SStateSet, Ranked
  <2>2. call'[c] = call[c] \/ call'[c] = gc_DropCall(call[c], Head(evq[c]).crn)
    BY <1>2, <1>5 DEF OnDisconnected
  <2>3. Kept(c)
    BY <1>5, <2>1, <2>2, KeptState DEF OnDisconnected
  <2>4. QED
    BY <1>1, <2>3
<1>6. CASE OnDropCall(c)
  <2>1. /\ call'[c] = gc_ReleaseCallEx(call[c], Head(evq[c]).crn)
        /\ Calls'[c] = WithSState(Calls[c], Head(evq[c]).crn, "IDLE")
    BY <1>2, <1>6 DEF OnDropCall
  <2>2. TakeEvent(c, "DROPCALL")
    BY <1>6 DEF OnDropCall
  <2>3. /\ call[c] \in [Crn -> CallState] /\ evq[c] \in Seq(Event)
        /\ Calls[c] \in [Slot -> CallInfo] /\ Ordered(call[c], evq[c], Calls[c])
        /\ evq[c] # <<>> /\ Head(evq[c]).type = "DROPCALL"
        /\ evq'[c] = Tail(evq[c]) /\ Numbered(evq'[c])
    BY <2>2, KeptTake
  <2>4. /\ Ordered(call'[c], Tail(evq[c]), Calls'[c])
        /\ Forward(Calls[c], Calls'[c])
    BY <2>1, <2>3, OrderedRelease
  <2>5. Kept(c)
    BY <2>3, <2>4 DEF Kept
  <2>6. QED
    BY <1>1, <2>5
<1>7. CASE OnReleaseCall(c)
  <2>1. call'[c] = call[c] /\ Calls'[c] = Emptied(Calls[c], Head(evq[c]).crn)
    BY <1>2, <1>7 DEF OnReleaseCall
  <2>2. TakeEvent(c, "RELEASECALL")
    BY <1>7 DEF OnReleaseCall
  <2>3. Tail(evq[c]) \in Seq(Event)
    BY <2>2, KeptTake
  <2>4. /\ Calls'[c] \in [Slot -> CallInfo]
        /\ \A x \in Slot : Calls'[c][x] = Calls[c][x] \/ Calls'[c][x] = NoCall
    BY <1>2, <2>1 DEF Emptied, NoCall, CallInfo, SStateSet
  <2>5. /\ call[c] \in [Crn -> CallState] /\ Calls[c] \in [Slot -> CallInfo]
        /\ Ordered(call[c], Tail(evq[c]), Calls[c])
        /\ evq'[c] = Tail(evq[c]) /\ Numbered(evq'[c])
    BY <2>2, KeptTake
  <2>6. Ordered(call[c], Tail(evq[c]), Calls'[c]) /\ Forward(Calls[c], Calls'[c])
    BY <2>3, <2>4, <2>5, OrderedEmpty
  <2>7. Kept(c)
    BY <2>1, <2>5, <2>6 DEF Kept
  <2>8. QED
    BY <1>1, <2>7
<1>8. CASE OnResetLineDev(c)
  <2>1. call'[c] = call[c] /\ Calls'[c] = [i \in Slot |-> NoCall]
    BY <1>2, <1>8 DEF OnResetLineDev
  <2>2. TakeEvent(c, "RESETLINEDEV")
    BY <1>8 DEF OnResetLineDev
  <2>3. Tail(evq[c]) \in Seq(Event)
    BY <2>2, KeptTake
  <2>4. /\ Calls'[c] \in [Slot -> CallInfo]
        /\ \A x \in Slot : Calls'[c][x] = NoCall
    BY <2>1 DEF NoCall, CallInfo, SStateSet
  <2>5. /\ call[c] \in [Crn -> CallState] /\ Calls[c] \in [Slot -> CallInfo]
        /\ Ordered(call[c], Tail(evq[c]), Calls[c])
        /\ evq'[c] = Tail(evq[c]) /\ Numbered(evq'[c])
    BY <2>2, KeptTake
  <2>6. Ordered(call[c], Tail(evq[c]), Calls'[c]) /\ Forward(Calls[c], Calls'[c])
    BY <2>3, <2>4, <2>5, OrderedEmpty
  <2>7. Kept(c)
    BY <2>1, <2>5, <2>6 DEF Kept
  <2>8. QED
    BY <1>1, <2>7
<1>9. CASE OnTaskFail(c)
  <2>1. call'[c] = Cleared(call[c]) /\ Calls'[c] = Calls[c]
    BY <1>2, <1>9 DEF OnTaskFail, channelVars
  <2>2. TakeEvent(c, "TASKFAIL")
    BY <1>9 DEF OnTaskFail
  <2>3. Tail(evq[c]) \in Seq(Event) /\ Forward(Calls[c], Calls[c])
    BY <2>2, KeptTake, OrderedEmpty
  <2>4. /\ call[c] \in [Crn -> CallState] /\ Calls[c] \in [Slot -> CallInfo]
        /\ Ordered(call[c], Tail(evq[c]), Calls[c])
        /\ evq'[c] = Tail(evq[c]) /\ Numbered(evq'[c])
    BY <2>2, KeptTake
  <2>5. Ordered(Cleared(call[c]), Tail(evq[c]), Calls[c])
    BY <2>3, <2>4, OrderedRequest
  <2>6. Kept(c)
    BY <2>1, <2>3, <2>4, <2>5 DEF Kept
  <2>7. QED
    BY <1>1, <2>6
<1>10. QED
  BY <1>3, <1>4, <1>5, <1>6, <1>7, <1>8, <1>9 DEF OnCall, OnFailure

\* A handler that leaves the slots, and may move a call on.
LEMMA KeptMoved ==
    ASSUME DeviceTypeOK, ChannelTypeOK, OrderInv, NEW c \in Channels, NEW type,
           TakeEvent(c, type), Calls' = Calls, NEW n,
           \/ call' = call
           \/ call' = [call EXCEPT ![c] = gc_AcceptCall(@, n)]
           \/ call' = [call EXCEPT ![c] = gc_AnswerCall(@, n)]
           \/ call' = [call EXCEPT ![c] = gc_DropCall(@, n)],
           NEW d \in Channels
    PROVE  Kept(d)
<1>1. CASE d # c
  <2>1. call'[d] = call[d] /\ evq'[d] = evq[d] /\ Calls'[d] = Calls[d]
    BY <1>1, KeptTake DEF DeviceTypeOK
  <2>2. QED
    BY <2>1, KeptElsewhere
<1>2. CASE d = c
  <2>1. /\ Ordered(call[c], evq'[c], Calls[c]) /\ Numbered(evq'[c])
        /\ call[c] \in [Crn -> CallState] /\ evq'[c] = Tail(evq[c])
        /\ Calls[c] \in [Slot -> CallInfo] /\ Tail(evq[c]) \in Seq(Event)
    BY KeptTake
  <2>2. \/ call'[c] = call[c]
        \/ call'[c] = gc_AcceptCall(call[c], n)
        \/ call'[c] = gc_AnswerCall(call[c], n)
        \/ call'[c] = gc_DropCall(call[c], n)
    BY DEF DeviceTypeOK
  <2>3. Ordered(call'[c], evq'[c], Calls[c])
    <3>1. /\ Ordered(gc_AcceptCall(call[c], n), Tail(evq[c]), Calls[c])
          /\ Ordered(gc_AnswerCall(call[c], n), Tail(evq[c]), Calls[c])
          /\ Ordered(gc_DropCall(call[c], n), Tail(evq[c]), Calls[c])
      BY <2>1, OrderedRequest
    <3>2. QED
      BY <2>1, <2>2, <3>1
  <2>4. Forward(Calls[c], Calls[c])
    BY KeptTake, OrderedEmpty
  <2>5. QED
    BY <1>2, <2>1, <2>3, <2>4 DEF Kept
<1>3. QED
  BY <1>1, <1>2

\* A new call is registered, and may be moved on at once.
LEMMA NewCallKept ==
    ASSUME DeviceTypeOK, ChannelTypeOK, OrderInv, NEW c \in Channels, NewCall(c), NEW n,
           \/ call' = call
           \/ call' = [call EXCEPT ![c] = gc_CallAck(@, n)]
           \/ call' = [call EXCEPT ![c] = gc_AcceptCall(@, n)]
           \/ call' = [call EXCEPT ![c] = gc_AnswerCall(@, n)]
           \/ call' = [call EXCEPT ![c] = gc_DropCall(@, n)],
           NEW d \in Channels
    PROVE  Kept(d)
<1> DEFINE t == RegNewCall(Calls[c], Head(evq[c]).crn, "OFFERED")
<1>1. TakeEvent(c, "OFFERED")
  BY DEF NewCall
<1>2. CASE d # c
  <2>1. call'[d] = call[d] /\ evq'[d] = evq[d] /\ Calls'[d] = Calls[d]
    BY <1>1, <1>2, KeptTake DEF NewCall, DeviceTypeOK, ChannelTypeOK
  <2>2. QED
    BY <2>1, KeptElsewhere
<1>3. CASE d = c
  <2>1. Calls'[c] = t
    BY DEF NewCall, ChannelTypeOK
  <2>2. /\ Ordered(call[c], Tail(evq[c]), t) /\ Forward(Calls[c], t)
        /\ call[c] \in [Crn -> CallState] /\ Tail(evq[c]) \in Seq(Event)
        /\ evq'[c] = Tail(evq[c]) /\ Numbered(evq'[c])
    BY <1>1, KeptTake, OrderedRegister
  <2>3. t \in [Slot -> CallInfo]
    <3>1. Head(evq[c]) \in Event /\ Calls[c] \in [Slot -> CallInfo]
      BY <1>1, KeptTake
    <3>2. [crn |-> Head(evq[c]).crn, SState |-> "OFFERED"] \in CallInfo
      BY <3>1 DEF Event, CallInfo, SStateSet
    <3>3. \A i \in Slot : i = 0 \/ i - 1 \in Slot
      BY DEF Slot, MAX_CALLS
    <3>4. QED
      BY <3>1, <3>2, <3>3 DEF RegNewCall
  <2>4. \/ call'[c] = call[c]
        \/ call'[c] = gc_CallAck(call[c], n)
        \/ call'[c] = gc_AcceptCall(call[c], n)
        \/ call'[c] = gc_AnswerCall(call[c], n)
        \/ call'[c] = gc_DropCall(call[c], n)
    BY DEF DeviceTypeOK
  <2> HIDE DEF t
  <2>5. Ordered(call'[c], Tail(evq[c]), t)
    <3>1. /\ Ordered(gc_CallAck(call[c], n), Tail(evq[c]), t)
          /\ Ordered(gc_AcceptCall(call[c], n), Tail(evq[c]), t)
          /\ Ordered(gc_AnswerCall(call[c], n), Tail(evq[c]), t)
          /\ Ordered(gc_DropCall(call[c], n), Tail(evq[c]), t)
      BY <2>2, <2>3, OrderedRequest
    <3>2. QED
      BY <2>2, <2>4, <3>1
  <2>6. QED
    BY <1>3, <2>1, <2>2, <2>5 DEF Kept
<1>4. QED
  BY <1>2, <1>3

\* The signal handler and the closing of lines.
LEMMA EndingKept ==
    ASSUME DeviceTypeOK, ChannelTypeOK, OrderInv, intr_hdlr \/ CloseIdleLines, NEW d \in Channels
    PROVE  Kept(d)
<1>1. CASE intr_hdlr
  <2>1. /\ evq'[d] = evq[d] /\ Calls'[d] = Calls[d]
        /\ call'[d] = call[d] \/ call'[d] = gc_DropCall(call[d], Calls[d][0].crn)
    BY <1>1 DEF intr_hdlr
  <2>2. QED
    BY <2>1, KeptRequest
<1>2. CASE CloseIdleLines /\ ~Closable(d)
  <2>1. evq'[d] = evq[d] /\ Calls'[d] = Calls[d] /\ call'[d] = call[d]
    BY <1>2 DEF CloseIdleLines
  <2>2. QED
    BY <2>1, KeptElsewhere
<1>3. CASE CloseIdleLines /\ Closable(d)
  <2>1. evq'[d] = <<>> /\ Calls'[d] = Calls[d] /\ call'[d] = Cleared(call[d])
    BY <1>3 DEF CloseIdleLines
  <2>2. /\ call[d] \in [Crn -> CallState] /\ evq[d] \in Seq(Event)
        /\ Calls[d] \in [Slot -> CallInfo]
        /\ Ordered(call[d], evq[d], Calls[d])
    BY DEF DeviceTypeOK, ChannelTypeOK, OrderInv
  <2>3. Ordered(Cleared(call[d]), evq[d], Calls[d]) /\ Forward(Calls[d], Calls[d])
    BY <2>2, OrderedRequest, OrderedEmpty
  <2>4. Len(<<>>) = 0 /\ \A i \in 1..Len(<<>>) : FALSE
    OBVIOUS
  <2>5. \A n \in Crn : Gone(Cleared(call[d]), <<>>, n) => Gone(Cleared(call[d]), evq[d], n)
    BY <2>4 DEF Gone
  <2>6. Ordered(Cleared(call[d]), <<>>, Calls[d]) /\ Numbered(<<>>)
    BY <2>3, <2>4, <2>5 DEF Ordered, EventsOrdered, SlotsOrdered, Numbered
  <2>7. QED
    BY <2>1, <2>3, <2>6 DEF Kept
<1>4. QED
  BY <1>1, <1>2, <1>3

\* InitChannels.
LEMMA OrderInit == DeviceInit /\ ChannelInit => OrderInv
<1> SUFFICES ASSUME DeviceInit, ChannelInit, NEW c \in Channels
             PROVE  Ordered(call[c], evq[c], Calls[c]) /\ Numbered(evq[c])
  BY DEF OrderInv
<1>1. /\ call[c] = [n \in Crn |-> "none"] /\ evq[c] = <<>>
      /\ Calls[c] = [i \in Slot |-> NoCall]
  BY DEF DeviceInit, ChannelInit
<1>2. Len(<<>>) = 0 /\ \A i \in 1..Len(<<>>) : FALSE
  OBVIOUS
<1>3. NoCall.crn = NoCrn /\ NoCrn \notin Crn /\ 0 \in Slot
  BY DEF NoCall, NoCrn, Crn, Slot, MAX_CALLS
<1>4. QED
  BY <1>1, <1>2, <1>3 DEF Ordered, EventsOrdered, SlotsOrdered, Numbered

\* The order of the events makes the release of a call follow its drop.
LEMMA OrderImplies == DeviceTypeOK /\ ChannelTypeOK /\ OrderInv => ReleaseFollowsDrop
<1> SUFFICES ASSUME DeviceTypeOK, ChannelTypeOK, OrderInv, NEW c \in Channels,
                    evq[c] # <<>>, Head(evq[c]).type = "RELEASECALL",
                    NEW i \in Slot, Calls[c][i].crn = Head(evq[c]).crn
             PROVE  Calls[c][i].SState = "IDLE"
  BY DEF ReleaseFollowsDrop
<1>1. /\ evq[c] \in Seq(Event) /\ Calls[c] \in [Slot -> CallInfo]
      /\ Ordered(call[c], evq[c], Calls[c]) /\ Numbered(evq[c])
  BY DEF DeviceTypeOK, ChannelTypeOK, OrderInv
<1>2. 1 \in 1..Len(evq[c]) /\ Head(evq[c]) = evq[c][1]
  BY <1>1
<1>3. Calls[c][i].crn \in Crn
  BY <1>1, <1>2 DEF Numbered, CallInfo
<1>4. Gone(call[c], evq[c], Calls[c][i].crn)
  BY <1>2 DEF Gone
<1>5. QED
  BY <1>1, <1>3, <1>4 DEF Ordered, SlotsOrdered

-----------------------------------------------------------------------------
(* The calls in progress are counted. *)

\* An event of this type is queued for call n.
Holds(q, type, n) == \E i \in 1..Len(q) : q[i].type = type /\ q[i].crn = n

\* InProgress, of a line with these calls and events.
Going(k, q) ==
    {n \in Crn : \/ k[n] \in Live /\ ~Holds(q, "OFFERED", n)
                 \/ k[n] = "released" /\ Holds(q, "RELEASECALL", n)}

\* What is offered is a call, and a release is announced once, of a call that is released.
ReleasedOnce(k, q) ==
    \A i \in 1..Len(q) :
        /\ q[i].type = "OFFERED" => q[i].crn \in Crn
        /\ q[i].type = "RELEASECALL" =>
               /\ q[i].crn \in Crn /\ k[q[i].crn] = "released"
               /\ \A j \in 1..Len(q) :
                      (i < j /\ q[j].type = "RELEASECALL") => q[i].crn # q[j].crn

\* No call is over before the program has seen it.
SeenBeforeOver(k, q) == \A n \in Crn : k[n] = "released" => ~Holds(q, "OFFERED", n)

\* No request has failed that the program has not heard of.
NoFailure(q) == \A i \in 1..Len(q) : q[i].type # "TASKFAIL"

\* No fault so far, and no line is being closed.
Quiet == spent["fault"] = 0 /\ ~interrupted

\* What StUsedCounts counts.
Counted == {t \in Channels \X Crn : t[2] \in InProgress(t[1])}

\* StUsedCounts made inductive: the queue of each channel, and the count.
QueueInv ==
    \A c \in Channels :
        /\ ReleasedOnce(call[c], evq[c])
        /\ spent["fault"] = 0 => NoFailure(evq[c])
        /\ Quiet => SeenBeforeOver(call[c], evq[c])

CountInv ==
    /\ QueueInv
    /\ IsFiniteSet(Counted)
    /\ stUsed >= Cardinality(Counted)
    /\ Quiet => stUsed = Cardinality(Counted)

\* What is taken from a queue was its first event.
LEMMA HoldsTail ==
    ASSUME NEW q \in Seq(Event), q # <<>>, NEW type, NEW n
    PROVE  Holds(q, type, n) <=>
               Holds(Tail(q), type, n) \/ (Head(q).type = type /\ Head(q).crn = n)
<1>1. /\ Len(q) \in Nat /\ Len(q) > 0 /\ Len(Tail(q)) = Len(q) - 1 /\ Head(q) = q[1]
      /\ \A i \in 1..Len(Tail(q)) : Tail(q)[i] = q[i + 1] /\ i + 1 \in 1..Len(q)
  OBVIOUS
<1>2. ASSUME Holds(q, type, n)
      PROVE  Holds(Tail(q), type, n) \/ (Head(q).type = type /\ Head(q).crn = n)
  <2>1. PICK i \in 1..Len(q) : q[i].type = type /\ q[i].crn = n
    BY <1>2 DEF Holds
  <2>2. CASE i = 1
    BY <1>1, <2>1, <2>2
  <2>3. CASE i # 1
    <3>1. i - 1 \in 1..Len(Tail(q)) /\ Tail(q)[i - 1] = q[i]
      BY <1>1, <2>3
    <3>2. QED
      BY <2>1, <3>1 DEF Holds
  <2>4. QED
    BY <2>2, <2>3
<1>3. Holds(Tail(q), type, n) => Holds(q, type, n)
  BY <1>1 DEF Holds
<1>4. 1 \in 1..Len(q)
  BY <1>1
<1>5. QED
  BY <1>1, <1>2, <1>3, <1>4 DEF Holds

\* What is added to a queue is its last event.
LEMMA HoldsAppend ==
    ASSUME NEW q \in Seq(Event), NEW e, NEW type, NEW n
    PROVE  Holds(Append(q, e), type, n) <=>
               Holds(q, type, n) \/ (e.type = type /\ e.crn = n)
<1>1. /\ Len(q) \in Nat /\ Len(Append(q, e)) = Len(q) + 1
      /\ \A i \in 1..Len(q) : Append(q, e)[i] = q[i]
      /\ Append(q, e)[Len(q) + 1] = e
  OBVIOUS
<1>2. \A i \in 1..Len(Append(q, e)) : i \in 1..Len(q) \/ i = Len(q) + 1
  BY <1>1
<1>3. Len(q) + 1 \in 1..Len(Append(q, e)) /\ \A i \in 1..Len(q) : i \in 1..Len(Append(q, e))
  BY <1>1
<1>4. Holds(Append(q, e), type, n) => Holds(q, type, n) \/ (e.type = type /\ e.crn = n)
  BY <1>1, <1>2 DEF Holds
<1>5. QED
  BY <1>1, <1>3, <1>4 DEF Holds

\* Moving calls on, without ending or reviving one, keeps what is counted.
LEMMA GoingRequest ==
    ASSUME NEW k \in [Crn -> CallState], NEW q \in Seq(Event), NEW l \in [Crn -> CallState],
           \A n \in Crn : l[n] = k[n] \/ (k[n] \in Live /\ l[n] \in Live)
    PROVE  /\ Going(l, q) = Going(k, q)
           /\ ReleasedOnce(k, q) => ReleasedOnce(l, q)
           /\ SeenBeforeOver(k, q) => SeenBeforeOver(l, q)
<1>1. "released" \notin Live
  BY DEF Live, Droppable, Talking
<1>2. \A n \in Crn : (l[n] \in Live <=> k[n] \in Live) /\ (l[n] = "released" <=> k[n] = "released")
  BY <1>1
<1>3. Going(l, q) = Going(k, q)
  BY <1>2 DEF Going
<1>4. ReleasedOnce(k, q) => ReleasedOnce(l, q)
  BY <1>2 DEF ReleasedOnce
<1>5. QED
  BY <1>2, <1>3, <1>4 DEF SeenBeforeOver

\* The functions of the library do that.
LEMMA RequestsMove ==
    ASSUME NEW k \in [Crn -> CallState], NEW m,
           NEW l \in {k, gc_CallAck(k, m), gc_AcceptCall(k, m), gc_AnswerCall(k, m),
                      gc_DropCall(k, m), gc_ReleaseCallEx(k, m)}
    PROVE  /\ l \in [Crn -> CallState]
           /\ \A n \in Crn : l[n] = k[n] \/ (k[n] \in Live /\ l[n] \in Live)
<1>1. l \in [Crn -> CallState]
  BY RequestType
<1>2. \A from, to, n : (from \subseteq Live /\ to \in Live /\ n \in Crn) =>
          LET r == Request(k, m, from, to) IN r[n] = k[n] \/ (k[n] \in Live /\ r[n] \in Live)
  BY DEF Request
<1>3. /\ {"offered"} \subseteq Live /\ Unanswered \subseteq Live /\ {"idle"} \subseteq Live
      /\ Unanswered \ {"accepted"} \subseteq Live /\ Droppable \subseteq Live
      /\ {"acking", "accepting", "answering", "dropping", "releasing"} \subseteq Live
  BY DEF Live, Droppable, Talking, Unanswered
<1>4. QED
  BY <1>1, <1>2, <1>3
     DEF gc_CallAck, gc_AcceptCall, gc_AnswerCall, gc_DropCall, gc_ReleaseCallEx

\* Resetting or closing a line only ends calls.
LEMMA GoingCleared ==
    ASSUME NEW k \in [Crn -> CallState], NEW q \in Seq(Event), ReleasedOnce(k, q)
    PROVE  /\ Going(Cleared(k), q) \subseteq Going(k, q)
           /\ Going(Cleared(k), <<>>) = {}
           /\ ReleasedOnce(Cleared(k), q)
<1>1. \A n \in Crn : /\ Cleared(k)[n] \notin Live
                     /\ k[n] = "released" => Cleared(k)[n] = "released"
  BY DEF Cleared, Live, Droppable, Talking
<1>2. \A n \in Crn : Holds(q, "RELEASECALL", n) => k[n] = "released"
  BY DEF Holds, ReleasedOnce
<1>3. \A type, n : ~Holds(<<>>, type, n)
  BY DEF Holds
<1>4. Going(Cleared(k), q) \subseteq Going(k, q)
  BY <1>1, <1>2 DEF Going
<1>5. Going(Cleared(k), <<>>) = {}
  BY <1>1, <1>3 DEF Going
<1>6. ReleasedOnce(Cleared(k), q)
  BY <1>1 DEF ReleasedOnce
<1>7. QED
  BY <1>4, <1>5, <1>6

\* An event that neither offers nor ends a call leaves what is counted.
LEMMA GoingRaise ==
    ASSUME NEW k \in [Crn -> CallState], NEW q \in Seq(Event), NEW e \in Event,
           e.type \notin {"OFFERED", "RELEASECALL"}
    PROVE  /\ Going(k, Append(q, e)) = Going(k, q)
           /\ ReleasedOnce(k, q) => ReleasedOnce(k, Append(q, e))
           /\ SeenBeforeOver(k, q) => SeenBeforeOver(k, Append(q, e))
<1>1. \A n : /\ Holds(Append(q, e), "OFFERED", n) <=> Holds(q, "OFFERED", n)
             /\ Holds(Append(q, e), "RELEASECALL", n) <=> Holds(q, "RELEASECALL", n)
  BY HoldsAppend
<1>2. Going(k, Append(q, e)) = Going(k, q)
  BY <1>1 DEF Going
<1>3. SeenBeforeOver(k, q) => SeenBeforeOver(k, Append(q, e))
  BY <1>1 DEF SeenBeforeOver
<1>4. ASSUME ReleasedOnce(k, q) PROVE ReleasedOnce(k, Append(q, e))
  <2>1. /\ Len(q) \in Nat /\ Len(Append(q, e)) = Len(q) + 1
        /\ \A i \in 1..Len(Append(q, e)) :
               Append(q, e)[i] = IF i = Len(q) + 1 THEN e ELSE q[i]
    OBVIOUS
  <2>2. \A i \in 1..Len(Append(q, e)) : i \in 1..Len(q) \/ i = Len(q) + 1
    BY <2>1
  <2>3. QED
    BY <1>4, <2>1, <2>2 DEF ReleasedOnce
<1>5. QED
  BY <1>2, <1>3, <1>4

\* What a queue holds after its first event was taken, it held before.
LEMMA ReleasedTail ==
    ASSUME NEW k \in [Crn -> CallState], NEW q \in Seq(Event), q # <<>>
    PROVE  /\ ReleasedOnce(k, q) => ReleasedOnce(k, Tail(q))
           /\ SeenBeforeOver(k, q) => SeenBeforeOver(k, Tail(q))
           /\ NoFailure(q) => NoFailure(Tail(q)) /\ Head(q).type # "TASKFAIL"
<1>1. /\ Len(q) \in Nat /\ Len(q) > 0 /\ Len(Tail(q)) = Len(q) - 1 /\ Head(q) = q[1]
      /\ \A i \in 1..Len(Tail(q)) : Tail(q)[i] = q[i + 1] /\ i + 1 \in 1..Len(q)
  OBVIOUS
<1>2. ASSUME ReleasedOnce(k, q) PROVE ReleasedOnce(k, Tail(q))
  <2>1. \A i, j \in 1..Len(Tail(q)) : i < j => i + 1 < j + 1
    BY <1>1
  <2>2. QED
    BY <1>1, <1>2, <2>1 DEF ReleasedOnce
<1>3. SeenBeforeOver(k, q) => SeenBeforeOver(k, Tail(q))
  BY HoldsTail DEF SeenBeforeOver
<1>4. NoFailure(q) => NoFailure(Tail(q)) /\ Head(q).type # "TASKFAIL"
  BY <1>1 DEF NoFailure
<1>5. QED
  BY <1>2, <1>3, <1>4

\* Taking an event that neither offers nor ends a call leaves what is counted; taking a
\* release uncounts its call; taking an offer counts its call, unless it is over by then.
LEMMA GoingTake ==
    ASSUME NEW k \in [Crn -> CallState], NEW q \in Seq(Event), q # <<>>,
           EventsOrdered(k, q), ReleasedOnce(k, q)
    PROVE  LET n == Head(q).crn
           IN  /\ Head(q).type \notin {"OFFERED", "RELEASECALL"} => Going(k, Tail(q)) = Going(k, q)
               /\ Head(q).type = "RELEASECALL" =>
                      n \in Going(k, q) /\ Going(k, Tail(q)) = Going(k, q) \ {n}
               /\ (Head(q).type = "OFFERED" /\ n \in Crn) =>
                      /\ n \notin Going(k, q)
                      /\ Going(k, Tail(q)) \subseteq Going(k, q) \cup {n}
                      /\ SeenBeforeOver(k, q) => Going(k, Tail(q)) = Going(k, q) \cup {n}
<1> DEFINE n == Head(q).crn
<1>1. /\ Len(q) \in Nat /\ Len(q) > 0 /\ Len(Tail(q)) = Len(q) - 1 /\ Head(q) = q[1]
      /\ \A i \in 1..Len(Tail(q)) : Tail(q)[i] = q[i + 1] /\ i + 1 \in 1..Len(q) /\ 1 < i + 1
      /\ 1 \in 1..Len(q) /\ Tail(q) \in Seq(Event)
  OBVIOUS
<1>2. \A type, m : Holds(q, type, m) <=>
          Holds(Tail(q), type, m) \/ (Head(q).type = type /\ n = m)
  BY HoldsTail
<1>3. ASSUME Head(q).type \notin {"OFFERED", "RELEASECALL"}
      PROVE  Going(k, Tail(q)) = Going(k, q)
  BY <1>2, <1>3 DEF Going
<1>4. ASSUME Head(q).type = "RELEASECALL"
      PROVE  n \in Going(k, q) /\ Going(k, Tail(q)) = Going(k, q) \ {n}
  <2>1. n \in Crn /\ k[n] = "released" /\ k[n] \notin Live
    BY <1>1, <1>4 DEF ReleasedOnce, Live, Droppable, Talking
  <2>2. ~Holds(Tail(q), "RELEASECALL", n)
    BY <1>1, <1>4 DEF Holds, ReleasedOnce
  <2>3. QED
    BY <1>2, <1>4, <2>1, <2>2 DEF Going
<1>5. ASSUME Head(q).type = "OFFERED", n \in Crn
      PROVE  /\ n \notin Going(k, q)
             /\ Going(k, Tail(q)) \subseteq Going(k, q) \cup {n}
             /\ SeenBeforeOver(k, q) => Going(k, Tail(q)) = Going(k, q) \cup {n}
  <2>1. About(q, 1, n) /\ Holds(q, "OFFERED", n)
    BY <1>1, <1>5 DEF About, Ranked, Holds
  <2>2. k[n] # "none" /\ ~Gone(k, q, n)
    BY <1>1, <1>5, <2>1 DEF EventsOrdered
  <2>3. ~Holds(q, "RELEASECALL", n)
    BY <2>2 DEF Gone, Holds
  <2>4. n \notin Going(k, q)
    BY <2>1, <2>3 DEF Going
  <2>5. ~Holds(Tail(q), "OFFERED", n)
    BY <1>1, <1>5, <2>1 DEF Holds, EventsOrdered, About, Ranked
  <2>6. \A m \in Crn : m # n => (m \in Going(k, Tail(q)) <=> m \in Going(k, q))
    BY <1>2, <1>5 DEF Going
  <2>7. SeenBeforeOver(k, q) => n \in Going(k, Tail(q))
    BY <1>5, <2>1, <2>2, <2>5 DEF SeenBeforeOver, Going, CallState
  <2>8. Going(k, Tail(q)) \subseteq Crn /\ Going(k, q) \subseteq Crn
    BY DEF Going
  <2>9. QED
    BY <1>5, <2>4, <2>6, <2>7, <2>8
<1>6. QED
  BY <1>3, <1>4, <1>5

\* Offering a call does not count it yet.
LEMMA GoingOffer ==
    ASSUME NEW k \in [Crn -> CallState], NEW q \in Seq(Event), NEW n \in Crn, k[n] = "none",
           ReleasedOnce(k, q)
    PROVE  /\ Going([k EXCEPT ![n] = "offered"], Append(q, [type |-> "OFFERED", crn |-> n])) = Going(k, q)
           /\ ReleasedOnce([k EXCEPT ![n] = "offered"], Append(q, [type |-> "OFFERED", crn |-> n]))
           /\ SeenBeforeOver(k, q) =>
                  SeenBeforeOver([k EXCEPT ![n] = "offered"], Append(q, [type |-> "OFFERED", crn |-> n]))
<1> DEFINE e == [type |-> "OFFERED", crn |-> n]
           l == [k EXCEPT ![n] = "offered"]
           p == Append(q, e)
<1>1. /\ Len(q) \in Nat /\ Len(p) = Len(q) + 1
      /\ \A i \in 1..Len(p) : p[i] = IF i = Len(q) + 1 THEN e ELSE q[i]
      /\ \A i \in 1..Len(p) : i \in 1..Len(q) \/ i = Len(q) + 1
  OBVIOUS
<1>2. \A type, m : Holds(p, type, m) <=> Holds(q, type, m) \/ (type = "OFFERED" /\ m = n)
  BY HoldsAppend
<1>3. l[n] = "offered" /\ \A m \in Crn : m # n => l[m] = k[m]
  OBVIOUS
<1>4. Going(l, p) = Going(k, q)
  <2>1. n \notin Going(k, q)
    BY DEF Going, Live, Droppable, Talking
  <2>2. n \notin Going(l, p)
    BY <1>2, <1>3 DEF Going
  <2>3. \A m \in Crn : m # n => (m \in Going(l, p) <=> m \in Going(k, q))
    BY <1>2, <1>3 DEF Going
  <2>4. Going(l, p) \subseteq Crn /\ Going(k, q) \subseteq Crn
    BY DEF Going
  <2>5. \A m : m \in Going(l, p) <=> m \in Going(k, q)
    BY <2>1, <2>2, <2>3, <2>4
  <2> HIDE DEF l, p
  <2>6. QED
    BY <2>5
<1>5. ReleasedOnce(l, p)
  <2>1. \A i \in 1..Len(q) : q[i].type = "RELEASECALL" => q[i].crn # n
    BY DEF ReleasedOnce
  <2>2. \A i \in 1..Len(p) : p[i].type = "RELEASECALL" => i \in 1..Len(q) /\ p[i] = q[i]
    BY <1>1
  <2>3. QED
    BY <1>3, <2>1, <2>2 DEF ReleasedOnce
<1>6. SeenBeforeOver(k, q) => SeenBeforeOver(l, p)
  BY <1>2, <1>3 DEF SeenBeforeOver
<1>7. QED
  BY <1>4, <1>5, <1>6

\* A release that completes stays counted until its event is taken.
LEMMA GoingRelease ==
    ASSUME NEW k \in [Crn -> CallState], NEW q \in Seq(Event), NEW n \in Crn,
           k[n] = "releasing", EventsOrdered(k, q), ReleasedOnce(k, q)
    PROVE  /\ Going([k EXCEPT ![n] = "released"], Append(q, [type |-> "RELEASECALL", crn |-> n])) = Going(k, q)
           /\ ReleasedOnce([k EXCEPT ![n] = "released"], Append(q, [type |-> "RELEASECALL", crn |-> n]))
           /\ SeenBeforeOver(k, q) =>
                  SeenBeforeOver([k EXCEPT ![n] = "released"], Append(q, [type |-> "RELEASECALL", crn |-> n]))
<1> DEFINE e == [type |-> "RELEASECALL", crn |-> n]
           l == [k EXCEPT ![n] = "released"]
           p == Append(q, e)
<1>1. /\ Len(q) \in Nat /\ Len(p) = Len(q) + 1
      /\ \A i \in 1..Len(p) : p[i] = IF i = Len(q) + 1 THEN e ELSE q[i]
      /\ \A i \in 1..Len(p) : i \in 1..Len(q) \/ i = Len(q) + 1
  OBVIOUS
<1>2. \A type, m : Holds(p, type, m) <=> Holds(q, type, m) \/ (type = "RELEASECALL" /\ m = n)
  BY HoldsAppend
<1>3. l[n] = "released" /\ \A m \in Crn : m # n => l[m] = k[m]
  OBVIOUS
<1>4. ~Holds(q, "OFFERED", n)
  BY DEF EventsOrdered, Gone, About, Ranked, Holds
<1>5. Going(l, p) = Going(k, q)
  <2>1. n \in Going(k, q)
    BY <1>4 DEF Going, Live
  <2>2. n \in Going(l, p)
    BY <1>2, <1>3 DEF Going
  <2>3. \A m \in Crn : m # n => (m \in Going(l, p) <=> m \in Going(k, q))
    BY <1>2, <1>3 DEF Going
  <2>4. Going(l, p) \subseteq Crn /\ Going(k, q) \subseteq Crn
    BY DEF Going
  <2>5. \A m : m \in Going(l, p) <=> m \in Going(k, q)
    BY <2>1, <2>2, <2>3, <2>4
  <2> HIDE DEF l, p
  <2>6. QED
    BY <2>5
<1>6. ReleasedOnce(l, p)
  <2>1. \A i \in 1..Len(q) : q[i].type = "RELEASECALL" => q[i].crn # n
    BY DEF ReleasedOnce
  <2>2. \A i \in 1..Len(p) : \/ i = Len(q) + 1 /\ p[i] = e
                             \/ i # Len(q) + 1 /\ i \in 1..Len(q) /\ p[i] = q[i]
    BY <1>1
  <2>3. \A i \in 1..Len(p) : p[i].type = "RELEASECALL" => p[i].crn \in Crn /\ l[p[i].crn] = "released"
    BY <1>3, <2>2 DEF ReleasedOnce
  <2>4. ASSUME NEW i \in 1..Len(p), NEW j \in 1..Len(p), i < j,
               p[i].type = "RELEASECALL", p[j].type = "RELEASECALL"
        PROVE  p[i].crn # p[j].crn
    <3>1. i # Len(q) + 1 /\ i \in 1..Len(q) /\ p[i] = q[i]
      BY <1>1, <2>2, <2>4
    <3>2. CASE j = Len(q) + 1
      BY <1>1, <2>1, <2>4, <3>1, <3>2
    <3>3. CASE j # Len(q) + 1
      BY <2>2, <2>4, <3>1, <3>3 DEF ReleasedOnce
    <3>4. QED
      BY <3>2, <3>3
  <2>5. QED
    BY <2>3, <2>4 DEF ReleasedOnce
<1>7. SeenBeforeOver(k, q) => SeenBeforeOver(l, p)
  BY <1>2, <1>3, <1>4 DEF SeenBeforeOver
<1>8. QED
  BY <1>5, <1>6, <1>7

-----------------------------------------------------------------------------
(* The steps that keep the count. *)

\* What the steps of a program must show of every channel: its queue stays sound ...
Sound(c) ==
    /\ ReleasedOnce(call'[c], evq'[c])
    /\ spent'["fault"] = 0 => NoFailure(evq'[c])
    /\ Quiet' => SeenBeforeOver(call'[c], evq'[c])

\* ... and, if nothing is counted or uncounted, the calls in progress stay.
Steady(c) == Sound(c) /\ Going(call'[c], evq'[c]) = Going(call[c], evq[c])

\* Faults and the signal are not undone.
Later == (spent'["fault"] = 0 => spent["fault"] = 0) /\ (Quiet' => Quiet)

\* Spending keeps them.
LEMMA SpendLater ==
    ASSUME DeviceTypeOK, spent' = spent \/ (\E b \in Budget : Spend(b)),
           interrupted => interrupted'
    PROVE  Later
<1>1. spent["fault"] \in Nat /\ spent \in [Budget -> Nat] /\ "fault" \in Budget
  BY DEF DeviceTypeOK, Budget
<1>2. spent'["fault"] \in {spent["fault"], spent["fault"] + 1}
  BY <1>1 DEF Spend
<1>3. QED
  BY <1>1, <1>2 DEF Later, Quiet

\* A channel where at most a call is moved on and an event is taken that neither offers
\* nor ends one.
LEMMA SteadyMove ==
    ASSUME DeviceTypeOK, OrderInv, QueueInv, Later, NEW d \in Channels, NEW m,
           call'[d] \in {call[d], gc_CallAck(call[d], m), gc_AcceptCall(call[d], m),
                         gc_AnswerCall(call[d], m), gc_DropCall(call[d], m),
                         gc_ReleaseCallEx(call[d], m)},
           \/ evq'[d] = evq[d]
           \/ /\ evq[d] # <<>> /\ evq'[d] = Tail(evq[d])
              /\ Head(evq[d]).type \notin {"OFFERED", "RELEASECALL"}
    PROVE  Steady(d)
<1> DEFINE k == call[d]
           q == evq[d]
<1>1. k \in [Crn -> CallState] /\ q \in Seq(Event)
  BY DEF DeviceTypeOK
<1>2. /\ ReleasedOnce(k, q) /\ EventsOrdered(k, q)
      /\ spent["fault"] = 0 => NoFailure(q)
      /\ Quiet => SeenBeforeOver(k, q)
  BY DEF QueueInv, OrderInv, Ordered
<1>3. /\ call'[d] \in [Crn -> CallState]
      /\ \A n \in Crn : call'[d][n] = k[n] \/ (k[n] \in Live /\ call'[d][n] \in Live)
  BY <1>1, RequestsMove
<1>4. /\ evq'[d] \in Seq(Event) /\ Going(k, evq'[d]) = Going(k, q)
      /\ ReleasedOnce(k, evq'[d])
      /\ spent["fault"] = 0 => NoFailure(evq'[d])
      /\ Quiet => SeenBeforeOver(k, evq'[d])
  <2>1. CASE evq'[d] = q
    BY <1>1, <1>2, <2>1
  <2>2. CASE q # <<>> /\ evq'[d] = Tail(q) /\ Head(q).type \notin {"OFFERED", "RELEASECALL"}
    <3>1. Tail(q) \in Seq(Event)
      BY <1>1, <2>2
    <3>2. Going(k, Tail(q)) = Going(k, q)
      BY <1>1, <1>2, <2>2, GoingTake
    <3>3. /\ ReleasedOnce(k, Tail(q))
          /\ NoFailure(q) => NoFailure(Tail(q))
          /\ SeenBeforeOver(k, q) => SeenBeforeOver(k, Tail(q))
      BY <1>1, <1>2, <2>2, ReleasedTail
    <3>4. QED
      BY <1>2, <2>2, <3>1, <3>2, <3>3
  <2>3. QED
    BY <2>1, <2>2
<1>5. /\ Going(call'[d], evq'[d]) = Going(k, evq'[d])
      /\ ReleasedOnce(call'[d], evq'[d])
      /\ SeenBeforeOver(k, evq'[d]) => SeenBeforeOver(call'[d], evq'[d])
  BY <1>1, <1>3, <1>4, GoingRequest
<1>6. QED
  BY <1>4, <1>5 DEF Steady, Sound, Later

\* InProgress is what goes on, before and after a step.
LEMMA InProgressIs ==
    ASSUME DeviceTypeOK, DeviceTypeOK', NEW c \in Channels
    PROVE  /\ InProgress(c) = Going(call[c], evq[c])
           /\ InProgress(c)' = Going(call'[c], evq'[c])
<1>1. ASSUME NEW q \in Seq(Event), NEW type, NEW n
      PROVE  (\E i \in 1..Len(q) : q[i] = [type |-> type, crn |-> n]) <=> Holds(q, type, n)
  <2>1. \A i \in 1..Len(q) : q[i] \in Event
    OBVIOUS
  <2>2. \A e \in Event : e = [type |-> type, crn |-> n] <=> e.type = type /\ e.crn = n
    BY DEF Event
  <2>3. QED
    BY <2>1, <2>2 DEF Holds
<1>2. evq[c] \in Seq(Event) /\ evq'[c] \in Seq(Event)
  BY DEF DeviceTypeOK
<1>3. InProgress(c) = Going(call[c], evq[c])
  BY <1>1, <1>2 DEF InProgress, Queued, Going
<1>4. InProgress(c)' = Going(call'[c], evq'[c])
  BY <1>1, <1>2 DEF InProgress, Queued, Going
<1>5. QED
  BY <1>3, <1>4

\* What is counted, channel by channel.
LEMMA CountedIs ==
    ASSUME DeviceTypeOK, DeviceTypeOK'
    PROVE  /\ Counted = {t \in Channels \X Crn : t[2] \in Going(call[t[1]], evq[t[1]])}
           /\ Counted' = {t \in Channels \X Crn : t[2] \in Going(call'[t[1]], evq'[t[1]])}
<1>1. \A t \in Channels \X Crn : t[1] \in Channels
  OBVIOUS
<1>2. \A t \in Channels \X Crn :
          /\ InProgress(t[1]) = Going(call[t[1]], evq[t[1]])
          /\ InProgress(t[1])' = Going(call'[t[1]], evq'[t[1]])
  BY <1>1, InProgressIs
<1>3. Counted = {t \in Channels \X Crn : t[2] \in Going(call[t[1]], evq[t[1]])}
  BY <1>2 DEF Counted
<1>4. Counted' = {t \in Channels \X Crn : t[2] \in Going(call'[t[1]], evq'[t[1]])}
  BY <1>2 DEF Counted
<1>5. QED
  BY <1>3, <1>4

\* Nothing is counted or uncounted.
LEMMA CountSteady ==
    ASSUME DeviceTypeOK, DeviceTypeOK', CountInv, Later, stUsed' = stUsed,
           \A c \in Channels : Steady(c)
    PROVE  CountInv'
<1>1. Counted' = Counted
  BY CountedIs DEF Steady
<1>2. QueueInv'
  BY DEF QueueInv, Steady, Sound, Quiet
<1>3. QED
  BY <1>1, <1>2 DEF CountInv, Later

\* A fault or the closing of lines ends calls that stay counted.
LEMMA CountShrinks ==
    ASSUME DeviceTypeOK, DeviceTypeOK', CountInv, stUsed \in Int, stUsed' = stUsed, ~Quiet',
           \A c \in Channels : /\ Sound(c)
                               /\ Going(call'[c], evq'[c]) \subseteq Going(call[c], evq[c])
    PROVE  CountInv'
<1>1. Counted' \subseteq Counted
  BY CountedIs
<1>2. /\ IsFiniteSet(Counted') /\ Cardinality(Counted') <= Cardinality(Counted)
      /\ Cardinality(Counted') \in Nat /\ Cardinality(Counted) \in Nat
  BY <1>1, FS_Subset, FS_CardinalityType DEF CountInv
<1>3. QueueInv'
  BY DEF QueueInv, Sound, Quiet
<1>4. QED
  BY <1>2, <1>3 DEF CountInv

\* A call is counted on channel c, at most one and exactly one when all is quiet.
LEMMA CountAdds ==
    ASSUME DeviceTypeOK, DeviceTypeOK', CountInv, Later, stUsed \in Int, stUsed' = stUsed + 1,
           NEW c \in Channels, NEW n \in Crn, n \notin Going(call[c], evq[c]),
           \A d \in Channels : Sound(d),
           \A d \in Channels \ {c} : Steady(d),
           Going(call'[c], evq'[c]) \subseteq Going(call[c], evq[c]) \cup {n},
           Quiet => Going(call'[c], evq'[c]) = Going(call[c], evq[c]) \cup {n}
    PROVE  CountInv'
<1> DEFINE new == Counted \cup {<<c, n>>}
<1>1. \A t \in Channels \X Crn : /\ t[1] \in Channels /\ t[2] \in Crn
                                 /\ t = <<c, n>> <=> t[1] = c /\ t[2] = n
  OBVIOUS
<1>2. <<c, n>> \in Channels \X Crn /\ <<c, n>>[1] = c /\ <<c, n>>[2] = n
  OBVIOUS
<1>3. <<c, n>> \notin Counted
  BY <1>2, CountedIs
<1>4. Counted' \subseteq new
  BY <1>1, CountedIs DEF Steady
<1>5. Quiet => Counted' = new
  <2>1. ASSUME Quiet, NEW t PROVE t \in new => t \in Counted'
    BY <1>1, <1>2, <2>1, CountedIs DEF Steady
  <2>2. QED
    BY <1>4, <2>1
<1>6. /\ IsFiniteSet(Counted) /\ IsFiniteSet(new)
      /\ Cardinality(Counted) \in Nat /\ Cardinality(new) = Cardinality(Counted) + 1
  BY <1>3, FS_AddElement, FS_CardinalityType DEF CountInv
<1>7. /\ IsFiniteSet(Counted') /\ Cardinality(Counted') <= Cardinality(new)
      /\ Cardinality(Counted') \in Nat
  BY <1>4, <1>6, FS_Subset, FS_CardinalityType
<1>8. QueueInv'
  BY DEF QueueInv, Sound, Quiet
<1> HIDE DEF new
<1>9. stUsed' >= Cardinality(Counted')
  BY <1>6, <1>7 DEF CountInv
<1>10. Quiet' => stUsed' = Cardinality(Counted')
  BY <1>5, <1>6 DEF CountInv, Later
<1>11. QED
  BY <1>7, <1>8, <1>9, <1>10 DEF CountInv

\* A call is uncounted on channel c.
LEMMA CountRemoves ==
    ASSUME DeviceTypeOK, DeviceTypeOK', CountInv, Later, stUsed \in Int, stUsed' = stUsed - 1,
           NEW c \in Channels, NEW n \in Going(call[c], evq[c]),
           \A d \in Channels : Sound(d),
           \A d \in Channels \ {c} : Steady(d),
           Going(call'[c], evq'[c]) = Going(call[c], evq[c]) \ {n}
    PROVE  CountInv'
<1> DEFINE left == Counted \ {<<c, n>>}
<1>1. n \in Crn
  BY DEF Going
<1>2. \A t \in Channels \X Crn : /\ t[1] \in Channels /\ t[2] \in Crn
                                 /\ t = <<c, n>> <=> t[1] = c /\ t[2] = n
  BY <1>1
<1>3. <<c, n>> \in Channels \X Crn /\ <<c, n>>[1] = c /\ <<c, n>>[2] = n
  BY <1>1
<1>4. <<c, n>> \in Counted
  BY <1>3, CountedIs
<1>5. Counted' = left
  <2>1. \A t : t \in Counted' => t \in left
    BY <1>2, CountedIs DEF Steady
  <2>2. \A t : t \in left => t \in Counted'
    BY <1>2, CountedIs DEF Steady
  <2>3. QED
    BY <2>1, <2>2
<1>6. /\ IsFiniteSet(Counted) /\ IsFiniteSet(left)
      /\ Cardinality(Counted) \in Nat /\ Cardinality(left) = Cardinality(Counted) - 1
  BY <1>4, FS_RemoveElement, FS_CardinalityType DEF CountInv
<1>7. QueueInv'
  BY DEF QueueInv, Sound, Quiet
<1> HIDE DEF left
<1>8. stUsed' >= Cardinality(Counted') /\ (Quiet' => stUsed' = Cardinality(Counted'))
  BY <1>5, <1>6 DEF CountInv, Later
<1>9. QED
  BY <1>5, <1>6, <1>7, <1>8 DEF CountInv

\* What the library and the network do: nothing is counted or uncounted.
LEMMA EnvironmentSteady ==
    ASSUME DeviceTypeOK, OrderInv, CountInv, UNCHANGED interrupted,
           NEW c \in Channels, Library(c) \/ Network(c)
    PROVE  Later /\ \A d \in Channels : Steady(d)
<1>1. Later
  <2>1. spent' = spent \/ \E b \in Budget : Spend(b)
    BY DEF Library, Network, OpenDone, OpenFails, Unblock, Block, PlayDone, ResetDone,
           Complete, Offer, HangUp, TaskFails, Budget
  <2>2. QED
    BY <2>1, SpendLater
<1> SUFFICES ASSUME NEW d \in Channels PROVE Steady(d)
  BY <1>1
<1> DEFINE k == call[c]
           q == evq[c]
<1>2. k \in [Crn -> CallState] /\ q \in Seq(Event)
  BY DEF DeviceTypeOK
<1>3. /\ ReleasedOnce(k, q) /\ EventsOrdered(k, q)
      /\ spent["fault"] = 0 => NoFailure(q)
      /\ Quiet => SeenBeforeOver(k, q)
  BY DEF CountInv, QueueInv, OrderInv, Ordered
<1>4. CASE d # c
  <2>1. call'[d] = call[d] /\ evq'[d] = evq[d]
    BY <1>4 DEF Library, Network, OpenDone, OpenFails, Unblock, Block, PlayDone, ResetDone,
                Complete, Offer, HangUp, TaskFails, Raise, DeviceTypeOK
  <2>2. QED
    BY <1>1, <2>1, SteadyMove DEF CountInv
<1>5. ASSUME NEW l \in [Crn -> CallState], NEW e \in Event,
             call'[c] = l, evq'[c] = Append(q, e),
             e.type \notin {"OFFERED", "RELEASECALL"},
             e.type = "TASKFAIL" => spent'["fault"] # 0,
             \A n \in Crn : l[n] = k[n] \/ (k[n] \in Live /\ l[n] \in Live)
      PROVE  Steady(c)
  <2>1. /\ Going(l, q) = Going(k, q) /\ ReleasedOnce(l, q)
        /\ SeenBeforeOver(k, q) => SeenBeforeOver(l, q)
    BY <1>2, <1>3, <1>5, GoingRequest
  <2>2. /\ Going(l, Append(q, e)) = Going(l, q) /\ ReleasedOnce(l, Append(q, e))
        /\ SeenBeforeOver(l, q) => SeenBeforeOver(l, Append(q, e))
    BY <1>2, <1>5, <2>1, GoingRaise
  <2>3. spent'["fault"] = 0 => NoFailure(Append(q, e))
    BY <1>1, <1>2, <1>3, <1>5 DEF NoFailure, Later
  <2>4. QED
    BY <1>1, <1>3, <1>5, <2>1, <2>2, <2>3 DEF Steady, Sound, Later
<1>6. ASSUME OpenDone(c) \/ OpenFails(c) \/ Unblock(c) \/ Block(c) \/ PlayDone(c) \/ ResetDone(c)
      PROVE  Steady(c)
  <2>1. PICK type \in LineEvent \ {"TASKFAIL"} : Raise(c, type, NoCrn) /\ UNCHANGED call
    BY <1>6 DEF OpenDone, OpenFails, Unblock, Block, PlayDone, ResetDone, LineEvent
  <2> DEFINE e == [type |-> type, crn |-> NoCrn]
  <2>2. evq'[c] = Append(q, e) /\ call'[c] = k
    BY <2>1 DEF Raise, DeviceTypeOK
  <2>3. e \in Event /\ e.type \notin {"OFFERED", "RELEASECALL", "TASKFAIL"}
    BY <2>1 DEF Event, LineEvent, NoCrn
  <2> HIDE DEF e
  <2>4. QED
    BY <1>2, <1>5, <2>2, <2>3
<1>7. ASSUME NEW n \in Crn, NEW new \in Live, NEW type \in LineEvent \cup CallEvent,
             Raise(c, type, n), call' = [call EXCEPT ![c][n] = new], k[n] \in Live,
             type \notin {"OFFERED", "RELEASECALL"},
             type = "TASKFAIL" => spent'["fault"] # 0
      PROVE  Steady(c)
  <2> DEFINE e == [type |-> type, crn |-> n]
             l == [k EXCEPT ![n] = new]
  <2>1. evq'[c] = Append(q, e) /\ call'[c] = l
    BY <1>7 DEF Raise, DeviceTypeOK
  <2>2. e \in Event /\ e.type = type
    BY <1>7 DEF Event
  <2>3. l \in [Crn -> CallState] /\ \A m \in Crn : l[m] = k[m] \/ (k[m] \in Live /\ l[m] \in Live)
    BY <1>2, <1>7 DEF CallState
  <2> HIDE DEF e, l
  <2>4. QED
    BY <1>5, <1>7, <2>1, <2>2, <2>3
<1>8. ASSUME NEW n \in Crn, \/ Complete(c, n) \/ Offer(c, n) \/ HangUp(c, n) \/ TaskFails(c, n)
      PROVE  Steady(c)
  <2>1. CASE Offer(c, n)
    <3>1. k[n] = "none"
      BY <2>1 DEF Offer
    <3>2. /\ call'[c] = [k EXCEPT ![n] = "offered"] /\ spent' = spent
          /\ evq'[c] = Append(q, [type |-> "OFFERED", crn |-> n])
      BY <2>1 DEF Offer, Raise, DeviceTypeOK
    <3>3. /\ Going(call'[c], evq'[c]) = Going(k, q)
          /\ ReleasedOnce(call'[c], evq'[c])
          /\ SeenBeforeOver(k, q) => SeenBeforeOver(call'[c], evq'[c])
      BY <1>2, <1>3, <3>1, <3>2, GoingOffer
    <3>4. NoFailure(q) => NoFailure(evq'[c])
      BY <1>2, <3>2 DEF NoFailure
    <3>5. QED
      BY <1>1, <1>3, <3>2, <3>3, <3>4 DEF Steady, Sound, Later
  <2>2. CASE Complete(c, n) /\ k[n] = "releasing"
    <3>1. Completion["releasing"].state = "released" /\ Completion["releasing"].event = "RELEASECALL"
      BY DEF Completion
    <3>2. /\ call'[c] = [k EXCEPT ![n] = "released"] /\ spent' = spent
          /\ evq'[c] = Append(q, [type |-> "RELEASECALL", crn |-> n])
      BY <2>2, <3>1 DEF Complete, Raise, DeviceTypeOK
    <3>3. /\ Going(call'[c], evq'[c]) = Going(k, q)
          /\ ReleasedOnce(call'[c], evq'[c])
          /\ SeenBeforeOver(k, q) => SeenBeforeOver(call'[c], evq'[c])
      BY <1>2, <1>3, <2>2, <3>2, GoingRelease
    <3>4. NoFailure(q) => NoFailure(evq'[c])
      BY <1>2, <3>2 DEF NoFailure
    <3>5. QED
      BY <1>1, <1>3, <3>2, <3>3, <3>4 DEF Steady, Sound, Later
  <2>3. CASE Complete(c, n) /\ k[n] # "releasing"
    <3>1. k[n] \in Pending \ {"releasing"}
      BY <2>3 DEF Complete
    <3>2. /\ Completion[k[n]].state \in Live /\ k[n] \in Live
          /\ Completion[k[n]].event \in CallEvent \ {"OFFERED", "RELEASECALL"}
          /\ Completion[k[n]].event # "TASKFAIL"
      BY <3>1 DEF Completion, Pending, Live, Droppable, Talking, CallEvent
    <3>3. /\ Raise(c, Completion[k[n]].event, n)
          /\ call' = [call EXCEPT ![c][n] = Completion[k[n]].state]
      BY <2>3 DEF Complete
    <3>4. QED
      BY <1>7, <3>2, <3>3
  <2>4. CASE HangUp(c, n)
    <3>1. k[n] \in Live /\ "disconnected" \in Live /\ "DISCONNECTED" \in CallEvent
      BY <2>4 DEF HangUp, Live, Droppable, CallEvent
    <3>2. Raise(c, "DISCONNECTED", n) /\ call' = [call EXCEPT ![c][n] = "disconnected"]
      BY <2>4 DEF HangUp
    <3>3. QED
      BY <1>7, <3>1, <3>2
  <2>5. CASE TaskFails(c, n)
    <3>1. k[n] \in Live /\ "failed" \in Live /\ "TASKFAIL" \in LineEvent
      BY <2>5 DEF TaskFails, Pending, Live, Droppable, Talking, LineEvent
    <3>2. Raise(c, "TASKFAIL", n) /\ call' = [call EXCEPT ![c][n] = "failed"]
      BY <2>5 DEF TaskFails
    <3>3. spent'["fault"] # 0
      BY <2>5 DEF TaskFails, Spend, DeviceTypeOK, Budget
    <3>4. QED
      BY <1>7, <3>1, <3>2, <3>3
  <2>6. QED
    BY <1>8, <2>1, <2>2, <2>3, <2>4, <2>5
<1>9. QED
  BY <1>4, <1>6, <1>8 DEF Library, Network

\* Taking an event and moving calls on, on one channel.
LEMMA MoveSteady ==
    ASSUME DeviceTypeOK, OrderInv, CountInv, Later, NEW c \in Channels, NEW m,
           NEW type, TakeEvent(c, type), type \notin {"OFFERED", "RELEASECALL"},
           \/ call' = call
           \/ call' = [call EXCEPT ![c] = gc_CallAck(@, m)]
           \/ call' = [call EXCEPT ![c] = gc_AcceptCall(@, m)]
           \/ call' = [call EXCEPT ![c] = gc_AnswerCall(@, m)]
           \/ call' = [call EXCEPT ![c] = gc_DropCall(@, m)]
           \/ call' = [call EXCEPT ![c] = gc_ReleaseCallEx(@, m)]
    PROVE  \A d \in Channels : Steady(d)
<1> SUFFICES ASSUME NEW d \in Channels PROVE Steady(d)
  OBVIOUS
<1>1. /\ d # c => call'[d] = call[d] /\ evq'[d] = evq[d]
      /\ evq[c] # <<>> /\ evq'[c] = Tail(evq[c]) /\ Head(evq[c]).type = type
      /\ call'[c] \in {call[c], gc_CallAck(call[c], m), gc_AcceptCall(call[c], m),
                       gc_AnswerCall(call[c], m), gc_DropCall(call[c], m),
                       gc_ReleaseCallEx(call[c], m)}
  BY DEF TakeEvent, DeviceTypeOK
<1>2. QED
  BY <1>1, SteadyMove DEF CountInv

\* The handlers both programs share.
LEMMA HandlerCount ==
    ASSUME DeviceTypeOK, ChannelTypeOK, DeviceTypeOK', OrderInv, CountInv, NEW c \in Channels,
           OnLine(c) \/ OnCall(c) \/ OnFailure(c)
    PROVE  CountInv'
<1> DEFINE k == call[c]
           q == evq[c]
<1>1. Later
  <2>1. spent' = spent \/ \E b \in Budget : Spend(b)
    BY DEF OnLine, OnCall, OnFailure, OnLogged, OnUnblocked, OnUnblockedNoVoice, OnAccept,
           OnDisconnected, OnDropCall, OnReleaseCall, OnResetLineDev, OnTaskFail, Budget
  <2>2. interrupted' = interrupted
    BY DEF OnLine, OnCall, OnFailure, OnLogged, OnUnblocked, OnUnblockedNoVoice, OnAccept,
           OnDisconnected, OnDropCall, OnReleaseCall, OnResetLineDev, OnTaskFail, channelVars
  <2>3. QED
    BY <2>1, <2>2, SpendLater
<1>2. k \in [Crn -> CallState] /\ q \in Seq(Event) /\ stUsed \in Int
  BY DEF DeviceTypeOK, ChannelTypeOK
<1>3. /\ ReleasedOnce(k, q) /\ EventsOrdered(k, q)
      /\ spent["fault"] = 0 => NoFailure(q)
      /\ Quiet => SeenBeforeOver(k, q)
  BY DEF CountInv, QueueInv, OrderInv, Ordered
<1>4. ASSUME NEW type, TakeEvent(c, type)
      PROVE  /\ q # <<>> /\ evq'[c] = Tail(q) /\ Head(q).type = type
             /\ \A d \in Channels \ {c} : evq'[d] = evq[d]
  BY <1>4 DEF TakeEvent, DeviceTypeOK
<1>5. CASE OnLine(c) \/ OnResetLineDev(c)
  <2>1. PICK type : type \notin {"OFFERED", "RELEASECALL"} /\ TakeEvent(c, type)
    BY <1>5 DEF OnLine, OnLogged, OnUnblocked, OnUnblockedNoVoice, OnResetLineDev
  <2>2. call' = call /\ stUsed' = stUsed
    BY <1>5 DEF OnLine, OnLogged, OnUnblocked, OnUnblockedNoVoice, OnResetLineDev, channelVars,
                statVars
  <2>3. \A d \in Channels : Steady(d)
    BY <1>1, <2>1, <2>2, MoveSteady
  <2>4. QED
    BY <1>1, <2>2, <2>3, CountSteady
<1>6. CASE OnAccept(c) \/ OnDisconnected(c) \/ OnDropCall(c)
  <2>1. PICK type : type \notin {"OFFERED", "RELEASECALL"} /\ TakeEvent(c, type)
    BY <1>6 DEF OnAccept, OnDisconnected, OnDropCall
  <2>2. /\ stUsed' = stUsed
        /\ \/ call' = call
           \/ call' = [call EXCEPT ![c] = gc_AnswerCall(@, Head(q).crn)]
           \/ call' = [call EXCEPT ![c] = gc_DropCall(@, Head(q).crn)]
           \/ call' = [call EXCEPT ![c] = gc_ReleaseCallEx(@, Head(q).crn)]
    BY <1>6 DEF OnAccept, OnDisconnected, OnDropCall, statVars, DeviceTypeOK
  <2>3. \A d \in Channels : Steady(d)
    BY <1>1, <2>1, <2>2, MoveSteady
  <2>4. QED
    BY <1>1, <2>2, <2>3, CountSteady
<1>7. CASE OnReleaseCall(c)
  <2> DEFINE n == Head(q).crn
  <2>1. TakeEvent(c, "RELEASECALL") /\ call' = call /\ spent' = spent /\ stUsed' = stUsed - 1
    BY <1>7 DEF OnReleaseCall
  <2>2. n \in Going(k, q) /\ Going(k, Tail(q)) = Going(k, q) \ {n}
    BY <1>2, <1>3, <1>4, <2>1, GoingTake
  <2>3. /\ ReleasedOnce(k, Tail(q))
        /\ NoFailure(q) => NoFailure(Tail(q))
        /\ SeenBeforeOver(k, q) => SeenBeforeOver(k, Tail(q))
    BY <1>2, <1>3, <1>4, <2>1, ReleasedTail
  <2>4. Sound(c)
    BY <1>1, <1>3, <1>4, <2>1, <2>3 DEF Sound, Later
  <2>5. \A d \in Channels \ {c} : Steady(d)
    BY <1>1, <1>4, <2>1, SteadyMove DEF CountInv
  <2>6. \A d \in Channels : Sound(d)
    BY <2>4, <2>5 DEF Steady
  <2>7. Going(call'[c], evq'[c]) = Going(k, q) \ {n}
    BY <1>4, <2>1, <2>2
  <2>8. QED
    BY <1>1, <1>2, <2>1, <2>2, <2>5, <2>6, <2>7, CountRemoves
<1>8. CASE OnTaskFail(c)
  <2>1. TakeEvent(c, "TASKFAIL") /\ spent' = spent /\ stUsed' = stUsed
    BY <1>8 DEF OnTaskFail, channelVars, statVars
  <2>2. call'[c] = Cleared(k) /\ \A d \in Channels \ {c} : call'[d] = call[d]
    BY <1>8 DEF OnTaskFail, DeviceTypeOK
  <2>3. /\ ReleasedOnce(k, Tail(q)) /\ Tail(q) \in Seq(Event)
        /\ NoFailure(q) => Head(q).type # "TASKFAIL"
    BY <1>2, <1>3, <1>4, <2>1, ReleasedTail
  <2>4. spent["fault"] # 0 /\ ~Quiet'
    BY <1>3, <1>4, <2>1, <2>3 DEF Quiet
  <2>5. Going(k, Tail(q)) = Going(k, q)
    BY <1>2, <1>3, <1>4, <2>1, GoingTake
  <2>6. Going(Cleared(k), Tail(q)) \subseteq Going(k, Tail(q)) /\ ReleasedOnce(Cleared(k), Tail(q))
    BY <1>2, <2>3, GoingCleared
  <2>7. Sound(c) /\ Going(call'[c], evq'[c]) \subseteq Going(k, q)
    BY <1>4, <2>1, <2>2, <2>4, <2>5, <2>6 DEF Sound
  <2>8. \A d \in Channels \ {c} : Steady(d)
    BY <1>1, <1>4, <2>1, <2>2, SteadyMove DEF CountInv
  <2>9. QED
    BY <1>2, <2>1, <2>4, <2>7, <2>8, CountShrinks DEF Steady
<1>9. QED
  BY <1>5, <1>6, <1>7, <1>8 DEF OnCall, OnFailure

\* A new call is registered and counted, and may be moved on at once.
LEMMA NewCallCount ==
    ASSUME DeviceTypeOK, ChannelTypeOK, DeviceTypeOK', OrderInv, CountInv, NEW c \in Channels,
           NewCall(c), NEW m,
           \/ call' = call
           \/ call' = [call EXCEPT ![c] = gc_CallAck(@, m)]
           \/ call' = [call EXCEPT ![c] = gc_AcceptCall(@, m)]
           \/ call' = [call EXCEPT ![c] = gc_AnswerCall(@, m)]
           \/ call' = [call EXCEPT ![c] = gc_DropCall(@, m)]
    PROVE  CountInv'
<1> DEFINE k == call[c]
           q == evq[c]
           n == Head(q).crn
<1>1. spent' = spent /\ interrupted' = interrupted /\ stUsed' = stUsed + 1
  BY DEF NewCall
<1>2. Later
  BY <1>1, SpendLater
<1>3. k \in [Crn -> CallState] /\ q \in Seq(Event) /\ stUsed \in Int
  BY DEF DeviceTypeOK, ChannelTypeOK
<1>4. /\ ReleasedOnce(k, q) /\ EventsOrdered(k, q)
      /\ spent["fault"] = 0 => NoFailure(q)
      /\ Quiet => SeenBeforeOver(k, q)
  BY DEF CountInv, QueueInv, OrderInv, Ordered
<1>5. /\ q # <<>> /\ Head(q).type = "OFFERED" /\ evq'[c] = Tail(q) /\ Tail(q) \in Seq(Event)
      /\ \A d \in Channels \ {c} : evq'[d] = evq[d] /\ call'[d] = call[d]
  BY <1>3 DEF NewCall, TakeEvent, DeviceTypeOK
<1>6. /\ n \in Crn /\ n \notin Going(k, q)
      /\ Going(k, Tail(q)) \subseteq Going(k, q) \cup {n}
      /\ Quiet => Going(k, Tail(q)) = Going(k, q) \cup {n}
  <2>1. 1 \in 1..Len(q) /\ Head(q) = q[1]
    BY <1>3, <1>5
  <2>2. n \in Crn
    BY <1>4, <1>5, <2>1 DEF ReleasedOnce
  <2>3. QED
    BY <1>3, <1>4, <1>5, <2>2, GoingTake
<1>7. /\ ReleasedOnce(k, Tail(q))
      /\ NoFailure(q) => NoFailure(Tail(q))
      /\ SeenBeforeOver(k, q) => SeenBeforeOver(k, Tail(q))
  BY <1>3, <1>4, <1>5, ReleasedTail
<1>8. call'[c] \in {k, gc_CallAck(k, m), gc_AcceptCall(k, m), gc_AnswerCall(k, m),
                    gc_DropCall(k, m), gc_ReleaseCallEx(k, m)}
  BY DEF DeviceTypeOK
<1>9. /\ Going(call'[c], Tail(q)) = Going(k, Tail(q))
      /\ ReleasedOnce(call'[c], Tail(q))
      /\ SeenBeforeOver(k, Tail(q)) => SeenBeforeOver(call'[c], Tail(q))
  <2>1. /\ call'[c] \in [Crn -> CallState]
        /\ \A x \in Crn : call'[c][x] = k[x] \/ (k[x] \in Live /\ call'[c][x] \in Live)
    BY <1>3, <1>8, RequestsMove
  <2>2. QED
    BY <1>3, <1>5, <1>7, <2>1, GoingRequest
<1>10. Sound(c)
  BY <1>2, <1>4, <1>5, <1>7, <1>9 DEF Sound, Later
<1>11. \A d \in Channels \ {c} : Steady(d)
  BY <1>2, <1>5, SteadyMove DEF CountInv
<1>12. \A d \in Channels : Sound(d)
  BY <1>10, <1>11 DEF Steady
<1>13. /\ Going(call'[c], evq'[c]) \subseteq Going(k, q) \cup {n}
       /\ Quiet => Going(call'[c], evq'[c]) = Going(k, q) \cup {n}
  BY <1>5, <1>6, <1>9
<1>14. QED
  BY <1>1, <1>2, <1>3, <1>6, <1>11, <1>12, <1>13, CountAdds

\* The signal handler and the closing of lines.
LEMMA EndingCount ==
    ASSUME DeviceTypeOK, ChannelTypeOK, DeviceTypeOK', OrderInv, CountInv,
           intr_hdlr \/ CloseIdleLines
    PROVE  CountInv'
<1>1. stUsed \in Int /\ stUsed' = stUsed
  BY DEF ChannelTypeOK, intr_hdlr, CloseIdleLines, statVars
<1>2. Later
  <2>1. spent' = spent \/ \E b \in Budget : Spend(b)
    BY DEF intr_hdlr, CloseIdleLines, Budget
  <2>2. interrupted => interrupted'
    BY DEF intr_hdlr, CloseIdleLines
  <2>3. QED
    BY <2>1, <2>2, SpendLater
<1>3. CASE intr_hdlr
  <2>1. /\ evq' = evq /\ QueueInv
        /\ \A d \in Channels : call'[d] \in {call[d], gc_DropCall(call[d], Calls[d][0].crn)}
    BY <1>3 DEF intr_hdlr, CountInv
  <2>2. \A d \in Channels : Steady(d)
    BY <1>2, <2>1, SteadyMove
  <2>3. QED
    BY <1>1, <1>2, <2>2, CountSteady
<1>4. CASE CloseIdleLines
  <2>1. ~Quiet'
    BY <1>4 DEF CloseIdleLines, Quiet
  <2>2. ASSUME NEW d \in Channels, ~Closable(d) PROVE Steady(d)
    BY <1>2, <1>4, <2>2, SteadyMove DEF CountInv, CloseIdleLines
  <2>3. ASSUME NEW d \in Channels, Closable(d)
        PROVE  Sound(d) /\ Going(call'[d], evq'[d]) = {}
    <3>1. call'[d] = Cleared(call[d]) /\ evq'[d] = <<>>
      BY <1>4, <2>3 DEF CloseIdleLines
    <3>2. ReleasedOnce(call[d], evq[d]) /\ call[d] \in [Crn -> CallState] /\ evq[d] \in Seq(Event)
      BY DEF CountInv, QueueInv, DeviceTypeOK
    <3>3. Going(Cleared(call[d]), <<>>) = {}
      BY <3>2, GoingCleared
    <3>4. NoFailure(<<>>) /\ ReleasedOnce(Cleared(call[d]), <<>>)
      BY DEF NoFailure, ReleasedOnce
    <3>5. QED
      BY <2>1, <3>1, <3>3, <3>4 DEF Sound
  <2>4. QED
    BY <1>1, <2>1, <2>2, <2>3, CountShrinks DEF Steady
<1>5. QED
  BY <1>3, <1>4

\* InitChannels: nothing is counted.
LEMMA CountInit == DeviceInit /\ ChannelInit => CountInv
<1> SUFFICES ASSUME DeviceInit, ChannelInit PROVE CountInv
  OBVIOUS
<1>1. \A c \in Channels : /\ evq[c] = <<>> /\ call[c] = [n \in Crn |-> "none"]
                          /\ Len(evq[c]) = 0
  BY DEF DeviceInit
<1>2. QueueInv
  BY <1>1 DEF QueueInv, ReleasedOnce, NoFailure, SeenBeforeOver, Holds
<1>3. Counted = {}
  <2>1. \A c \in Channels : InProgress(c) = {}
    BY <1>1 DEF InProgress, Live, Droppable, Talking
  <2>2. \A t \in Channels \X Crn : t[1] \in Channels
    OBVIOUS
  <2>3. QED
    BY <2>1, <2>2 DEF Counted
<1>4. IsFiniteSet({}) /\ Cardinality({}) = 0
  BY FS_EmptySet
<1>5. stUsed = 0
  BY DEF ChannelInit
<1>6. QED
  BY <1>2, <1>3, <1>4, <1>5 DEF CountInv

\* The count is the number of calls in progress.
LEMMA CountImplies == CountInv => StUsedCounts
BY DEF CountInv, Counted, Quiet, StUsedCounts

-----------------------------------------------------------------------------
(* Every event finds its call. *)

\* The events of a call that nobody has dropped, and the states of such a call.
UndroppedEvent == {"CALLPROC", "ACCEPT", "ANSWERED", "DISCONNECTED"}
Undropped      == Talking \cup {"disconnected"}

\* Between positions j and i of the queue no call is offered and no line is reset.
Calm(q, j, i) ==
    \A x \in 1..Len(q) : (j < x /\ x < i) => q[x].type \notin {"OFFERED", "RESETLINEDEV"}

\* Call n is in slot 0 (position 0), or is offered by the j-th event.
Begins(q, s, j, n) ==
    /\ j = 0 => s[0].crn = n
    /\ j > 0 => q[j].type = "OFFERED" /\ q[j].crn = n

\* When the events before the i-th have been taken, call n is in slot 0, ...
Newest(q, s, n, i) == \E j \in 0..Len(q) : j < i /\ Begins(q, s, j, n) /\ Calm(q, j, i)

\* ... or in slot 1: another call was offered after it.
Second(q, s, n, i) ==
    \/ \E p \in 1..Len(q) :
          p < i /\ q[p].type = "OFFERED" /\ Newest(q, s, n, p) /\ Calm(q, p, i)
    \/ s[1].crn = n /\ Calm(q, 0, i)

Found(q, s, n, i) == Newest(q, s, n, i) \/ Second(q, s, n, i)

\* A call that was not dropped is the newest of its line: its events find it in slot 0.
\* A call that was dropped is at least the second.
EventsFound(q, s) ==
    \A i \in 1..Len(q) :
        /\ q[i].type \in UndroppedEvent => q[i].crn \in Crn /\ Newest(q, s, q[i].crn, i)
        /\ q[i].type = "DROPCALL" => q[i].crn \in Crn /\ Found(q, s, q[i].crn, i)

\* The same of the events that are still to be raised.
CallsFound(k, q, s) ==
    \A n \in Crn :
        /\ k[n] \in Undropped => Newest(q, s, n, Len(q) + 1)
        /\ k[n] = "dropping" => Found(q, s, n, Len(q) + 1)

\* RELEASECALL is the last event of its call: it empties the slot.
ReleasedLast(q) ==
    \A i, j \in 1..Len(q) :
        (i < j /\ q[i].type = "RELEASECALL" /\ q[j].type \in UndroppedEvent \cup {"DROPCALL"}) =>
            q[i].crn # q[j].crn

\* The p-th event is left of a time that is over: a reset, or the offer of a dead call.
Over(k, q, p) ==
    q[p].type = "RESETLINEDEV" \/ (q[p].type = "OFFERED" /\ k[q[p].crn] \notin Live)

\* A call that lives was offered after all such events, and is the last one offered
\* unless the program has taken its OFFERED.
LiveLast(k, q) ==
    /\ \A p \in 1..Len(q) : Over(k, q, p) =>
           \A n \in Crn : k[n] \in Live =>
               \E j \in 1..Len(q) : p < j /\ q[j].type = "OFFERED" /\ q[j].crn = n
    /\ \A i, j \in 1..Len(q) :
           (i < j /\ q[i].type = "OFFERED" /\ q[j].type = "OFFERED") => Over(k, q, i)

Findable(k, q, s) ==
    EventsFound(q, s) /\ CallsFound(k, q, s) /\ ReleasedLast(q) /\ LiveLast(k, q)

\* CallIsFound made inductive; while a line is being reset its calls are over.
FoundInv ==
    \A c \in Channels :
        /\ Findable(call[c], evq[c], Calls[c])
        /\ resets[c] > 0 => NoLive(call[c])

\* Slots t are s after the event at the head of q, as far as call n is concerned.
Taken(q, s, t, n) ==
    /\ Head(q).type = "OFFERED" => t[0].crn = Head(q).crn /\ t[1].crn = s[0].crn
    /\ Head(q).type \notin {"OFFERED", "RESETLINEDEV"} =>
           (s[0].crn = n => t[0].crn = n) /\ (s[1].crn = n => t[1].crn = n)

\* What is calm stays calm when the first event is taken.
LEMMA CalmTake ==
    ASSUME NEW q \in Seq(Event), q # <<>>, NEW i \in Nat, i > 1
    PROVE  /\ \A j \in Nat : (j > 0 /\ Calm(q, j, i)) => Calm(Tail(q), j - 1, i - 1)
           /\ Calm(q, 0, i) => /\ Calm(Tail(q), 0, i - 1)
                               /\ Head(q).type \notin {"OFFERED", "RESETLINEDEV"}
<1>1. /\ Len(q) \in Nat /\ Len(q) > 0 /\ Len(Tail(q)) = Len(q) - 1 /\ Head(q) = q[1]
      /\ \A x \in 1..Len(Tail(q)) : Tail(q)[x] = q[x + 1] /\ x + 1 \in 1..Len(q)
      /\ 1 \in 1..Len(q)
  OBVIOUS
<1>2. ASSUME NEW j \in Nat, j > 0, Calm(q, j, i) PROVE Calm(Tail(q), j - 1, i - 1)
  <2> SUFFICES ASSUME NEW x \in 1..Len(Tail(q)), j - 1 < x, x < i - 1
               PROVE  Tail(q)[x].type \notin {"OFFERED", "RESETLINEDEV"}
    BY DEF Calm
  <2>1. j < x + 1 /\ x + 1 < i
    BY <1>1
  <2>2. QED
    BY <1>1, <1>2, <2>1 DEF Calm
<1>3. ASSUME Calm(q, 0, i) PROVE Calm(Tail(q), 0, i - 1)
  <2> SUFFICES ASSUME NEW x \in 1..Len(Tail(q)), x < i - 1
               PROVE  Tail(q)[x].type \notin {"OFFERED", "RESETLINEDEV"}
    BY DEF Calm
  <2>1. 0 < x + 1 /\ x + 1 < i
    BY <1>1
  <2>2. QED
    BY <1>1, <1>3, <2>1 DEF Calm
<1>4. Calm(q, 0, i) => Head(q).type \notin {"OFFERED", "RESETLINEDEV"}
  BY <1>1 DEF Calm
<1>5. QED
  BY <1>2, <1>3, <1>4

\* The newest call stays the newest when the first event is taken, ...
LEMMA NewestTake ==
    ASSUME NEW q \in Seq(Event), q # <<>>, NEW s, NEW t, NEW n, Taken(q, s, t, n),
           NEW i \in Nat, i > 1, Newest(q, s, n, i)
    PROVE  Newest(Tail(q), t, n, i - 1)
<1>1. /\ Len(q) \in Nat /\ Len(q) > 0 /\ Len(Tail(q)) = Len(q) - 1 /\ Head(q) = q[1]
      /\ Len(Tail(q)) \in Nat
  OBVIOUS
<1>2. PICK j \in 0..Len(q) : j < i /\ Begins(q, s, j, n) /\ Calm(q, j, i)
  BY DEF Newest
<1>3. CASE j = 0
  <2>1. Calm(Tail(q), 0, i - 1) /\ Head(q).type \notin {"OFFERED", "RESETLINEDEV"}
    BY <1>2, <1>3, CalmTake
  <2>2. Begins(Tail(q), t, 0, n)
    BY <1>2, <1>3, <2>1 DEF Begins, Taken
  <2>3. 0 \in 0..Len(Tail(q)) /\ 0 < i - 1
    BY <1>1
  <2>4. QED
    BY <2>1, <2>2, <2>3 DEF Newest
<1>4. CASE j = 1
  <2>1. Calm(Tail(q), 0, i - 1)
    <3>1. Calm(Tail(q), 1 - 1, i - 1)
      BY <1>2, <1>4, CalmTake
    <3>2. QED
      BY <3>1
  <2>2. Begins(Tail(q), t, 0, n)
    BY <1>1, <1>2, <1>4 DEF Begins, Taken
  <2>3. 0 \in 0..Len(Tail(q)) /\ 0 < i - 1
    BY <1>1
  <2>4. QED
    BY <2>1, <2>2, <2>3 DEF Newest
<1>5. CASE j > 1
  <2>1. Calm(Tail(q), j - 1, i - 1)
    BY <1>2, <1>5, CalmTake
  <2>2. j - 1 \in 0..Len(Tail(q)) /\ j - 1 < i - 1 /\ j - 1 > 0 /\ Tail(q)[j - 1] = q[j]
    BY <1>1, <1>2, <1>5
  <2>3. Begins(Tail(q), t, j - 1, n)
    BY <1>2, <1>5, <2>2 DEF Begins
  <2>4. QED
    BY <2>1, <2>2, <2>3 DEF Newest
<1>6. QED
  BY <1>1, <1>3, <1>4, <1>5

\* ... and a call that is found is found.
LEMMA FoundTake ==
    ASSUME NEW q \in Seq(Event), q # <<>>, NEW s, NEW t, NEW n, Taken(q, s, t, n),
           NEW i \in Nat, i > 1, Found(q, s, n, i)
    PROVE  Found(Tail(q), t, n, i - 1)
<1>1. /\ Len(q) \in Nat /\ Len(q) > 0 /\ Len(Tail(q)) = Len(q) - 1 /\ Head(q) = q[1]
      /\ Len(Tail(q)) \in Nat
  OBVIOUS
<1>2. CASE Newest(q, s, n, i)
  BY <1>2, NewestTake DEF Found
<1>3. CASE s[1].crn = n /\ Calm(q, 0, i)
  <2>1. Calm(Tail(q), 0, i - 1) /\ Head(q).type \notin {"OFFERED", "RESETLINEDEV"}
    BY <1>3, CalmTake
  <2>2. QED
    BY <1>3, <2>1 DEF Found, Second, Taken
<1>4. ASSUME NEW p \in 1..Len(q), p < i, q[p].type = "OFFERED", Newest(q, s, n, p), Calm(q, p, i)
      PROVE  Second(Tail(q), t, n, i - 1)
  <2>1. Calm(Tail(q), p - 1, i - 1)
    BY <1>4, CalmTake
  <2>2. CASE p = 1
    <3>1. PICK j \in 0..Len(q) : j < 1 /\ Begins(q, s, j, n)
      BY <1>4, <2>2 DEF Newest
    <3>2. j = 0
      BY <1>1, <3>1
    <3>3. t[1].crn = n
      BY <1>1, <1>4, <2>2, <3>1, <3>2 DEF Begins, Taken
    <3>4. Calm(Tail(q), 0, i - 1)
      BY <2>1, <2>2
    <3>5. QED
      BY <3>3, <3>4 DEF Second
  <2>3. CASE p > 1
    <3>1. Newest(Tail(q), t, n, p - 1)
      BY <1>4, <2>3, NewestTake
    <3>2. p - 1 \in 1..Len(Tail(q)) /\ p - 1 < i - 1 /\ Tail(q)[p - 1] = q[p]
      BY <1>1, <1>4, <2>3
    <3>3. QED
      BY <1>4, <2>1, <3>1, <3>2 DEF Second
  <2>4. QED
    BY <2>2, <2>3
<1>5. QED
  BY <1>2, <1>3, <1>4 DEF Found, Second

\* What is found among the events there are is found when one is added.
LEMMA FoundAppend ==
    ASSUME NEW q \in Seq(Event), NEW e, NEW s, NEW n, NEW i \in 1..(Len(q) + 1)
    PROVE  /\ Newest(q, s, n, i) => Newest(Append(q, e), s, n, i)
           /\ Found(q, s, n, i) => Found(Append(q, e), s, n, i)
<1> DEFINE p == Append(q, e)
<1>1. /\ Len(q) \in Nat /\ Len(p) = Len(q) + 1
      /\ \A x \in 1..Len(q) : p[x] = q[x] /\ x \in 1..Len(p)
      /\ \A x \in 1..Len(p) : x < i => x \in 1..Len(q)
  OBVIOUS
<1> HIDE DEF p
<1>2. \A j \in Nat, h \in 1..(Len(q) + 1) : (h <= i /\ Calm(q, j, h)) => Calm(p, j, h)
  BY <1>1 DEF Calm
<1>3. ASSUME NEW h \in 1..(Len(q) + 1), h <= i, Newest(q, s, n, h) PROVE Newest(p, s, n, h)
  <2>1. PICK j \in 0..Len(q) : j < h /\ Begins(q, s, j, n) /\ Calm(q, j, h)
    BY <1>3 DEF Newest
  <2>2. Begins(p, s, j, n)
    BY <1>1, <2>1 DEF Begins
  <2>3. j \in Nat /\ j \in 0..Len(p)
    BY <1>1
  <2>4. QED
    BY <1>2, <1>3, <2>1, <2>2, <2>3 DEF Newest
<1>4. Newest(q, s, n, i) => Newest(p, s, n, i)
  BY <1>3
<1>5. ASSUME Second(q, s, n, i) PROVE Second(p, s, n, i)
  <2>1. CASE s[1].crn = n /\ Calm(q, 0, i)
    BY <1>2, <2>1 DEF Second
  <2>2. ASSUME NEW h \in 1..Len(q), h < i, q[h].type = "OFFERED", Newest(q, s, n, h), Calm(q, h, i)
        PROVE  Second(p, s, n, i)
    <3>1. h \in 1..(Len(q) + 1) /\ h \in Nat /\ h <= i
      BY <1>1, <2>2
    <3>2. Newest(p, s, n, h) /\ Calm(p, h, i)
      BY <1>2, <1>3, <2>2, <3>1
    <3>3. QED
      BY <1>1, <2>2, <3>2 DEF Second
  <2>3. QED
    BY <1>5, <2>1, <2>2 DEF Second
<1>6. QED
  BY <1>4, <1>5 DEF Found, p

\* An event that neither offers a call nor ends a reset leaves the newest call the newest.
LEMMA FoundPast ==
    ASSUME NEW q \in Seq(Event), NEW e, NEW s, NEW n,
           e.type \notin {"OFFERED", "RESETLINEDEV"}
    PROVE  /\ Newest(q, s, n, Len(q) + 1) => Newest(Append(q, e), s, n, Len(q) + 2)
           /\ Found(q, s, n, Len(q) + 1) => Found(Append(q, e), s, n, Len(q) + 2)
<1> DEFINE p == Append(q, e)
           z == Len(q) + 1
<1>1. /\ Len(q) \in Nat /\ Len(p) = z /\ z \in 1..(Len(q) + 1) /\ z + 1 = Len(q) + 2
      /\ p[z] = e /\ z \in Nat
      /\ \A x \in 1..Len(q) : p[x] = q[x] /\ x \in 1..Len(p) /\ x < z
      /\ \A x \in 1..Len(p) : x \in 1..Len(q) \/ x = z
  OBVIOUS
<1> HIDE DEF p, z
<1>2. \A j \in Nat : Calm(q, j, z) => Calm(p, j, z + 1)
  BY <1>1 DEF Calm
<1>3. ASSUME Newest(q, s, n, z) PROVE Newest(p, s, n, z + 1)
  <2>1. PICK j \in 0..Len(q) : j < z /\ Begins(q, s, j, n) /\ Calm(q, j, z)
    BY <1>3 DEF Newest
  <2>2. Begins(p, s, j, n)
    BY <1>1, <2>1 DEF Begins
  <2>3. j \in Nat /\ j \in 0..Len(p) /\ j < z + 1
    BY <1>1, <2>1
  <2>4. QED
    BY <1>2, <2>1, <2>2, <2>3 DEF Newest
<1>4. ASSUME Second(q, s, n, z) PROVE Second(p, s, n, z + 1)
  <2>1. CASE s[1].crn = n /\ Calm(q, 0, z)
    BY <1>2, <2>1 DEF Second
  <2>2. ASSUME NEW h \in 1..Len(q), h < z, q[h].type = "OFFERED", Newest(q, s, n, h), Calm(q, h, z)
        PROVE  Second(p, s, n, z + 1)
    <3>1. h \in 1..(Len(q) + 1) /\ h \in Nat /\ h < z + 1
      BY <1>1, <2>2
    <3>2. Newest(p, s, n, h)
      BY <2>2, <3>1, FoundAppend DEF p
    <3>3. Calm(p, h, z + 1)
      BY <1>2, <2>2, <3>1
    <3>4. QED
      BY <1>1, <2>2, <3>1, <3>2, <3>3 DEF Second
  <2>3. QED
    BY <1>4, <2>1, <2>2 DEF Second
<1>5. QED
  BY <1>1, <1>3, <1>4 DEF Found, p, z

\* A call that is offered is the newest.
LEMMA NewestOffered ==
    ASSUME NEW q \in Seq(Event), NEW e, NEW s, e.type = "OFFERED"
    PROVE  Newest(Append(q, e), s, e.crn, Len(q) + 2)
<1> DEFINE p == Append(q, e)
<1>1. /\ Len(q) \in Nat /\ Len(p) = Len(q) + 1 /\ p[Len(q) + 1] = e
      /\ Len(q) + 1 \in 0..Len(p) /\ Len(q) + 1 < Len(q) + 2 /\ Len(q) + 1 > 0
      /\ \A x \in 1..Len(p) : ~(Len(q) + 1 < x)
  OBVIOUS
<1> HIDE DEF p
<1>2. Begins(p, s, Len(q) + 1, e.crn)
  BY <1>1 DEF Begins
<1>3. Calm(p, Len(q) + 1, Len(q) + 2)
  BY <1>1 DEF Calm
<1>4. QED
  BY <1>1, <1>2, <1>3 DEF Newest, p

\* A first event finds its call: the newest in slot 0.
LEMMA FoundFirst ==
    ASSUME NEW q \in Seq(Event), NEW s, NEW n
    PROVE  /\ Newest(q, s, n, 1) => s[0].crn = n
           /\ Found(q, s, n, 1) => s[0].crn = n \/ s[1].crn = n
<1>1. \A j \in 0..Len(q) : j < 1 => j = 0
  OBVIOUS
<1>2. \A p \in 1..Len(q) : ~(p < 1)
  OBVIOUS
<1>3. QED
  BY <1>1, <1>2 DEF Found, Newest, Second, Begins

\* A live call in slot 0 was offered last, but for one that is still to be taken.
LEMMA SlotFound ==
    ASSUME NEW k, NEW q \in Seq(Event), NEW s, LiveLast(k, q),
           s[0].crn \in Crn, k[s[0].crn] \in Live, ~Holds(q, "OFFERED", s[0].crn)
    PROVE  Found(q, s, s[0].crn, Len(q) + 1)
<1> DEFINE n == s[0].crn
           z == Len(q) + 1
<1>1. /\ Len(q) \in Nat /\ z \in Nat /\ 0 < z /\ 0 \in 0..Len(q)
      /\ \A x \in 1..Len(q) : x < z /\ x > 0
  OBVIOUS
<1> HIDE DEF z
<1>2. \A p \in 1..Len(q) : ~Over(k, q, p)
  BY DEF LiveLast, Holds
<1>3. \A i, j \in 1..Len(q) : (i < j /\ q[i].type = "OFFERED") => q[j].type # "OFFERED"
  BY <1>2 DEF LiveLast
<1>4. \A p \in 1..Len(q) : q[p].type # "RESETLINEDEV"
  BY <1>2 DEF Over
<1>5. CASE \A p \in 1..Len(q) : q[p].type # "OFFERED"
  <2>1. Calm(q, 0, z)
    BY <1>4, <1>5 DEF Calm
  <2>2. QED
    BY <1>1, <2>1 DEF Found, Newest, Begins, z
<1>6. ASSUME NEW p \in 1..Len(q), q[p].type = "OFFERED" PROVE Found(q, s, n, z)
  <2>1. \A x \in 1..Len(q) : x < p \/ p < x => q[x].type \notin {"OFFERED", "RESETLINEDEV"}
    BY <1>3, <1>4, <1>6
  <2>2. Calm(q, p, z) /\ Calm(q, 0, p)
    BY <2>1 DEF Calm
  <2>3. Newest(q, s, n, p)
    BY <1>1, <2>2 DEF Newest, Begins
  <2>4. QED
    BY <1>1, <1>6, <2>2, <2>3 DEF Found, Second
<1>7. QED
  BY <1>5, <1>6 DEF z

\* The first event is taken, and the slots follow it.
LEMMA FindableTake ==
    ASSUME NEW k, NEW q \in Seq(Event), q # <<>>, NEW s, NEW t,
           Findable(k, q, s), ReleasedOnce(k, q),
           \A n \in Crn : (Head(q).type = "RELEASECALL" => n # Head(q).crn) => Taken(q, s, t, n)
    PROVE  Findable(k, Tail(q), t)
<1> DEFINE r == Tail(q)
<1>1. /\ Len(q) \in Nat /\ Len(q) > 0 /\ Len(r) = Len(q) - 1 /\ Head(q) = q[1] /\ Len(r) \in Nat
      /\ \A x \in 1..Len(r) : r[x] = q[x + 1] /\ x + 1 \in 1..Len(q) /\ x + 1 > 1 /\ x + 1 \in Nat
                              /\ x + 1 - 1 = x
      /\ \A x \in 1..Len(q) : 1 < x => x - 1 \in 1..Len(r) /\ q[x] = r[x - 1]
      /\ 1 \in 1..Len(q) /\ Len(q) + 1 > 1 /\ Len(q) + 1 \in Nat /\ Len(q) + 1 - 1 = Len(r) + 1
  OBVIOUS
<1>2. \A x, y \in 1..Len(r) : x < y => x + 1 < y + 1
  BY <1>1
<1>3. \A n \in Crn, i \in Nat : (Taken(q, s, t, n) /\ i > 1) =>
          /\ Newest(q, s, n, i) => Newest(r, t, n, i - 1)
          /\ Found(q, s, n, i) => Found(r, t, n, i - 1)
  BY NewestTake, FoundTake
<1> HIDE DEF r
<1>4. EventsFound(r, t)
  <2>1. ASSUME NEW i \in 1..Len(r), r[i].type \in UndroppedEvent
        PROVE  r[i].crn \in Crn /\ Newest(r, t, r[i].crn, i)
    <3>1. q[i + 1].crn \in Crn /\ Newest(q, s, q[i + 1].crn, i + 1) /\ r[i] = q[i + 1]
      BY <1>1, <2>1 DEF Findable, EventsFound
    <3>2. q[1].type = "RELEASECALL" => q[1].crn # q[i + 1].crn
      BY <1>1, <2>1 DEF Findable, ReleasedLast
    <3>3. Newest(r, t, q[i + 1].crn, i + 1 - 1)
      BY <1>1, <1>3, <3>1, <3>2
    <3>4. QED
      BY <1>1, <3>1, <3>3
  <2>2. ASSUME NEW i \in 1..Len(r), r[i].type = "DROPCALL"
        PROVE  r[i].crn \in Crn /\ Found(r, t, r[i].crn, i)
    <3>1. q[i + 1].crn \in Crn /\ Found(q, s, q[i + 1].crn, i + 1) /\ r[i] = q[i + 1]
      BY <1>1, <2>2 DEF Findable, EventsFound
    <3>2. q[1].type = "RELEASECALL" => q[1].crn # q[i + 1].crn
      BY <1>1, <2>2 DEF Findable, ReleasedLast
    <3>3. Found(r, t, q[i + 1].crn, i + 1 - 1)
      BY <1>1, <1>3, <3>1, <3>2
    <3>4. QED
      BY <1>1, <3>1, <3>3
  <2>3. QED
    BY <2>1, <2>2 DEF EventsFound
<1>5. CallsFound(k, r, t)
  <2> SUFFICES ASSUME NEW n \in Crn, k[n] \in Undropped \/ k[n] = "dropping"
               PROVE  /\ k[n] \in Undropped => Newest(r, t, n, Len(r) + 1)
                      /\ k[n] = "dropping" => Found(r, t, n, Len(r) + 1)
    BY DEF CallsFound
  <2>1. k[n] # "released"
    BY DEF Undropped, Talking
  <2>2. Head(q).type = "RELEASECALL" => n # Head(q).crn
    BY <1>1, <2>1 DEF ReleasedOnce
  <2>3. /\ k[n] \in Undropped => Newest(q, s, n, Len(q) + 1)
        /\ k[n] = "dropping" => Found(q, s, n, Len(q) + 1)
    BY DEF Findable, CallsFound
  <2>4. Taken(q, s, t, n)
    BY <2>2
  <2>5. /\ k[n] \in Undropped => Newest(r, t, n, Len(q) + 1 - 1)
        /\ k[n] = "dropping" => Found(r, t, n, Len(q) + 1 - 1)
    BY <1>1, <1>3, <2>3, <2>4
  <2>6. QED
    BY <1>1, <2>5
<1>6. ReleasedLast(r)
  BY <1>1, <1>2 DEF Findable, ReleasedLast
<1>7. LiveLast(k, r)
  <2>1. \A p \in 1..Len(r) : Over(k, r, p) <=> Over(k, q, p + 1)
    BY <1>1 DEF Over
  <2>2. ASSUME NEW p \in 1..Len(r), Over(k, r, p), NEW n \in Crn, k[n] \in Live
        PROVE  \E j \in 1..Len(r) : p < j /\ r[j].type = "OFFERED" /\ r[j].crn = n
    <3>1. PICK j \in 1..Len(q) : p + 1 < j /\ q[j].type = "OFFERED" /\ q[j].crn = n
      BY <1>1, <2>1, <2>2 DEF Findable, LiveLast
    <3>2. 1 < j /\ p < j - 1
      BY <1>1, <3>1
    <3>3. QED
      BY <1>1, <3>1, <3>2
  <2>3. ASSUME NEW i \in 1..Len(r), NEW j \in 1..Len(r), i < j, r[i].type = "OFFERED",
               r[j].type = "OFFERED"
        PROVE  Over(k, r, i)
    BY <1>1, <1>2, <2>1, <2>3 DEF Findable, LiveLast
  <2>4. QED
    BY <2>2, <2>3 DEF LiveLast
<1>8. QED
  BY <1>4, <1>5, <1>6, <1>7 DEF Findable, r

\* Calls are moved on as the programs do: none is revived, and only the call in slot 0
\* is dropped.
Served(k, l, s) ==
    \A n \in Crn :
        \/ l[n] = k[n]
        \/ /\ k[n] \in Live /\ l[n] \in Live
           /\ l[n] \in Undropped => k[n] \in Undropped
           /\ l[n] = "dropping" => s[0].crn = n

\* So every call is still found.
LEMMA FindableMove ==
    ASSUME NEW k, NEW l, NEW q \in Seq(Event), NEW s, Findable(k, q, s), Served(k, l, s),
           ~Holds(q, "OFFERED", s[0].crn), ReleasedOnce(k, q)
    PROVE  Findable(l, q, s)
<1>1. \A n \in Crn : l[n] \in Live <=> k[n] \in Live
  BY DEF Served
<1>2. CallsFound(l, q, s)
  <2>1. ASSUME NEW n \in Crn, l[n] \in Undropped PROVE Newest(q, s, n, Len(q) + 1)
    BY <2>1 DEF Served, Findable, CallsFound
  <2>2. ASSUME NEW n \in Crn, l[n] = "dropping" PROVE Found(q, s, n, Len(q) + 1)
    <3>1. CASE l[n] = k[n]
      BY <2>2, <3>1 DEF Findable, CallsFound
    <3>2. CASE l[n] # k[n]
      <4>1. k[n] \in Live /\ s[0].crn = n
        BY <2>2, <3>2 DEF Served
      <4>2. Found(q, s, s[0].crn, Len(q) + 1)
        BY <4>1, SlotFound DEF Findable
      <4>3. QED
        BY <4>1, <4>2
    <3>3. QED
      BY <3>1, <3>2
  <2>3. QED
    BY <2>1, <2>2 DEF CallsFound
<1>3. \A p \in 1..Len(q) : Over(l, q, p) <=> Over(k, q, p)
  <2>1. \A p \in 1..Len(q) : q[p].type = "OFFERED" => q[p].crn \in Crn
    BY DEF ReleasedOnce
  <2>2. QED
    BY <1>1, <2>1 DEF Over
<1>4. LiveLast(l, q)
  BY <1>1, <1>3 DEF Findable, LiveLast
<1>5. QED
  BY <1>2, <1>4 DEF Findable

\* The functions of the library do that, gc_DropCall for the call in slot 0.
LEMMA RequestsServe ==
    ASSUME NEW k \in [Crn -> CallState], NEW m, NEW s
    PROVE  /\ Served(k, k, s)
           /\ Served(k, gc_CallAck(k, m), s)
           /\ Served(k, gc_AcceptCall(k, m), s)
           /\ Served(k, gc_AnswerCall(k, m), s)
           /\ Served(k, gc_ReleaseCallEx(k, m), s)
           /\ s[0].crn = m => Served(k, gc_DropCall(k, m), s)
<1>1. /\ \A x \in Unanswered : x \in Live /\ x \in Undropped
      /\ "idle" \in Live /\ "releasing" \in Live /\ "dropping" \in Live
      /\ "releasing" \notin Undropped /\ "dropping" \notin Undropped
      /\ "acking" \in Live /\ "accepting" \in Live /\ "answering" \in Live
      /\ "offered" \in Unanswered
      /\ \A x \in Droppable : x \in Live
  BY DEF Live, Droppable, Talking, Unanswered, Undropped
<1>2. Served(k, k, s) /\ Served(k, gc_CallAck(k, m), s)
  BY <1>1 DEF Served, gc_CallAck, Request
<1>3. Served(k, gc_AcceptCall(k, m), s) /\ Served(k, gc_AnswerCall(k, m), s)
  BY <1>1 DEF Served, gc_AcceptCall, gc_AnswerCall, Request
<1>4. Served(k, gc_ReleaseCallEx(k, m), s)
  BY <1>1 DEF Served, gc_ReleaseCallEx, Request
<1>5. s[0].crn = m => Served(k, gc_DropCall(k, m), s)
  BY <1>1 DEF Served, gc_DropCall, Request
<1>6. QED
  BY <1>2, <1>3, <1>4, <1>5

\* No call is offered, revived or dropped, and one that ends has been seen.
Onward(k, l, q) ==
    \A n \in Crn :
        /\ l[n] \in Live => k[n] \in Live
        /\ l[n] \in Undropped => k[n] \in Undropped
        /\ l[n] = "dropping" => k[n] = "dropping"
        /\ (k[n] \in Live /\ l[n] \notin Live) => ~Holds(q, "OFFERED", n)

\* The library moves on, raising an event that neither offers a call nor ends a reset.
LEMMA FindableRaise ==
    ASSUME NEW k, NEW l, NEW q \in Seq(Event), NEW s, Findable(k, q, s), ReleasedOnce(k, q),
           Onward(k, l, q), NEW e \in Event, e.type \notin {"OFFERED", "RESETLINEDEV"},
           e.type \in UndroppedEvent => e.crn \in Crn /\ k[e.crn] \in Undropped,
           e.type = "DROPCALL" => e.crn \in Crn /\ k[e.crn] = "dropping"
    PROVE  Findable(l, Append(q, e), s)
<1> DEFINE p == Append(q, e)
           z == Len(q) + 1
<1>1. /\ Len(q) \in Nat /\ Len(p) = z /\ z \in 1..Len(p) /\ z + 1 = Len(q) + 2 /\ p[z] = e
      /\ \A x \in 1..Len(q) : p[x] = q[x] /\ x \in 1..Len(p) /\ x \in 1..(Len(q) + 1) /\ ~(z < x)
      /\ \A x \in 1..Len(p) : x \in 1..Len(q) \/ x = z
      /\ ~(z < z) /\ z \in 1..(Len(q) + 1)
  OBVIOUS
<1>2. \A n : \A i \in 1..(Len(q) + 1) :
          /\ Newest(q, s, n, i) => Newest(p, s, n, i)
          /\ Found(q, s, n, i) => Found(p, s, n, i)
  BY FoundAppend
<1>3. \A n : /\ Newest(q, s, n, z) => Newest(p, s, n, z + 1)
             /\ Found(q, s, n, z) => Found(p, s, n, z + 1)
  BY <1>1, FoundPast
<1>4. \A n \in Crn : /\ k[n] \in Undropped => Newest(q, s, n, z)
                     /\ k[n] = "dropping" => Found(q, s, n, z)
  BY DEF Findable, CallsFound
<1> HIDE DEF p, z
<1>5. EventsFound(p, s)
  <2>1. ASSUME NEW i \in 1..Len(q)
        PROVE  /\ p[i].type \in UndroppedEvent => p[i].crn \in Crn /\ Newest(p, s, p[i].crn, i)
               /\ p[i].type = "DROPCALL" => p[i].crn \in Crn /\ Found(p, s, p[i].crn, i)
    <3>1. p[i] = q[i] /\ i \in 1..(Len(q) + 1)
      BY <1>1
    <3>2. QED
      BY <1>2, <3>1 DEF Findable, EventsFound
  <2>2. /\ e.type \in UndroppedEvent => e.crn \in Crn /\ Newest(p, s, e.crn, z)
        /\ e.type = "DROPCALL" => e.crn \in Crn /\ Found(p, s, e.crn, z)
    BY <1>1, <1>2, <1>4
  <2>3. QED
    BY <1>1, <2>1, <2>2 DEF EventsFound
<1>6. CallsFound(l, p, s)
  BY <1>1, <1>3, <1>4 DEF CallsFound, Onward
<1>7. ReleasedLast(p)
  <2>1. ASSUME NEW i \in 1..Len(q), q[i].type = "RELEASECALL",
               e.type \in UndroppedEvent \cup {"DROPCALL"}
        PROVE  q[i].crn # e.crn
    <3>1. k[q[i].crn] = "released"
      BY <2>1 DEF ReleasedOnce
    <3>2. k[e.crn] # "released"
      BY <2>1 DEF Undropped, Talking
    <3>3. QED
      BY <3>1, <3>2
  <2>2. QED
    BY <1>1, <2>1 DEF ReleasedLast, Findable
<1>8. LiveLast(l, p)
  <2>1. \A i \in 1..Len(q) : q[i].type = "OFFERED" => q[i].crn \in Crn
    BY DEF ReleasedOnce
  <2>2. \A i \in 1..Len(q) : Over(k, q, i) => Over(l, q, i)
    BY <2>1 DEF Over, Onward
  <2>3. \A i \in 1..Len(q) : Over(l, q, i) => Over(k, q, i)
    BY <2>1 DEF Over, Onward, Holds
  <2>4. \A i \in 1..Len(p) : Over(l, p, i) => i \in 1..Len(q) /\ Over(l, q, i)
    BY <1>1 DEF Over
  <2>5. ASSUME NEW i \in 1..Len(p), Over(l, p, i), NEW n \in Crn, l[n] \in Live
        PROVE  \E j \in 1..Len(p) : i < j /\ p[j].type = "OFFERED" /\ p[j].crn = n
    <3>1. i \in 1..Len(q) /\ Over(k, q, i) /\ k[n] \in Live
      BY <2>3, <2>4, <2>5 DEF Onward
    <3>2. PICK j \in 1..Len(q) : i < j /\ q[j].type = "OFFERED" /\ q[j].crn = n
      BY <3>1 DEF Findable, LiveLast
    <3>3. QED
      BY <1>1, <3>2
  <2>6. ASSUME NEW i \in 1..Len(p), NEW j \in 1..Len(p), i < j, p[i].type = "OFFERED",
               p[j].type = "OFFERED"
        PROVE  Over(l, p, i)
    <3>1. i \in 1..Len(q) /\ j \in 1..Len(q)
      BY <1>1, <2>6
    <3>2. Over(k, q, i)
      BY <1>1, <2>6, <3>1 DEF Findable, LiveLast
    <3>3. QED
      BY <1>1, <2>2, <3>1, <3>2 DEF Over
  <2>7. QED
    BY <2>5, <2>6 DEF LiveLast
<1>9. QED
  BY <1>5, <1>6, <1>7, <1>8 DEF Findable, p

\* A line without live calls: a reset ends, or calls are forgotten.
LEMMA FindableDead ==
    ASSUME NEW k, NEW l, NEW q \in Seq(Event), NEW s, Findable(k, q, s), NoLive(l),
           \A n \in Crn : k[n] \notin Live => l[n] \notin Live, ReleasedOnce(k, q)
    PROVE  /\ Findable(l, q, s)
           /\ \A e : e.type = "RESETLINEDEV" => Findable(l, Append(q, e), s)
<1>1. /\ \A n \in Crn : l[n] \notin Undropped /\ l[n] # "dropping"
      /\ \A i \in 1..Len(q) : q[i].type = "OFFERED" => Over(l, q, i)
  BY DEF NoLive, Live, Droppable, Undropped, Talking, ReleasedOnce, Over
<1>2. Findable(l, q, s)
  BY <1>1 DEF Findable, CallsFound, LiveLast, NoLive
<1>3. ASSUME NEW e, e.type = "RESETLINEDEV" PROVE Findable(l, Append(q, e), s)
  <2> DEFINE p == Append(q, e)
             z == Len(q) + 1
  <2>1. /\ Len(q) \in Nat /\ Len(p) = z /\ p[z] = e
        /\ \A x \in 1..Len(q) : p[x] = q[x] /\ x \in 1..(Len(q) + 1)
        /\ \A x \in 1..Len(p) : x \in 1..Len(q) \/ x = z
    OBVIOUS
  <2>2. \A n : \A i \in 1..(Len(q) + 1) :
          /\ Newest(q, s, n, i) => Newest(p, s, n, i)
          /\ Found(q, s, n, i) => Found(p, s, n, i)
    BY FoundAppend
  <2> HIDE DEF p, z
  <2>3. EventsFound(p, s)
    <3>1. ASSUME NEW i \in 1..Len(q)
          PROVE  /\ p[i].type \in UndroppedEvent => p[i].crn \in Crn /\ Newest(p, s, p[i].crn, i)
                 /\ p[i].type = "DROPCALL" => p[i].crn \in Crn /\ Found(p, s, p[i].crn, i)
      <4>1. p[i] = q[i] /\ i \in 1..(Len(q) + 1)
        BY <2>1
      <4>2. QED
        BY <2>2, <4>1 DEF Findable, EventsFound
    <3>2. e.type \notin UndroppedEvent \cup {"DROPCALL"}
      BY <1>3 DEF UndroppedEvent
    <3>3. QED
      BY <2>1, <3>1, <3>2 DEF EventsFound
  <2>4. CallsFound(l, p, s)
    BY <1>1 DEF CallsFound
  <2>5. ReleasedLast(p)
    BY <1>3, <2>1 DEF Findable, ReleasedLast, UndroppedEvent
  <2>6. LiveLast(l, p)
    <3>1. \A i \in 1..Len(p) : p[i].type = "OFFERED" => Over(l, p, i)
      BY <1>1, <1>3, <2>1 DEF Over
    <3>2. QED
      BY <3>1 DEF LiveLast, NoLive
  <2>7. QED
    BY <2>3, <2>4, <2>5, <2>6 DEF Findable, p
<1>4. QED
  BY <1>2, <1>3

\* The network offers a call while no other is live but for one that is being released.
LEMMA FindableOffer ==
    ASSUME NEW k \in [Crn -> CallState], NEW q \in Seq(Event), NEW s, Findable(k, q, s),
           ReleasedOnce(k, q), EventsOrdered(k, q), NEW n \in Crn, k[n] = "none",
           \A m \in Crn : k[m] \in Live => k[m] = "releasing"
    PROVE  Findable([k EXCEPT ![n] = "offered"], Append(q, [type |-> "OFFERED", crn |-> n]), s)
<1> DEFINE e == [type |-> "OFFERED", crn |-> n]
           l == [k EXCEPT ![n] = "offered"]
           p == Append(q, e)
           z == Len(q) + 1
<1>1. /\ Len(q) \in Nat /\ Len(p) = z /\ z \in 1..Len(p) /\ z + 1 = Len(q) + 2 /\ p[z] = e
      /\ \A x \in 1..Len(q) : p[x] = q[x] /\ x \in 1..Len(p) /\ x \in 1..(Len(q) + 1) /\ x < z
                              /\ ~(z < x)
      /\ \A x \in 1..Len(p) : x \in 1..Len(q) \/ x = z
      /\ ~(z < z) /\ e.type = "OFFERED" /\ e.crn = n
  OBVIOUS
<1>2. \A m : \A i \in 1..(Len(q) + 1) :
          /\ Newest(q, s, m, i) => Newest(p, s, m, i)
          /\ Found(q, s, m, i) => Found(p, s, m, i)
  BY FoundAppend
<1>3. Newest(p, s, n, z + 1)
  BY <1>1, NewestOffered
<1>4. \A m \in Crn : l[m] = IF m = n THEN "offered" ELSE k[m]
  OBVIOUS
<1> HIDE DEF p, z, e, l
<1>5. EventsFound(p, s)
  <2>1. ASSUME NEW i \in 1..Len(q)
        PROVE  /\ p[i].type \in UndroppedEvent => p[i].crn \in Crn /\ Newest(p, s, p[i].crn, i)
               /\ p[i].type = "DROPCALL" => p[i].crn \in Crn /\ Found(p, s, p[i].crn, i)
    <3>1. p[i] = q[i] /\ i \in 1..(Len(q) + 1)
      BY <1>1
    <3>2. QED
      BY <1>2, <3>1 DEF Findable, EventsFound
  <2>2. "OFFERED" \notin UndroppedEvent
    BY DEF UndroppedEvent
  <2>3. QED
    BY <1>1, <2>1, <2>2 DEF EventsFound
<1>6. CallsFound(l, p, s)
  <2>1. "releasing" \notin Undropped /\ \A x \in Undropped : x \in Live
    BY DEF Undropped, Talking, Live, Droppable
  <2>2. "dropping" \in Live
    BY DEF Live
  <2>3. \A m \in Crn : m # n => l[m] \notin Undropped /\ l[m] # "dropping"
    BY <1>4, <2>1, <2>2
  <2>4. QED
    BY <1>1, <1>3, <1>4, <2>3 DEF CallsFound
<1>7. ReleasedLast(p)
  <2>1. "OFFERED" \notin UndroppedEvent \cup {"DROPCALL"}
    BY DEF UndroppedEvent
  <2>2. QED
    BY <1>1, <2>1 DEF ReleasedLast, Findable
<1>8. \A i \in 1..Len(q) : q[i].type = "OFFERED" =>
          q[i].crn \in Crn /\ q[i].crn # n /\ k[q[i].crn] \notin Live
  <2> SUFFICES ASSUME NEW i \in 1..Len(q), q[i].type = "OFFERED"
               PROVE  q[i].crn \in Crn /\ q[i].crn # n /\ k[q[i].crn] \notin Live
    OBVIOUS
  <2>1. q[i].crn \in Crn /\ About(q, i, q[i].crn)
    BY DEF ReleasedOnce, About, Ranked
  <2>2. k[q[i].crn] # "none" /\ k[q[i].crn] # "releasing"
    BY <2>1 DEF EventsOrdered, Gone
  <2>3. QED
    BY <2>1, <2>2
<1>9. LiveLast(l, p)
  <2>1. \A i \in 1..Len(p) : Over(l, p, i) <=> i \in 1..Len(q) /\ Over(k, q, i)
    <3>1. "offered" \in Live
      BY DEF Live, Droppable, Talking
    <3>2. ~Over(l, p, z)
      BY <1>1, <1>4, <3>1 DEF Over
    <3>3. \A i \in 1..Len(q) : Over(l, p, i) <=> Over(k, q, i)
      BY <1>1, <1>4, <1>8 DEF Over
    <3>4. QED
      BY <1>1, <3>2, <3>3
  <2>2. ASSUME NEW i \in 1..Len(p), Over(l, p, i), NEW m \in Crn, l[m] \in Live
        PROVE  \E j \in 1..Len(p) : i < j /\ p[j].type = "OFFERED" /\ p[j].crn = m
    <3>1. i \in 1..Len(q) /\ Over(k, q, i)
      BY <2>1, <2>2
    <3>2. CASE m = n
      BY <1>1, <3>1, <3>2
    <3>3. CASE m # n
      <4>1. PICK j \in 1..Len(q) : i < j /\ q[j].type = "OFFERED" /\ q[j].crn = m
        BY <1>4, <2>2, <3>1, <3>3 DEF Findable, LiveLast
      <4>2. QED
        BY <1>1, <4>1
    <3>4. QED
      BY <3>2, <3>3
  <2>3. ASSUME NEW i \in 1..Len(p), NEW j \in 1..Len(p), i < j, p[i].type = "OFFERED"
        PROVE  Over(l, p, i)
    <3>1. i \in 1..Len(q)
      BY <1>1, <2>3
    <3>2. Over(k, q, i)
      BY <1>1, <1>8, <2>3, <3>1 DEF Over
    <3>3. QED
      BY <2>1, <3>1, <3>2
  <2>4. QED
    BY <2>2, <2>3 DEF LiveLast
<1>10. QED
  BY <1>5, <1>6, <1>7, <1>9 DEF Findable, p, e, l

\* A line with no event and no live call.
LEMMA FindableEmpty ==
    ASSUME NEW k, NEW s, NoLive(k)
    PROVE  Findable(k, <<>>, s)
<1>1. Len(<<>>) = 0 /\ \A i \in 1..0 : FALSE
  OBVIOUS
<1>2. \A n \in Crn : k[n] \notin Undropped /\ k[n] # "dropping"
  BY DEF NoLive, Live, Droppable, Undropped, Talking
<1>3. EventsFound(<<>>, s) /\ ReleasedLast(<<>>) /\ LiveLast(k, <<>>)
  BY <1>1 DEF EventsFound, ReleasedLast, LiveLast
<1>4. CallsFound(k, <<>>, s)
  BY <1>2 DEF CallsFound
<1>5. QED
  BY <1>3, <1>4 DEF Findable

-----------------------------------------------------------------------------
(* The steps that keep every call found. *)

\* What a step must show of every channel.
Trace(c) ==
    /\ Findable(call'[c], evq'[c], Calls'[c])
    /\ resets'[c] > 0 => NoLive(call'[c])

\* A channel whose calls are moved on and that is not reset.
LEMMA TraceMove ==
    ASSUME DeviceTypeOK, ChannelTypeOK, OrderInv', NEW c \in Channels,
           Findable(call[c], evq'[c], Calls'[c]), ReleasedOnce(call[c], evq'[c]),
           evq'[c] \in Seq(Event), resets[c] > 0 => NoLive(call[c]), resets'[c] = resets[c],
           Served(call[c], call'[c], Calls'[c])
    PROVE  Trace(c)
<1>1. Calls'[c][0].crn \in Crn => ~Holds(evq'[c], "OFFERED", Calls'[c][0].crn)
  <2>1. SlotsOrdered(call'[c], evq'[c], Calls'[c])
    BY DEF OrderInv, Ordered
  <2>2. 0 \in Slot /\ "OFFERED" \in Ranked
    BY DEF Slot, MAX_CALLS, Ranked
  <2>3. QED
    BY <2>1, <2>2 DEF SlotsOrdered, About, Holds
<1>2. Calls'[c][0].crn \notin Crn => ~Holds(evq'[c], "OFFERED", Calls'[c][0].crn)
  BY DEF ReleasedOnce, Holds
<1>3. Findable(call'[c], evq'[c], Calls'[c])
  BY <1>1, <1>2, FindableMove
<1>4. NoLive(call[c]) => NoLive(call'[c])
  BY DEF NoLive, Served
<1>5. QED
  BY <1>3, <1>4 DEF Trace

\* A channel where at most its calls are moved on.
LEMMA TraceServed ==
    ASSUME DeviceTypeOK, ChannelTypeOK, OrderInv', QueueInv, FoundInv, NEW c \in Channels,
           evq'[c] = evq[c], Calls'[c] = Calls[c], resets'[c] = resets[c],
           Served(call[c], call'[c], Calls[c])
    PROVE  Trace(c)
<1>1. /\ Findable(call[c], evq'[c], Calls'[c]) /\ ReleasedOnce(call[c], evq'[c])
      /\ evq'[c] \in Seq(Event) /\ (resets[c] > 0 => NoLive(call[c]))
      /\ Served(call[c], call'[c], Calls'[c])
  BY DEF FoundInv, QueueInv, DeviceTypeOK
<1>2. QED
  BY <1>1, TraceMove

\* A channel whose first event is taken, and whose slots follow it.
LEMMA TraceTaken ==
    ASSUME DeviceTypeOK, ChannelTypeOK, OrderInv, OrderInv', QueueInv, FoundInv,
           NEW c \in Channels, NEW type, TakeEvent(c, type), resets'[c] = resets[c],
           \A n \in Crn : (type = "RELEASECALL" => n # Head(evq[c]).crn) =>
                              Taken(evq[c], Calls[c], Calls'[c], n),
           Served(call[c], call'[c], Calls'[c])
    PROVE  Trace(c)
<1> DEFINE q == evq[c]
<1>1. /\ q \in Seq(Event) /\ q # <<>> /\ Head(q).type = type /\ evq'[c] = Tail(q)
      /\ Tail(q) \in Seq(Event) /\ call[c] \in [Crn -> CallState]
  BY DEF TakeEvent, DeviceTypeOK
<1>2. /\ Findable(call[c], q, Calls[c]) /\ ReleasedOnce(call[c], q) /\ EventsOrdered(call[c], q)
      /\ resets[c] > 0 => NoLive(call[c])
  BY DEF FoundInv, QueueInv, OrderInv, Ordered
<1>3. Findable(call[c], Tail(q), Calls'[c])
  BY <1>1, <1>2, FindableTake
<1>4. ReleasedOnce(call[c], Tail(q))
  BY <1>1, <1>2, ReleasedTail
<1>5. QED
  BY <1>1, <1>2, <1>3, <1>4, TraceMove

\* A channel the step does not concern.
LEMMA TraceElsewhere ==
    ASSUME DeviceTypeOK, ChannelTypeOK, OrderInv', QueueInv, FoundInv, NEW d \in Channels,
           call'[d] = call[d], evq'[d] = evq[d], Calls'[d] = Calls[d], resets'[d] = resets[d]
    PROVE  Trace(d)
<1>1. call[d] \in [Crn -> CallState]
  BY DEF DeviceTypeOK
<1>2. Served(call[d], call'[d], Calls[d])
  BY <1>1, RequestsServe
<1>3. QED
  BY <1>2, TraceServed

\* What the library and the network do.
LEMMA EnvironmentTrace ==
    ASSUME DeviceTypeOK, ChannelTypeOK, OrderInv, OrderInv', QueueInv, FoundInv,
           UNCHANGED Calls, NEW c \in Channels, Library(c) \/ Network(c), NEW d \in Channels
    PROVE  Trace(d)
<1> DEFINE k == call[c]
           q == evq[c]
<1>1. k \in [Crn -> CallState] /\ q \in Seq(Event) /\ resets[c] \in Nat
  BY DEF DeviceTypeOK
<1>2. /\ Findable(k, q, Calls[c]) /\ ReleasedOnce(k, q) /\ EventsOrdered(k, q)
      /\ resets[c] > 0 => NoLive(k)
  BY DEF FoundInv, QueueInv, OrderInv, Ordered
<1>3. CASE d # c
  <2>1. call'[d] = call[d] /\ evq'[d] = evq[d] /\ resets'[d] = resets[d]
    BY <1>3 DEF Library, Network, OpenDone, OpenFails, Unblock, Block, PlayDone, ResetDone,
                Complete, Offer, HangUp, TaskFails, Raise, DeviceTypeOK
  <2>2. QED
    BY <2>1, TraceElsewhere
<1>4. ASSUME NEW type \in LineEvent \cup CallEvent, NEW n \in Crn \cup {NoCrn}, Raise(c, type, n),
             UNCHANGED resets, NEW l, call'[c] = l, Onward(k, l, q),
             type \notin {"OFFERED", "RESETLINEDEV"},
             type \in UndroppedEvent => n \in Crn /\ k[n] \in Undropped,
             type = "DROPCALL" => n \in Crn /\ k[n] = "dropping"
      PROVE  Trace(c)
  <2> DEFINE e == [type |-> type, crn |-> n]
  <2>1. evq'[c] = Append(q, e)
    BY <1>4 DEF Raise, DeviceTypeOK
  <2>2. e \in Event /\ e.type = type /\ e.crn = n
    BY <1>4 DEF Event
  <2> HIDE DEF e
  <2>3. Findable(l, Append(q, e), Calls[c])
    BY <1>1, <1>2, <1>4, <2>2, FindableRaise
  <2>4. NoLive(k) => NoLive(l)
    BY <1>4 DEF NoLive, Onward
  <2>5. QED
    BY <1>2, <1>4, <2>1, <2>3, <2>4 DEF Trace
<1>5. ASSUME OpenDone(c) \/ OpenFails(c) \/ Unblock(c) \/ Block(c) \/ PlayDone(c)
      PROVE  Trace(c)
  <2>1. PICK type \in LineEvent \ {"RESETLINEDEV"} :
            Raise(c, type, NoCrn) /\ UNCHANGED call /\ UNCHANGED resets
    BY <1>5 DEF OpenDone, OpenFails, Unblock, Block, PlayDone, LineEvent
  <2>2. type \in LineEvent \cup CallEvent /\ type \notin {"OFFERED", "RESETLINEDEV", "DROPCALL"}
        /\ type \notin UndroppedEvent
    BY <2>1 DEF LineEvent, UndroppedEvent
  <2>3. Onward(k, k, q) /\ call'[c] = k
    BY <2>1 DEF Onward
  <2>4. QED
    BY <1>4, <2>1, <2>2, <2>3
<1>6. CASE ResetDone(c) /\ d = c
  <2>1. /\ call'[c] = k /\ resets[c] > 0 /\ resets'[c] = resets[c] - 1
        /\ evq'[c] = Append(q, [type |-> "RESETLINEDEV", crn |-> NoCrn])
    BY <1>6 DEF ResetDone, Raise, DeviceTypeOK
  <2>2. NoLive(k)
    BY <1>2, <2>1
  <2>3. Findable(k, evq'[c], Calls[c])
    BY <1>1, <1>2, <2>1, <2>2, FindableDead
  <2>4. QED
    BY <1>6, <2>1, <2>2, <2>3 DEF Trace
<1>7. ASSUME NEW n \in Crn, NEW new \in CallState, NEW type \in LineEvent \cup CallEvent,
             Raise(c, type, n), UNCHANGED resets, call' = [call EXCEPT ![c][n] = new],
             k[n] \in Live, new \in Undropped => k[n] \in Undropped, new # "dropping",
             new \notin Live => ~Holds(q, "OFFERED", n),
             type \notin {"OFFERED", "RESETLINEDEV"},
             type \in UndroppedEvent => k[n] \in Undropped,
             type = "DROPCALL" => k[n] = "dropping"
      PROVE  Trace(c)
  <2> DEFINE l == [k EXCEPT ![n] = new]
  <2>1. call'[c] = l
    BY <1>7 DEF DeviceTypeOK
  <2>2. \A m \in Crn : l[m] = IF m = n THEN new ELSE k[m]
    BY <1>1
  <2> HIDE DEF l
  <2>3. Onward(k, l, q)
    BY <1>7, <2>2 DEF Onward
  <2>4. QED
    BY <1>4, <1>7, <2>1, <2>3
<1>8. ASSUME NEW n \in Crn, \/ Complete(c, n) \/ Offer(c, n) \/ HangUp(c, n) \/ TaskFails(c, n)
      PROVE  Trace(c)
  <2>1. CASE Offer(c, n)
    <3>1. /\ k[n] = "none" /\ UNCHANGED resets /\ resets[c] = 0
          /\ call'[c] = [k EXCEPT ![n] = "offered"]
          /\ evq'[c] = Append(q, [type |-> "OFFERED", crn |-> n])
      BY <2>1 DEF Offer, Raise, DeviceTypeOK
    <3>2. \A m \in Crn : k[m] \in Live => k[m] = "releasing"
      BY <2>1 DEF Offer
    <3>3. Findable([k EXCEPT ![n] = "offered"], Append(q, [type |-> "OFFERED", crn |-> n]),
                   Calls[c])
      <4>1. /\ k \in [Crn -> CallState] /\ q \in Seq(Event) /\ Findable(k, q, Calls[c])
            /\ ReleasedOnce(k, q) /\ EventsOrdered(k, q) /\ k[n] = "none"
        BY <1>1, <1>2, <3>1
      <4> HIDE DEF k, q
      <4>2. QED
        BY <3>2, <4>1, FindableOffer
    <3>4. QED
      BY <3>1, <3>3 DEF Trace
  <2>2. CASE Complete(c, n)
    <3>1. k[n] \in Pending /\ UNCHANGED resets
      BY <2>2 DEF Complete
    <3>2. /\ Completion[k[n]].state \in CallState \ {"dropping"} /\ k[n] \in Live
          /\ Completion[k[n]].event \in CallEvent \ {"OFFERED", "RESETLINEDEV"}
          /\ Completion[k[n]].state \in Undropped => k[n] \in Undropped
          /\ Completion[k[n]].event \in UndroppedEvent => k[n] \in Undropped
          /\ Completion[k[n]].event = "DROPCALL" => k[n] = "dropping"
          /\ Completion[k[n]].state \notin Live => k[n] = "releasing"
      BY <3>1 DEF Completion, Pending, Live, Droppable, Talking, CallEvent, CallState, Undropped,
                  UndroppedEvent
    <3>3. k[n] = "releasing" => ~Holds(q, "OFFERED", n)
      BY <1>2 DEF EventsOrdered, Gone, About, Ranked, Holds
    <3>4. /\ Raise(c, Completion[k[n]].event, n)
          /\ call' = [call EXCEPT ![c][n] = Completion[k[n]].state]
      BY <2>2 DEF Complete
    <3>5. Completion[k[n]].event \in LineEvent \cup CallEvent
      BY <3>2
    <3>6. QED
      BY <1>7, <3>1, <3>2, <3>3, <3>4, <3>5
  <2>3. CASE HangUp(c, n)
    <3>1. /\ k[n] \in Live /\ k[n] \in Undropped /\ "disconnected" \in Live
          /\ "disconnected" \in CallState /\ "DISCONNECTED" \in LineEvent \cup CallEvent
      BY <2>3 DEF HangUp, Live, Droppable, CallEvent, Undropped, CallState
    <3>2. /\ Raise(c, "DISCONNECTED", n) /\ call' = [call EXCEPT ![c][n] = "disconnected"]
          /\ UNCHANGED resets
      BY <2>3 DEF HangUp
    <3>3. QED
      BY <1>7, <3>1, <3>2
  <2>4. CASE TaskFails(c, n)
    <3>1. /\ k[n] \in Live /\ "failed" \notin Undropped /\ "failed" \in Live
          /\ "failed" \in CallState /\ "TASKFAIL" \in LineEvent \cup CallEvent
          /\ "TASKFAIL" \notin UndroppedEvent
      BY <2>4 DEF TaskFails, Pending, Live, Droppable, Talking, Undropped, UndroppedEvent,
                  CallState, LineEvent
    <3>2. /\ Raise(c, "TASKFAIL", n) /\ call' = [call EXCEPT ![c][n] = "failed"]
          /\ UNCHANGED resets
      BY <2>4 DEF TaskFails
    <3>3. QED
      BY <1>7, <3>1, <3>2
  <2>5. QED
    BY <1>8, <2>1, <2>2, <2>3, <2>4
<1>9. QED
  BY <1>3, <1>5, <1>6, <1>8 DEF Library, Network

\* The slots follow the first event.
LEMMA TakenSlots ==
    ASSUME NEW q, NEW s \in [Slot -> CallInfo], NEW t, NEW n \in Crn,
           \/ t = s /\ Head(q).type # "OFFERED"
           \/ (\E m, state : t = WithSState(s, m, state)) /\ Head(q).type # "OFFERED"
           \/ (\E m : m # n /\ t = Emptied(s, m)) /\ Head(q).type # "OFFERED"
           \/ t = RegNewCall(s, Head(q).crn, "OFFERED") /\ Head(q).type = "OFFERED"
           \/ Head(q).type = "RESETLINEDEV"
    PROVE  Taken(q, s, t, n)
<1>1. 0 \in Slot /\ 1 \in Slot /\ 1 - 1 = 0
  BY DEF Slot, MAX_CALLS
<1>2. CASE t = s /\ Head(q).type # "OFFERED"
  BY <1>2 DEF Taken
<1>3. CASE (\E m, state : t = WithSState(s, m, state)) /\ Head(q).type # "OFFERED"
  <2>1. PICK m, state : t = WithSState(s, m, state)
    BY <1>3
  <2>2. \A x \in Slot : t[x].crn = s[x].crn
    BY <2>1 DEF WithSState, CallInfo
  <2>3. QED
    BY <1>1, <1>3, <2>2 DEF Taken
<1>4. CASE (\E m : m # n /\ t = Emptied(s, m)) /\ Head(q).type # "OFFERED"
  <2>1. PICK m : m # n /\ t = Emptied(s, m)
    BY <1>4
  <2>2. \A x \in Slot : s[x].crn = n => t[x] = s[x]
    BY <2>1 DEF Emptied, GetCallNdx
  <2>3. QED
    BY <1>1, <1>4, <2>2 DEF Taken
<1>5. CASE t = RegNewCall(s, Head(q).crn, "OFFERED") /\ Head(q).type = "OFFERED"
  <2>1. t[0].crn = Head(q).crn
    BY <1>1, <1>5 DEF RegNewCall
  <2>2. t[1].crn = s[0].crn
    BY <1>1, <1>5 DEF RegNewCall
  <2>3. QED
    BY <1>5, <2>1, <2>2 DEF Taken
<1>6. CASE Head(q).type = "RESETLINEDEV"
  BY <1>6 DEF Taken
<1>7. QED
  BY <1>2, <1>3, <1>4, <1>5, <1>6

\* A first event of a call finds it: in slot 0 if nobody dropped the call.
LEMMA HeadFound ==
    ASSUME FoundInv, DeviceTypeOK, NEW c \in Channels, evq[c] # <<>>
    PROVE  /\ Head(evq[c]).type \in UndroppedEvent =>
                  Head(evq[c]).crn \in Crn /\ Calls[c][0].crn = Head(evq[c]).crn
           /\ Head(evq[c]).type \in UndroppedEvent \cup {"DROPCALL"} =>
                  Registered(Calls[c], Head(evq[c]).crn)
<1> DEFINE q == evq[c]
<1>1. q \in Seq(Event) /\ q # <<>> /\ Findable(call[c], q, Calls[c])
  BY DEF FoundInv, DeviceTypeOK
<1>2. 1 \in 1..Len(q) /\ Head(q) = q[1]
  BY <1>1
<1>3. 0 \in Slot /\ 1 \in Slot
  BY DEF Slot, MAX_CALLS
<1>4. EventsFound(q, Calls[c])
  BY <1>1 DEF Findable
<1>5. /\ q[1].type \in UndroppedEvent => q[1].crn \in Crn /\ Newest(q, Calls[c], q[1].crn, 1)
      /\ q[1].type = "DROPCALL" => Found(q, Calls[c], q[1].crn, 1)
  BY <1>2, <1>4 DEF EventsFound
<1>6. /\ q[1].type \in UndroppedEvent => q[1].crn \in Crn /\ Calls[c][0].crn = q[1].crn
      /\ q[1].type = "DROPCALL" => Calls[c][0].crn = q[1].crn \/ Calls[c][1].crn = q[1].crn
  BY <1>1, <1>5, FoundFirst
<1>7. QED
  BY <1>2, <1>3, <1>6 DEF Registered

\* The handlers both programs share.
LEMMA HandlerTrace ==
    ASSUME DeviceTypeOK, ChannelTypeOK, OrderInv, OrderInv', QueueInv, FoundInv,
           NEW c \in Channels, OnLine(c) \/ OnCall(c) \/ OnFailure(c), NEW d \in Channels
    PROVE  Trace(d)
<1> DEFINE k == call[c]
           q == evq[c]
           s == Calls[c]
<1>1. k \in [Crn -> CallState] /\ q \in Seq(Event) /\ s \in [Slot -> CallInfo]
  BY DEF DeviceTypeOK, ChannelTypeOK
<1>2. ASSUME NEW type, TakeEvent(c, type)
      PROVE  q # <<>> /\ Head(q).type = type
  BY <1>2 DEF TakeEvent
<1>3. CASE d # c
  <2>1. call'[d] = call[d] /\ evq'[d] = evq[d] /\ Calls'[d] = Calls[d] /\ resets'[d] = resets[d]
    BY <1>3 DEF OnLine, OnCall, OnFailure, OnLogged, OnUnblocked, OnUnblockedNoVoice, OnAccept,
                OnDisconnected, OnDropCall, OnReleaseCall, OnResetLineDev, OnTaskFail, TakeEvent,
                channelVars, DeviceTypeOK, ChannelTypeOK
  <2>2. QED
    BY <2>1, TraceElsewhere
<1>4. ASSUME OnLine(c) PROVE Trace(c)
  <2>1. PICK type : /\ type \notin {"OFFERED", "RELEASECALL"} /\ TakeEvent(c, type)
                    /\ call' = call /\ Calls' = Calls /\ resets' = resets
    BY <1>4 DEF OnLine, OnLogged, OnUnblocked, OnUnblockedNoVoice, channelVars
  <2>2. \A n \in Crn : Taken(q, s, Calls'[c], n)
    BY <1>1, <1>2, <2>1, TakenSlots
  <2>3. Served(k, call'[c], Calls'[c])
    BY <1>1, <2>1, RequestsServe
  <2>4. QED
    BY <2>1, <2>2, <2>3, TraceTaken
<1>5. ASSUME OnAccept(c) \/ OnDisconnected(c) \/ OnDropCall(c) PROVE Trace(c)
  <2>1. PICK type \in {"ACCEPT", "DISCONNECTED", "DROPCALL"} :
            /\ TakeEvent(c, type) /\ resets' = resets
            /\ \E state : Calls'[c] = WithSState(s, Head(q).crn, state)
    BY <1>5 DEF OnAccept, OnDisconnected, OnDropCall, ChannelTypeOK
  <2>2. \A n \in Crn : Taken(q, s, Calls'[c], n)
    BY <1>1, <1>2, <2>1, TakenSlots
  <2>3. Calls'[c][0].crn = s[0].crn
    <3>1. 0 \in Slot
      BY DEF Slot, MAX_CALLS
    <3>2. QED
      BY <1>1, <2>1, <3>1 DEF WithSState, CallInfo
  <2>4. Served(k, call'[c], Calls'[c])
    <3>1. CASE OnAccept(c)
      <4>1. call'[c] = gc_AnswerCall(k, Head(q).crn)
        BY <3>1 DEF OnAccept, DeviceTypeOK
      <4>2. QED
        BY <1>1, <4>1, RequestsServe
    <3>2. CASE OnDropCall(c)
      <4>1. call'[c] = gc_ReleaseCallEx(k, Head(q).crn)
        BY <3>2 DEF OnDropCall, DeviceTypeOK
      <4>2. QED
        BY <1>1, <4>1, RequestsServe
    <3>3. CASE OnDisconnected(c)
      <4>1. call'[c] = k \/ call'[c] = gc_DropCall(k, Head(q).crn)
        BY <3>3 DEF OnDisconnected, DeviceTypeOK
      <4>2. q # <<>> /\ Head(q).type = "DISCONNECTED"
        BY <1>2, <3>3 DEF OnDisconnected
      <4>3. s[0].crn = Head(q).crn
        BY <4>2, HeadFound DEF UndroppedEvent
      <4>4. QED
        BY <1>1, <2>3, <4>1, <4>3, RequestsServe
    <3>4. QED
      BY <1>5, <3>1, <3>2, <3>3
  <2>5. QED
    BY <2>1, <2>2, <2>4, TraceTaken
<1>6. ASSUME OnReleaseCall(c) PROVE Trace(c)
  <2>1. /\ TakeEvent(c, "RELEASECALL") /\ call' = call /\ resets' = resets
        /\ Calls'[c] = Emptied(s, Head(q).crn)
    BY <1>6 DEF OnReleaseCall, ChannelTypeOK
  <2>2. \A n \in Crn : n # Head(q).crn => Taken(q, s, Calls'[c], n)
    BY <1>1, <1>2, <2>1, TakenSlots
  <2>3. Served(k, call'[c], Calls'[c])
    BY <1>1, <2>1, RequestsServe
  <2>4. QED
    BY <2>1, <2>2, <2>3, TraceTaken
<1>7. ASSUME OnResetLineDev(c) PROVE Trace(c)
  <2>1. TakeEvent(c, "RESETLINEDEV") /\ call' = call /\ resets' = resets
    BY <1>7 DEF OnResetLineDev
  <2>2. \A n \in Crn : Taken(q, s, Calls'[c], n)
    BY <1>1, <1>2, <2>1, TakenSlots
  <2>3. Served(k, call'[c], Calls'[c])
    BY <1>1, <2>1, RequestsServe
  <2>4. QED
    BY <2>1, <2>2, <2>3, TraceTaken
<1>8. ASSUME OnTaskFail(c) PROVE Trace(c)
  <2>1. /\ TakeEvent(c, "TASKFAIL") /\ call'[c] = Cleared(k) /\ Calls' = Calls
        /\ evq'[c] = Tail(q) /\ Tail(q) \in Seq(Event) /\ q # <<>>
    BY <1>8 DEF OnTaskFail, channelVars, TakeEvent, DeviceTypeOK
  <2>2. \A n \in Crn : Taken(q, s, s, n)
    BY <1>1, <1>2, <2>1, TakenSlots
  <2>3. Findable(k, q, s) /\ ReleasedOnce(k, q)
    BY DEF FoundInv, QueueInv
  <2>4. Findable(k, Tail(q), s) /\ ReleasedOnce(k, Tail(q))
    BY <1>1, <2>1, <2>2, <2>3, FindableTake, ReleasedTail
  <2>5. NoLive(Cleared(k))
    BY ClearedNoLive
  <2>6. Findable(Cleared(k), Tail(q), s)
    BY <2>1, <2>4, <2>5, FindableDead DEF NoLive
  <2>7. QED
    BY <2>1, <2>5, <2>6 DEF Trace
<1>9. QED
  BY <1>3, <1>4, <1>5, <1>6, <1>7, <1>8 DEF OnCall, OnFailure

\* A new call is registered, and is moved on or dropped at once.
LEMMA NewCallTrace ==
    ASSUME DeviceTypeOK, ChannelTypeOK, OrderInv, OrderInv', QueueInv, FoundInv,
           NEW c \in Channels, NewCall(c), NEW m, m = Head(evq[c]).crn,
           \/ call' = call
           \/ call' = [call EXCEPT ![c] = gc_CallAck(@, m)]
           \/ call' = [call EXCEPT ![c] = gc_AcceptCall(@, m)]
           \/ call' = [call EXCEPT ![c] = gc_AnswerCall(@, m)]
           \/ call' = [call EXCEPT ![c] = gc_DropCall(@, m)],
           NEW d \in Channels
    PROVE  Trace(d)
<1> DEFINE k == call[c]
           q == evq[c]
           s == Calls[c]
<1>1. k \in [Crn -> CallState] /\ s \in [Slot -> CallInfo]
  BY DEF DeviceTypeOK, ChannelTypeOK
<1>2. /\ TakeEvent(c, "OFFERED") /\ Head(q).type = "OFFERED" /\ resets' = resets
      /\ Calls'[c] = RegNewCall(s, Head(q).crn, "OFFERED")
  BY DEF NewCall, TakeEvent, ChannelTypeOK
<1>3. CASE d # c
  <2>1. call'[d] = call[d] /\ evq'[d] = evq[d] /\ Calls'[d] = Calls[d] /\ resets'[d] = resets[d]
    BY <1>3 DEF NewCall, TakeEvent, DeviceTypeOK, ChannelTypeOK
  <2>2. QED
    BY <2>1, TraceElsewhere
<1>4. \A n \in Crn : Taken(q, s, Calls'[c], n)
  BY <1>1, <1>2, TakenSlots
<1>5. Calls'[c][0].crn = m
  <2>1. 0 \in Slot
    BY DEF Slot, MAX_CALLS
  <2>2. QED
    BY <1>2, <2>1 DEF RegNewCall
<1>6. Served(k, call'[c], Calls'[c])
  <2>1. \/ call'[c] = k
        \/ call'[c] = gc_CallAck(k, m)
        \/ call'[c] = gc_AcceptCall(k, m)
        \/ call'[c] = gc_AnswerCall(k, m)
        \/ call'[c] = gc_DropCall(k, m)
    BY DEF DeviceTypeOK
  <2>2. QED
    BY <1>1, <1>5, <2>1, RequestsServe
<1>7. Trace(c)
  BY <1>2, <1>4, <1>6, TraceTaken
<1>8. QED
  BY <1>3, <1>7

\* Taking an event that leaves the slots' calls, and moving calls on.
LEMMA HandledTrace ==
    ASSUME DeviceTypeOK, ChannelTypeOK, OrderInv, OrderInv', QueueInv, FoundInv,
           NEW c \in Channels, NEW type, TakeEvent(c, type), type \notin {"OFFERED", "RELEASECALL"},
           UNCHANGED resets,
           \/ UNCHANGED Calls
           \/ \E n, state : Calls' = [Calls EXCEPT ![c] = WithSState(@, n, state)],
           NEW m,
           \/ call' = call
           \/ call' = [call EXCEPT ![c] = gc_AcceptCall(@, m)]
           \/ call' = [call EXCEPT ![c] = gc_AnswerCall(@, m)]
           \/ call' = [call EXCEPT ![c] = gc_DropCall(@, m)] /\ Calls[c][0].crn = m,
           NEW d \in Channels
    PROVE  Trace(d)
<1> DEFINE k == call[c]
           q == evq[c]
           s == Calls[c]
<1>1. k \in [Crn -> CallState] /\ s \in [Slot -> CallInfo] /\ Head(q).type = type
  BY DEF DeviceTypeOK, ChannelTypeOK, TakeEvent
<1>2. CASE d # c
  <2>1. call'[d] = call[d] /\ evq'[d] = evq[d] /\ Calls'[d] = Calls[d] /\ resets'[d] = resets[d]
    BY <1>2 DEF TakeEvent, DeviceTypeOK, ChannelTypeOK
  <2>2. QED
    BY <2>1, TraceElsewhere
<1>3. Calls'[c] = s \/ \E n, state : Calls'[c] = WithSState(s, n, state)
  BY DEF ChannelTypeOK
<1>4. \A n \in Crn : Taken(q, s, Calls'[c], n)
  BY <1>1, <1>3, TakenSlots
<1>5. Calls'[c][0].crn = s[0].crn
  <2>1. 0 \in Slot
    BY DEF Slot, MAX_CALLS
  <2>2. QED
    BY <1>1, <1>3, <2>1 DEF WithSState, CallInfo
<1>6. Served(k, call'[c], Calls'[c])
  <2>1. \/ call'[c] = k
        \/ call'[c] = gc_AcceptCall(k, m)
        \/ call'[c] = gc_AnswerCall(k, m)
        \/ call'[c] = gc_DropCall(k, m) /\ s[0].crn = m
    BY DEF DeviceTypeOK
  <2>2. ASSUME NEW t
        PROVE  /\ Served(k, k, t) /\ Served(k, gc_AcceptCall(k, m), t)
               /\ Served(k, gc_AnswerCall(k, m), t)
               /\ t[0].crn = m => Served(k, gc_DropCall(k, m), t)
    BY <1>1, RequestsServe
  <2> HIDE DEF k
  <2>3. QED
    BY <1>5, <2>1, <2>2
<1>7. Trace(c)
  BY <1>4, <1>6, TraceTaken
<1>8. QED
  BY <1>2, <1>7

\* The signal handler drops what is in slot 0; closing a line leaves nothing to find.
LEMMA EndingTrace ==
    ASSUME DeviceTypeOK, ChannelTypeOK, OrderInv', QueueInv, FoundInv,
           intr_hdlr \/ CloseIdleLines, NEW d \in Channels
    PROVE  Trace(d)
<1>1. call[d] \in [Crn -> CallState]
  BY DEF DeviceTypeOK
<1>2. CASE intr_hdlr
  <2>1. /\ evq'[d] = evq[d] /\ Calls'[d] = Calls[d] /\ resets'[d] = resets[d]
        /\ call'[d] = call[d] \/ call'[d] = gc_DropCall(call[d], Calls[d][0].crn)
    BY <1>2 DEF intr_hdlr
  <2>2. Served(call[d], call'[d], Calls[d])
    BY <1>1, <2>1, RequestsServe
  <2>3. QED
    BY <2>1, <2>2, TraceServed
<1>3. CASE CloseIdleLines /\ Closable(d)
  <2>1. call'[d] = Cleared(call[d]) /\ evq'[d] = <<>> /\ resets'[d] = 0
    BY <1>3 DEF CloseIdleLines
  <2>2. NoLive(Cleared(call[d]))
    BY ClearedNoLive
  <2>3. QED
    BY <2>1, <2>2, FindableEmpty DEF Trace
<1>4. CASE CloseIdleLines /\ ~Closable(d)
  <2>1. call'[d] = call[d] /\ evq'[d] = evq[d] /\ Calls'[d] = Calls[d] /\ resets'[d] = resets[d]
    BY <1>4 DEF CloseIdleLines
  <2>2. QED
    BY <2>1, TraceElsewhere
<1>5. QED
  BY <1>2, <1>3, <1>4

\* InitChannels: there is no call to be found.
LEMMA FoundInit == DeviceInit /\ ChannelInit => FoundInv
<1> SUFFICES ASSUME DeviceInit, NEW c \in Channels
             PROVE  /\ Findable(call[c], evq[c], Calls[c])
                    /\ resets[c] > 0 => NoLive(call[c])
  BY DEF FoundInv
<1>1. evq[c] = <<>> /\ call[c] = [n \in Crn |-> "none"]
  BY DEF DeviceInit
<1>2. NoLive(call[c])
  BY <1>1 DEF NoLive, Live, Droppable, Talking
<1>3. QED
  BY <1>1, <1>2, FindableEmpty

\* The event that is handled next finds its call.
LEMMA FoundImplies == DeviceTypeOK /\ FoundInv => CallIsFound
<1> SUFFICES ASSUME DeviceTypeOK, FoundInv, NEW c \in Channels, evq[c] # <<>>,
                    Head(evq[c]).type \in CallEvent \ {"OFFERED", "RELEASECALL"}
             PROVE  Registered(Calls[c], Head(evq[c]).crn)
  BY DEF CallIsFound
<1>1. Head(evq[c]).type \in UndroppedEvent \cup {"DROPCALL"}
  BY DEF CallEvent, UndroppedEvent
<1>2. QED
  BY <1>1, HeadFound

-----------------------------------------------------------------------------
(* A call is answered once. *)

\* A call that is not answered yet, and may be.
Early == {"none", "offered", "acking", "acked", "accepting", "accepted", "answering"}

\* ANSWERED is queued at most once for a call, and then the call was answered.
AnswersOnce(k, q) ==
    \A i \in 1..Len(q) : q[i].type = "ANSWERED" =>
        /\ q[i].crn \in Crn /\ k[q[i].crn] \notin Early
        /\ \A j \in 1..Len(q) : (q[j].type = "ANSWERED" /\ q[j].crn = q[i].crn) => i = j

\* Of the first h calls, those whose ANSWERED has been taken or will never come.
Answered(k, q, h) ==
    {n \in Crn : n <= h /\ k[n] \notin Early /\ ~Holds(q, "ANSWERED", n)}

\* What the functions of the library, a reset and the closing of a line make of calls.
Requests(k, m) == {k, gc_CallAck(k, m), gc_AcceptCall(k, m), gc_AnswerCall(k, m),
                   gc_DropCall(k, m), gc_ReleaseCallEx(k, m), Cleared(k)}

\* Calls nothing was asked of are among them.
LEMMA RequestsNothing == \A k, m : k \in Requests(k, m)
BY DEF Requests

\* None of them offers a call.
LEMMA NoneRequested ==
    ASSUME NEW k \in [Crn -> CallState], NEW m, NEW l \in Requests(k, m)
    PROVE  l \in [Crn -> CallState] /\ \A n \in Crn : (l[n] = "none") <=> (k[n] = "none")
<1>1. \A from, to : "none" \notin from /\ to # "none" =>
          \A n \in Crn : (Request(k, m, from, to)[n] = "none") <=> (k[n] = "none")
  BY DEF Request
<1>2. "none" \notin Unanswered /\ "none" \notin Droppable
  BY DEF Unanswered, Droppable, Talking
<1>3. \A n \in Crn : (Cleared(k)[n] = "none") <=> (k[n] = "none")
  BY DEF Cleared
<1>4. /\ \A n \in Crn : (gc_CallAck(k, m)[n] = "none") <=> (k[n] = "none")
      /\ \A n \in Crn : (gc_AcceptCall(k, m)[n] = "none") <=> (k[n] = "none")
      /\ \A n \in Crn : (gc_AnswerCall(k, m)[n] = "none") <=> (k[n] = "none")
      /\ \A n \in Crn : (gc_DropCall(k, m)[n] = "none") <=> (k[n] = "none")
      /\ \A n \in Crn : (gc_ReleaseCallEx(k, m)[n] = "none") <=> (k[n] = "none")
  BY <1>1, <1>2 DEF gc_CallAck, gc_AcceptCall, gc_AnswerCall, gc_DropCall,
     gc_ReleaseCallEx
<1>5. QED
  BY <1>3, <1>4, RequestType DEF Requests

\* No function of the library makes a call early again.
LEMMA RequestsNotEarly ==
    ASSUME NEW k \in [Crn -> CallState], NEW m, NEW l \in Requests(k, m), NEW n \in Crn,
           k[n] \notin Early
    PROVE  l[n] \notin Early
<1>1. \A from, to : (from \subseteq Early \/ to \notin Early) =>
          Request(k, m, from, to)[n] \notin Early
  BY DEF Request
<1>2. /\ Unanswered \subseteq Early
      /\ "dropping" \notin Early /\ "releasing" \notin Early /\ "released" \notin Early
  BY DEF Unanswered, Early
<1>3. Cleared(k)[n] \notin Early
  BY <1>2 DEF Cleared, Early
<1>4. /\ gc_CallAck(k, m)[n] \notin Early /\ gc_AcceptCall(k, m)[n] \notin Early
      /\ gc_AnswerCall(k, m)[n] \notin Early
      /\ gc_DropCall(k, m)[n] \notin Early /\ gc_ReleaseCallEx(k, m)[n] \notin Early
  <2>1. {"offered"} \subseteq Early /\ Unanswered \ {"accepted"} \subseteq Early
    BY <1>2 DEF Early
  <2>2. QED
    BY <1>1, <1>2, <2>1 DEF gc_CallAck, gc_AcceptCall, gc_AnswerCall, gc_DropCall,
       gc_ReleaseCallEx
<1>5. QED
  BY <1>3, <1>4 DEF Requests

\* What a step of one channel may do without answering a call.
Shifts(q, p) ==
    \/ p = q
    \/ q # <<>> /\ p = Tail(q)
    \/ p = <<>>
    \/ \E e : e.type # "ANSWERED" /\ p = Append(q, e)

\* The calls move on and an event is taken, or raised that answers none.
LEMMA OnceShifted ==
    ASSUME NEW k, NEW l, \A n \in Crn : k[n] \notin Early => l[n] \notin Early,
           NEW q \in Seq(Event), NEW p, Shifts(q, p), AnswersOnce(k, q)
    PROVE  /\ AnswersOnce(l, p)
           /\ \A g, h \in Nat : g <= h => Answered(k, q, g) \subseteq Answered(l, p, h)
<1>1. \A n : Holds(p, "ANSWERED", n) => Holds(q, "ANSWERED", n)
  <2>1. \A n : ~Holds(<<>>, "ANSWERED", n)
    BY DEF Holds
  <2>2. (q # <<>> /\ p = Tail(q)) => \A n : Holds(p, "ANSWERED", n) => Holds(q, "ANSWERED", n)
    BY HoldsTail
  <2>3. ASSUME NEW e, e.type # "ANSWERED", p = Append(q, e), NEW n, Holds(p, "ANSWERED", n)
        PROVE  Holds(q, "ANSWERED", n)
    BY <2>3, HoldsAppend
  <2>4. QED
    BY <2>1, <2>2, <2>3 DEF Shifts
<1>2. \A g, h \in Nat : g <= h => Answered(k, q, g) \subseteq Answered(l, p, h)
  BY <1>1 DEF Answered, Crn
<1>3. PICK b \in {0, 1} : \A i \in 1..Len(p) : p[i].type = "ANSWERED" =>
          i + b \in 1..Len(q) /\ p[i] = q[i + b]
  <2>1. CASE p = q
    BY <2>1
  <2>2. CASE q # <<>> /\ p = Tail(q)
    BY <2>2
  <2>3. CASE p = <<>>
    BY <2>3
  <2>4. CASE \E e : e.type # "ANSWERED" /\ p = Append(q, e)
    <3>1. PICK e : e.type # "ANSWERED" /\ p = Append(q, e)
      BY <2>4
    <3>2. \A i \in 1..Len(p) : (i \in 1..Len(q) /\ p[i] = q[i]) \/ p[i] = e
      BY <3>1
    <3>3. \A i \in 1..Len(p) : p[i].type = "ANSWERED" => i + 0 \in 1..Len(q) /\ p[i] = q[i + 0]
      BY <3>1, <3>2
    <3>4. QED
      BY <3>3
  <2>5. QED
    BY <2>1, <2>2, <2>3, <2>4 DEF Shifts
<1>4. ASSUME NEW i \in 1..Len(p), p[i].type = "ANSWERED"
      PROVE  /\ p[i].crn \in Crn /\ l[p[i].crn] \notin Early
             /\ \A j \in 1..Len(p) : (p[j].type = "ANSWERED" /\ p[j].crn = p[i].crn) => i = j
  <2>1. i + b \in 1..Len(q) /\ p[i] = q[i + b]
    BY <1>3, <1>4
  <2>2. /\ p[i].crn \in Crn /\ k[p[i].crn] \notin Early
        /\ \A j \in 1..Len(q) : (q[j].type = "ANSWERED" /\ q[j].crn = p[i].crn) => i + b = j
    BY <1>4, <2>1 DEF AnswersOnce
  <2>3. ASSUME NEW j \in 1..Len(p), p[j].type = "ANSWERED", p[j].crn = p[i].crn PROVE i = j
    <3>1. j + b \in 1..Len(q) /\ p[j] = q[j + b]
      BY <1>3, <2>3
    <3>2. i + b = j + b
      BY <2>2, <2>3, <3>1
    <3>3. QED
      BY <3>2
  <2>4. QED
    BY <2>2, <2>3
<1>5. QED
  BY <1>2, <1>4 DEF AnswersOnce

\* An operation that answers a call does it once.
LEMMA OnceAnswered ==
    ASSUME NEW k \in [Crn -> CallState], NEW q \in Seq(Event), AnswersOnce(k, q),
           NEW n \in Crn, k[n] = "answering"
    PROVE  LET l == [k EXCEPT ![n] = "connected"]
               p == Append(q, [type |-> "ANSWERED", crn |-> n])
           IN  /\ AnswersOnce(l, p)
               /\ \A h \in Nat : Answered(k, q, h) \subseteq Answered(l, p, h)
<1> DEFINE e == [type |-> "ANSWERED", crn |-> n]
           l == [k EXCEPT ![n] = "connected"]
           p == Append(q, e)
<1>1. /\ k[n] \in Early /\ l[n] \notin Early
      /\ \A m \in Crn : k[m] \notin Early => (l[m] \notin Early /\ m # n)
  BY DEF Early
<1>2. \A m : Holds(p, "ANSWERED", m) <=> Holds(q, "ANSWERED", m) \/ m = n
  BY HoldsAppend
<1>3. \A i \in 1..Len(q) : q[i].type = "ANSWERED" =>
          /\ q[i].crn \in Crn /\ l[q[i].crn] \notin Early /\ q[i].crn # n
          /\ \A j \in 1..Len(q) : (q[j].type = "ANSWERED" /\ q[j].crn = q[i].crn) => i = j
  BY <1>1 DEF AnswersOnce
<1>4. /\ e.type = "ANSWERED" /\ e.crn = n
      /\ \A i \in 1..Len(p) : \/ i \in 1..Len(q) /\ p[i] = q[i]
                              \/ i = Len(q) + 1 /\ p[i] = e
  OBVIOUS
<1> HIDE DEF l, p, e
<1>5. AnswersOnce(l, p)
  BY <1>1, <1>3, <1>4 DEF AnswersOnce
<1>6. \A h \in Nat : Answered(k, q, h) \subseteq Answered(l, p, h)
  BY <1>1, <1>2 DEF Answered
<1>7. QED
  BY <1>5, <1>6 DEF l, p, e

\* What the library and the network may make of the calls k and the queue q of a line: an
\* event is raised; if it is ANSWERED, the operation on its call has completed.
Advances(k, q, l, p) ==
    \E type, n :
        /\ p = Append(q, [type |-> type, crn |-> n])
        /\ \/ l = k /\ type # "ANSWERED"
           \/ n \in Crn /\ \E new \in CallState :
                 /\ l = [k EXCEPT ![n] = new]
                 /\ type = "ANSWERED" => k[n] = "answering" /\ new = "connected"
                 /\ new \in Early => k[n] \in Early /\ (k[n] # "none" \/ type = "OFFERED")

\* That is what they do, on the channel the step is about.
LEMMA EnvironmentAdvances ==
    ASSUME DeviceTypeOK, NEW c \in Channels, Library(c) \/ Network(c)
    PROVE  /\ Advances(call[c], evq[c], call'[c], evq'[c])
           /\ \A d \in Channels \ {c} : call'[d] = call[d] /\ evq'[d] = evq[d]
<1>1. /\ call \in [Channels -> [Crn -> CallState]] /\ evq \in [Channels -> Seq(Event)]
      /\ call[c] \in [Crn -> CallState]
  BY DEF DeviceTypeOK
<1>2. ASSUME OpenDone(c) \/ OpenFails(c) \/ Unblock(c) \/ Block(c) \/ PlayDone(c) \/ ResetDone(c)
      PROVE  Advances(call[c], evq[c], call'[c], evq'[c]) /\ UNCHANGED call
  <2>1. PICK type \in LineEvent : Raise(c, type, NoCrn) /\ UNCHANGED call
    BY <1>2 DEF OpenDone, OpenFails, Unblock, Block, PlayDone, ResetDone, LineEvent
  <2>2. /\ evq'[c] = Append(evq[c], [type |-> type, crn |-> NoCrn])
        /\ type # "ANSWERED"
    BY <1>1, <2>1 DEF Raise, LineEvent
  <2>3. QED
    BY <2>1, <2>2 DEF Advances
<1>3. ASSUME NEW n \in Crn, NEW type, NEW new \in CallState, Raise(c, type, n),
             call' = [call EXCEPT ![c][n] = new],
             type = "ANSWERED" => call[c][n] = "answering" /\ new = "connected",
             new \in Early => call[c][n] \in Early /\ (call[c][n] # "none" \/ type = "OFFERED")
      PROVE  Advances(call[c], evq[c], call'[c], evq'[c])
  <2>1. /\ evq'[c] = Append(evq[c], [type |-> type, crn |-> n])
        /\ call'[c] = [call[c] EXCEPT ![n] = new]
    BY <1>1, <1>3 DEF Raise
  <2>2. QED
    BY <1>3, <2>1 DEF Advances
<1>4. ASSUME NEW n \in Crn, Complete(c, n)
      PROVE  Advances(call[c], evq[c], call'[c], evq'[c])
  <2> DEFINE old == call[c][n]
             type == Completion[old].event
             new == Completion[old].state
  <2>1. old \in Pending /\ Raise(c, type, n) /\ call' = [call EXCEPT ![c][n] = new]
    BY <1>4 DEF Complete
  <2>2. /\ new \in CallState
        /\ type = "ANSWERED" => old = "answering" /\ new = "connected"
        /\ new \in Early => old \in Early /\ old # "none"
    BY <2>1 DEF Completion, Pending, Early, CallState, Live, Droppable, Talking
  <2> HIDE DEF type, new
  <2>3. QED
    BY <1>3, <2>1, <2>2
<1>5. ASSUME NEW n \in Crn, Offer(c, n) \/ HangUp(c, n) \/ TaskFails(c, n)
      PROVE  Advances(call[c], evq[c], call'[c], evq'[c])
  <2>1. \/ /\ Raise(c, "OFFERED", n) /\ call' = [call EXCEPT ![c][n] = "offered"]
           /\ call[c][n] \in Early
        \/ Raise(c, "DISCONNECTED", n) /\ call' = [call EXCEPT ![c][n] = "disconnected"]
        \/ Raise(c, "TASKFAIL", n) /\ call' = [call EXCEPT ![c][n] = "failed"]
    BY <1>5 DEF Offer, HangUp, TaskFails, Early
  <2>2. /\ "disconnected" \notin Early /\ "failed" \notin Early
        /\ "offered" \in CallState /\ "disconnected" \in CallState /\ "failed" \in CallState
    BY DEF Early, CallState, Live, Droppable, Talking
  <2>3. QED
    BY <1>3, <2>1, <2>2
<1>6. \A d \in Channels \ {c} : call'[d] = call[d] /\ evq'[d] = evq[d]
  BY <1>1 DEF Library, Network, OpenDone, OpenFails, Unblock, Block, PlayDone, ResetDone,
              Complete, Offer, HangUp, TaskFails, Raise
<1>7. QED
  BY <1>2, <1>4, <1>5, <1>6 DEF Library, Network

\* So a call is still answered once, and none that was answered is forgotten.
LEMMA OnceAdvanced ==
    ASSUME NEW k \in [Crn -> CallState], NEW q \in Seq(Event), AnswersOnce(k, q), NEW l, NEW p,
           Advances(k, q, l, p)
    PROVE  /\ AnswersOnce(l, p)
           /\ \A h \in Nat : Answered(k, q, h) \subseteq Answered(l, p, h)
<1>1. PICK type, n :
          /\ p = Append(q, [type |-> type, crn |-> n])
          /\ \/ l = k /\ type # "ANSWERED"
             \/ n \in Crn /\ \E new \in CallState :
                   /\ l = [k EXCEPT ![n] = new]
                   /\ type = "ANSWERED" => k[n] = "answering" /\ new = "connected"
                   /\ new \in Early => k[n] \in Early /\ (k[n] # "none" \/ type = "OFFERED")
  BY DEF Advances
<1>2. CASE type = "ANSWERED"
  <2>1. /\ n \in Crn /\ k[n] = "answering" /\ l = [k EXCEPT ![n] = "connected"]
        /\ p = Append(q, [type |-> "ANSWERED", crn |-> n])
    BY <1>1, <1>2
  <2>2. QED
    BY <2>1, OnceAnswered
<1>3. CASE type # "ANSWERED"
  <2>1. \E e : e.type # "ANSWERED" /\ p = Append(q, e)
    BY <1>1, <1>3
  <2>2. Shifts(q, p)
    BY <2>1 DEF Shifts
  <2>3. \A m \in Crn : k[m] \notin Early => l[m] \notin Early
    BY <1>1
  <2>4. /\ AnswersOnce(l, p)
        /\ \A g, h \in Nat : g <= h => Answered(k, q, g) \subseteq Answered(l, p, h)
    BY <2>2, <2>3, OnceShifted
  <2>5. \A h \in Nat : h <= h
    OBVIOUS
  <2>6. QED
    BY <2>4, <2>5
<1>4. QED
  BY <1>2, <1>3

=============================================================================
