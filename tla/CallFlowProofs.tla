---------------------------- MODULE CallFlowProofs ----------------------------
(***************************************************************************)
(* callflow, for any number of channels and calls, any bounds on the       *)
(* outside, any settings and any number of descriptors: its types, with    *)
(* which no descriptor is ever open for two channels; the bookkeeping it   *)
(* shares with callserver; and the file a channel plays.                   *)
(***************************************************************************)
EXTENDS CallFlow, CallChannelProofs

USE FlowAssumption

\* No descriptor is open for two channels.
Unshared == \A c, d \in Channels : c # d => files[c] \cap files[d] = {}

\* What a step leaves alone keeps its type.
LEMMA FilesUnchanged ==
    ASSUME TypeOK, UNCHANGED fileVars
    PROVE  FileTypeOK' /\ Unshared'
BY DEF TypeOK, FileTypeOK, fileVars, Unshared

\* What a step of the loop leaves alone keeps its type.
LEMMA LoopUnchanged ==
    ASSUME TypeOK
    PROVE  /\ AtEvent => pc' \in {"event", "exit"} /\ proc' \in {"running", "exited"}
           /\ UNCHANGED <<pc, proc>> =>
                  pc' \in {"event", "exit"} /\ proc' \in {"running", "exited"}
BY DEF TypeOK, AtEvent

\* The first state is well typed.
LEMMA TypeInit == Init => TypeOK
<1> SUFFICES ASSUME Init PROVE TypeOK
  OBVIOUS
<1>1. DeviceTypeOK /\ ChannelTypeOK
  BY ChannelTypeInit DEF Init
<1>2. FileTypeOK /\ Unshared
  BY DEF Init, FileTypeOK, Unshared
<1>3. pc \in {"event", "exit"} /\ proc \in {"running", "exited"}
  BY DEF Init
<1>4. QED
  BY <1>1, <1>2, <1>3 DEF TypeOK, Unshared

-----------------------------------------------------------------------------
(* InitPlayFragment. *)

\* The descriptor that is opened was free: it is no other channel's.
LEMMA PlayType ==
    ASSUME TypeOK, NEW c \in Channels,
           PlayStarts(c) \/ PlayRefused(c) \/ FileNotOpened(c)
    PROVE  /\ FileTypeOK' /\ Unshared'
           /\ voice' \in [Channels -> {"idle", "play", "stopping"}]
           /\ PState' \in [Channels -> PStateSet]
           /\ spent' \in [Budget -> Nat]
<1>1. spent' \in [Budget -> Nat]
  <2>1. UNCHANGED spent \/ Spend("fault")
    BY DEF PlayStarts, PlayRefused, FileNotOpened
  <2>2. QED
    BY <2>1, SpendType DEF TypeOK, DeviceTypeOK, Budget
<1>2. /\ voice' \in [Channels -> {"idle", "play", "stopping"}]
      /\ PState' \in [Channels -> PStateSet]
  BY DEF PlayStarts, PlayRefused, FileNotOpened, TypeOK, DeviceTypeOK, ChannelTypeOK,
         PStateSet
<1>3. CASE PlayStarts(c)
  <2>1. PICK fd \in Descriptor :
            /\ IsLowestFree(fd)
            /\ files' = [files EXCEPT ![c] = @ \cup {fd}]
            /\ io_fhandle' = [io_fhandle EXCEPT ![c] = fd]
            /\ reads' = [reads EXCEPT ![c] = fd]
    BY <1>3 DEF PlayStarts
  <2>2. FileTypeOK'
    BY <2>1 DEF TypeOK, FileTypeOK
  <2>3. \A d \in Channels : fd \notin files[d]
    BY <2>1 DEF IsLowestFree, Free
  <2>4. Unshared'
    BY <2>1, <2>3 DEF TypeOK, FileTypeOK, Unshared
  <2>5. QED
    BY <1>1, <1>2, <2>2, <2>4
<1>4. CASE PlayRefused(c) \/ FileNotOpened(c)
  <2>1. UNCHANGED <<files, reads>> /\ io_fhandle' \in [Channels -> Descriptor \cup {NoFile}]
    BY <1>4 DEF PlayRefused, FileNotOpened, TypeOK, FileTypeOK
  <2>2. QED
    BY <1>1, <1>2, <2>1 DEF TypeOK, FileTypeOK, Unshared
<1>5. QED
  BY <1>3, <1>4

-----------------------------------------------------------------------------
(* process_event. *)

\* What the mode and the settings ask of the calls of a line.
LEMMA ConnectType ==
    ASSUME NEW calls \in [Crn -> CallState], NEW n
    PROVE  Connect(calls, n) \in [Crn -> CallState]
BY RequestType DEF Connect

\* A new call, in any mode.
LEMMA OfferedType ==
    ASSUME TypeOK, NEW c \in Channels, OnOffered(c)
    PROVE  TypeOK'
<1> DEFINE n == Head(evq[c]).crn
<1>1. DeviceTypeOK /\ ChannelTypeOK
  BY DEF TypeOK
<1>2. /\ Connect(call[c], n) \in [Crn -> CallState]
      /\ gc_CallAck(call[c], n) \in [Crn -> CallState]
      /\ gc_DropCall(call[c], n) \in [Crn -> CallState]
  BY <1>1, RequestType, ConnectType, HandlerType
<1> HIDE DEF n
<1>3. NewCall(c) /\ FirstStep(c, n)
  BY DEF OnOffered, n
<1>4. call' \in [Channels -> [Crn -> CallState]]
  BY <1>1, <1>2, <1>3, HandlerType DEF FirstStep
<1>5. PState' \in [Channels -> PStateSet]
  BY <1>1, <1>3 DEF FirstStep, ChannelTypeOK, PStateSet
<1>6. DeviceTypeOK' /\ ChannelTypeOK'
  BY <1>1, <1>3, <1>4, <1>5, NewCallType
<1>7. QED
  BY <1>6, FilesUnchanged, LoopUnchanged DEF OnOffered, TypeOK, Unshared

\* An answered call: the file is opened, closed again or not opened.
LEMMA AnsweredType ==
    ASSUME TypeOK, NEW c \in Channels, OnAnswered(c)
    PROVE  TypeOK'
<1> DEFINE n == Head(evq[c]).crn
<1>1. DeviceTypeOK /\ ChannelTypeOK
  BY DEF TypeOK
<1>2. evq' \in [Channels -> Seq(Event)] /\ n \in Crn \cup {NoCrn}
  BY <1>1, TakeType DEF OnAnswered
<1>3. /\ gc_DropCall(call[c], n) \in [Crn -> CallState]
      /\ WithSState(Calls[c], n, "CONNECTED") \in [Slot -> CallInfo]
  BY <1>1, <1>2, RequestType, SlotsType, HandlerType DEF SStateSet
<1> HIDE DEF n
<1>4. Calls' \in [Channels -> [Slot -> CallInfo]]
  BY <1>1, <1>3, HandlerType DEF OnAnswered, n
<1>5. /\ call' \in [Channels -> [Crn -> CallState]]
      /\ FileTypeOK' /\ Unshared'
      /\ voice' \in [Channels -> {"idle", "play", "stopping"}]
      /\ PState' \in [Channels -> PStateSet]
      /\ spent' \in [Budget -> Nat]
  <2>1. UNCHANGED call \/ Drop(c, n) => call' \in [Channels -> [Crn -> CallState]]
    BY <1>1, <1>3, HandlerType DEF Drop, DeviceTypeOK
  <2>2. CASE WhenAnswered(c, n)
    BY <2>1, <2>2, PlayType DEF WhenAnswered
  <2>3. CASE ~(Registered(Calls[c], n) /\ Mode = "autoresponder")
    <3>1. /\ UNCHANGED call \/ Drop(c, n)
          /\ UNCHANGED <<fileVars, voice, PState, spent>>
      BY <2>3 DEF OnAnswered, n
    <3>2. QED
      BY <1>1, <2>1, <3>1, FilesUnchanged DEF DeviceTypeOK, ChannelTypeOK
  <2>4. QED
    BY <2>2, <2>3 DEF OnAnswered, n
<1>6. DeviceTypeOK' /\ ChannelTypeOK'
  BY <1>1, <1>2, <1>4, <1>5 DEF OnAnswered, DeviceTypeOK, ChannelTypeOK, statVars
<1>7. QED
  BY <1>5, <1>6, LoopUnchanged DEF OnAnswered, TypeOK, Unshared

\* TDX_PLAY, which closes a file or not.
LEMMA PlayEventType ==
    ASSUME TypeOK, NEW c \in Channels, OnPlayEnd(c) \/ OnPlayStopped(c)
    PROVE  TypeOK'
<1>1. evq' \in [Channels -> Seq(Event)]
  BY TakeType DEF OnPlayEnd, OnPlayStopped, TypeOK
<1>2. CASE OnPlayEnd(c)
  <2>1. /\ call' \in [Channels -> [Crn -> CallState]]
        /\ PState' \in [Channels -> PStateSet]
    BY <1>2, DisconnectType DEF OnPlayEnd, TypeOK
  <2>2. DeviceTypeOK' /\ ChannelTypeOK'
    BY <1>1, <1>2, <2>1 DEF OnPlayEnd, TypeOK, DeviceTypeOK, ChannelTypeOK, statVars
  <2>3. QED
    BY <1>2, <2>2, FilesUnchanged, LoopUnchanged DEF OnPlayEnd, TypeOK, Unshared
<1>3. CASE OnPlayStopped(c)
  <2>1. DeviceTypeOK' /\ ChannelTypeOK'
    BY <1>1, <1>3, ChannelTypeUnchanged DEF OnPlayStopped, TypeOK, DeviceTypeOK
  <2>2. FileTypeOK' /\ Unshared'
    BY <1>3 DEF OnPlayStopped, TypeOK, FileTypeOK, Unshared
  <2>3. QED
    BY <1>3, <2>1, <2>2, LoopUnchanged DEF OnPlayStopped, TypeOK, Unshared
<1>4. QED
  BY <1>2, <1>3

\* Every event keeps the types.
LEMMA TypeEvent ==
    ASSUME TypeOK, NEW c \in Channels, ProcessEvent(c)
    PROVE  TypeOK'
<1>1. CASE OnLineEvent(c) \/ OnFailureEvent(c) \/ OnAccepted(c) \/ OnCallEnd(c)
  <2>1. OnLine(c) \/ OnFailure(c) \/ OnCall(c)
    BY <1>1 DEF OnLineEvent, OnFailureEvent, OnAccepted, OnCallEnd, OnCall
  <2>2. DeviceTypeOK' /\ ChannelTypeOK'
    BY <2>1, LineType, CallType, FailureType DEF TypeOK
  <2>3. QED
    BY <1>1, <2>2, FilesUnchanged, LoopUnchanged
       DEF OnLineEvent, OnFailureEvent, OnAccepted, OnCallEnd, TypeOK, Unshared
<1>2. CASE OnCallProc(c)
  <2>1. evq' \in [Channels -> Seq(Event)]
    BY <1>2, TakeType DEF OnCallProc, TypeOK
  <2>2. Connect(call[c], Head(evq[c]).crn) \in [Crn -> CallState]
    BY ConnectType, HandlerType DEF TypeOK
  <2>3. call' \in [Channels -> [Crn -> CallState]]
    BY <1>2, <2>2, HandlerType DEF OnCallProc, TypeOK
  <2>4. DeviceTypeOK' /\ ChannelTypeOK'
    BY <1>2, <2>1, <2>3, ChannelTypeUnchanged DEF OnCallProc, TypeOK, DeviceTypeOK
  <2>5. QED
    BY <1>2, <2>4, FilesUnchanged, LoopUnchanged DEF OnCallProc, TypeOK, Unshared
<1>3. QED
  BY <1>1, <1>2, OfferedType, AnsweredType, PlayEventType DEF ProcessEvent

-----------------------------------------------------------------------------
\* So does every step.
LEMMA TypeNext == TypeOK /\ [Next]_vars => TypeOK'
<1> SUFFICES ASSUME TypeOK, [Next]_vars PROVE TypeOK'
  OBVIOUS
<1>1. CASE UNCHANGED vars
  BY <1>1, FilesUnchanged, LoopUnchanged, ChannelTypeUnchanged
     DEF vars, flowVars, TypeOK, Unshared
<1>2. CASE NoEvent
  BY <1>2, FilesUnchanged, LoopUnchanged, ChannelTypeUnchanged DEF NoEvent, TypeOK, Unshared
<1>3. CASE NotInterrupted
  <2>1. pc' \in {"event", "exit"} /\ proc' \in {"running", "exited"}
    BY <1>3 DEF NotInterrupted, TypeOK
  <2>2. QED
    BY <1>3, <2>1, FilesUnchanged, ChannelTypeUnchanged DEF NotInterrupted, TypeOK, Unshared
<1>4. CASE CloseOrReturn
  <2>1. DeviceTypeOK' /\ ChannelTypeOK'
    BY <1>4, CloseType DEF CloseOrReturn, TypeOK
  <2>2. pc' \in {"event", "exit"} /\ proc' \in {"running", "exited"}
    BY <1>4 DEF CloseOrReturn, TypeOK
  <2>3. QED
    BY <1>4, <2>1, <2>2, FilesUnchanged DEF CloseOrReturn, TypeOK, Unshared
<1>5. CASE Signal
  BY <1>5, SignalType, FilesUnchanged, LoopUnchanged DEF Signal, TypeOK, Unshared
<1>6. ASSUME NEW c \in Channels, Library(c) \/ Network(c), Outside PROVE TypeOK'
  BY <1>6, EnvironmentType, FilesUnchanged, LoopUnchanged, ChannelTypeUnchanged
     DEF Outside, flowVars, TypeOK, Unshared
<1>7. QED
  BY <1>1, <1>2, <1>3, <1>4, <1>5, <1>6, TypeEvent DEF Next, MainLoop

\* Every variable keeps its type, and no descriptor is open for two channels.
THEOREM TypeCorrect == Spec => []TypeOK
BY TypeInit, TypeNext, PTL DEF Spec

-----------------------------------------------------------------------------
(* No call without a voice resource. *)

\* The steps of callflow's own: a call's first and second step, and a playback.
LEMMA FlowVoice ==
    ASSUME TypeOK, VoiceInv, NEW c \in Channels,
           \/ OnOffered(c) \/ OnCallProc(c) \/ OnAnswered(c) \/ OnPlayEnd(c) \/ OnPlayStopped(c)
    PROVE  VoiceInv'
<1>1. DeviceTypeOK /\ call \in [Channels -> [Crn -> CallState]]
  BY DEF TypeOK, DeviceTypeOK
<1>2. /\ UNCHANGED <<waiting, resets, VReady>>
      /\ \E type : TakeEvent(c, type)
  BY DEF OnOffered, NewCall, OnCallProc, OnAnswered, OnPlayEnd, OnPlayStopped, channelVars
<1>3. \/ call' = call
      \/ \E n : \/ call' = [call EXCEPT ![c] = gc_CallAck(@, n)]
                \/ call' = [call EXCEPT ![c] = gc_AcceptCall(@, n)]
                \/ call' = [call EXCEPT ![c] = gc_AnswerCall(@, n)]
                \/ call' = [call EXCEPT ![c] = gc_DropCall(@, n)]
  BY DEF OnOffered, FirstStep, OnCallProc, Connect, OnAnswered, WhenAnswered, Drop, OnPlayEnd,
         InitDisconnect, OnPlayStopped
<1> SUFFICES ASSUME NEW d \in Channels, ~VReady[d]
             PROVE  ~waiting'[d] /\ resets'[d] = 0 /\ NoLive(call'[d]) /\ Harmless(evq'[d])
  BY <1>2 DEF VoiceInv
<1>4. ~waiting[d] /\ resets[d] = 0 /\ NoLive(call[d]) /\ Harmless(evq[d])
  BY DEF VoiceInv
<1>5. Harmless(evq'[d])
  BY <1>1, <1>2, <1>4, TakeHarmless
<1>6. NoLive(call'[d])
  BY <1>1, <1>3, <1>4, RequestNoLive
<1>7. QED
  BY <1>2, <1>4, <1>5, <1>6

\* Every step leaves a channel without voice without calls.
LEMMA VoiceNext == TypeOK /\ VoiceInv /\ [Next]_vars => VoiceInv'
<1> SUFFICES ASSUME TypeOK, VoiceInv, [Next]_vars PROVE VoiceInv'
  OBVIOUS
<1>1. DeviceTypeOK /\ ChannelTypeOK
  BY DEF TypeOK
<1>2. CASE UNCHANGED vars \/ NoEvent \/ NotInterrupted
  BY <1>2 DEF vars, flowVars, deviceVars, channelVars, NoEvent, NotInterrupted, VoiceInv
<1>3. ASSUME NEW c \in Channels, ProcessEvent(c) PROVE VoiceInv'
  BY <1>1, <1>3, HandlerVoice, FlowVoice
     DEF ProcessEvent, OnLineEvent, OnFailureEvent, OnAccepted, OnCallEnd, OnCall
<1>4. CASE CloseOrReturn \/ Signal
  BY <1>1, <1>4, EndingVoice DEF CloseOrReturn, Signal
<1>5. ASSUME NEW c \in Channels, Library(c) \/ Network(c), Outside PROVE VoiceInv'
  BY <1>1, <1>5, EnvironmentVoice DEF Outside, flowVars, channelVars
<1>6. QED
  BY <1>2, <1>3, <1>4, <1>5 DEF Next, MainLoop

\* In callflow too no line waits for a call, or carries one, whose voice resource
\* was never found.
THEOREM VoiceBeforeCalls == Spec => []NoCallWithoutVoice
<1>1. Init => VoiceInv
  BY VoiceInit DEF Init
<1>2. QED
  BY <1>1, VoiceNext, VoiceImplies, TypeCorrect, PTL DEF Spec

-----------------------------------------------------------------------------
(* The order of a call's events. *)

\* callflow's own steps keep the order.
LEMMA FlowKept ==
    ASSUME TypeOK, OrderInv, NEW c \in Channels,
           \/ OnOffered(c) \/ OnCallProc(c) \/ OnAnswered(c) \/ OnPlayEnd(c) \/ OnPlayStopped(c),
           NEW d \in Channels
    PROVE  Kept(d)
<1>1. /\ DeviceTypeOK /\ ChannelTypeOK
      /\ call \in [Channels -> [Crn -> CallState]] /\ Calls \in [Channels -> [Slot -> CallInfo]]
  BY DEF TypeOK, DeviceTypeOK, ChannelTypeOK
<1>2. CASE OnOffered(c)
  <2>1. /\ NewCall(c)
        /\ \E n : \/ call' = [call EXCEPT ![c] = gc_CallAck(@, n)]
                  \/ call' = [call EXCEPT ![c] = gc_AcceptCall(@, n)]
                  \/ call' = [call EXCEPT ![c] = gc_AnswerCall(@, n)]
                  \/ call' = [call EXCEPT ![c] = gc_DropCall(@, n)]
    BY <1>2 DEF OnOffered, FirstStep, Connect
  <2>2. QED
    BY <1>1, <2>1, NewCallKept
<1>3. CASE OnCallProc(c) \/ OnPlayEnd(c) \/ OnPlayStopped(c)
  <2>1. PICK type : TakeEvent(c, type) /\ Calls' = Calls
    BY <1>3 DEF OnCallProc, OnPlayEnd, OnPlayStopped, channelVars
  <2>2. \E n : \/ call' = call
               \/ call' = [call EXCEPT ![c] = gc_AcceptCall(@, n)]
               \/ call' = [call EXCEPT ![c] = gc_AnswerCall(@, n)]
               \/ call' = [call EXCEPT ![c] = gc_DropCall(@, n)]
    BY <1>3 DEF OnCallProc, Connect, OnPlayEnd, InitDisconnect, OnPlayStopped
  <2>3. QED
    BY <1>1, <2>1, <2>2, KeptMoved
<1>4. CASE OnAnswered(c)
  <2>1. /\ TakeEvent(c, "ANSWERED")
        /\ Calls' = [Calls EXCEPT ![c] = WithSState(@, Head(evq[c]).crn, "CONNECTED")]
        /\ \/ call' = call
           \/ call' = [call EXCEPT ![c] = gc_DropCall(@, Head(evq[c]).crn)]
    BY <1>4 DEF OnAnswered, WhenAnswered, Drop
  <2>2. call'[c] = call[c] \/ call'[c] = gc_DropCall(call[c], Head(evq[c]).crn)
    BY <1>1, <2>1
  <2>3. Rank["CONNECTED"] = RankOf("ANSWERED") /\ "CONNECTED" \in SStateSet /\ "ANSWERED" \in Ranked
    BY DEF Rank, RankOf, SStateSet, Ranked
  <2>4. Kept(c)
    BY <1>1, <2>1, <2>2, <2>3, KeptState
  <2>5. d # c => call'[d] = call[d] /\ evq'[d] = evq[d] /\ Calls'[d] = Calls[d]
    BY <1>1, <2>1, KeptTake
  <2>6. QED
    BY <1>1, <2>4, <2>5, KeptElsewhere
<1>5. QED
  BY <1>2, <1>3, <1>4

\* Every step keeps the order on every channel, and no state of a call goes back.
LEMMA OrderNext ==
    ASSUME TypeOK, OrderInv, [Next]_vars
    PROVE  OrderInv' /\ \A d \in Channels : Forward(Calls[d], Calls'[d])
<1> SUFFICES ASSUME NEW d \in Channels PROVE Kept(d)
  BY DEF OrderInv, Kept
<1>1. DeviceTypeOK /\ ChannelTypeOK
  BY DEF TypeOK
<1>2. CASE UNCHANGED vars \/ NoEvent \/ NotInterrupted
  BY <1>1, <1>2, KeptElsewhere
     DEF vars, flowVars, deviceVars, channelVars, NoEvent, NotInterrupted
<1>3. ASSUME NEW c \in Channels, ProcessEvent(c) PROVE Kept(d)
  BY <1>1, <1>3, HandlerKept, FlowKept
     DEF ProcessEvent, OnLineEvent, OnFailureEvent, OnAccepted, OnCallEnd, OnCall
<1>4. CASE CloseOrReturn \/ Signal
  BY <1>1, <1>4, EndingKept DEF CloseOrReturn, Signal
<1>5. ASSUME NEW c \in Channels, Library(c) \/ Network(c), Outside PROVE Kept(d)
  BY <1>1, <1>5, EnvironmentKept DEF Outside, flowVars, channelVars
<1>6. QED
  BY <1>2, <1>3, <1>4, <1>5 DEF Next, MainLoop

\* In callflow too a call that is released was IDLE, in every mode: also a missed
\* call, which is dropped as soon as it is offered.
THEOREM ReleaseFollows == Spec => []ReleaseFollowsDrop
<1>1. Init => OrderInv
  BY OrderInit DEF Init
<1>2. TypeOK /\ OrderInv /\ [Next]_vars => OrderInv'
  BY OrderNext
<1>3. TypeOK /\ OrderInv => ReleaseFollowsDrop
  BY OrderImplies DEF TypeOK
<1>4. QED
  BY <1>1, <1>2, <1>3, TypeCorrect, PTL DEF Spec

\* In callflow too the state of a registered call only moves towards IDLE.
THEOREM NeverRegress == Spec => CallsNeverRegress
<1>1. Init => OrderInv
  BY OrderInit DEF Init
<1>2. TypeOK /\ OrderInv /\ [Next]_vars => OrderInv'
  BY OrderNext
<1>3. TypeOK /\ OrderInv /\ [Next]_vars =>
          [\A c \in Channels, i, j \in Slot :
              (Calls[c][i].crn # NoCrn /\ Calls'[c][j].crn = Calls[c][i].crn) =>
                  Rank[Calls'[c][j].SState] >= Rank[Calls[c][i].SState]]_<<deviceVars, channelVars>>
  BY OrderNext DEF Forward
<1>4. QED
  BY <1>1, <1>2, <1>3, TypeCorrect, PTL DEF Spec, CallsNeverRegress

-----------------------------------------------------------------------------
(* The count of the calls in progress. *)

\* callflow's own steps keep the count.
LEMMA FlowCount ==
    ASSUME TypeOK, TypeOK', OrderInv, CountInv, NEW c \in Channels,
           OnOffered(c) \/ OnCallProc(c) \/ OnAnswered(c) \/ OnPlayEnd(c) \/ OnPlayStopped(c)
    PROVE  CountInv'
<1>1. DeviceTypeOK /\ ChannelTypeOK /\ DeviceTypeOK' /\ call \in [Channels -> [Crn -> CallState]]
  BY DEF TypeOK, DeviceTypeOK
<1>2. CASE OnOffered(c)
  <2>1. NewCall(c)
    BY <1>2 DEF OnOffered
  <2>2. PICK n : \/ call' = [call EXCEPT ![c] = gc_CallAck(@, n)]
                 \/ call' = [call EXCEPT ![c] = gc_AcceptCall(@, n)]
                 \/ call' = [call EXCEPT ![c] = gc_AnswerCall(@, n)]
                 \/ call' = [call EXCEPT ![c] = gc_DropCall(@, n)]
    BY <1>2 DEF OnOffered, FirstStep, Connect
  <2>3. QED
    BY <1>1, <2>1, <2>2, NewCallCount
<1>3. ASSUME OnCallProc(c) \/ OnAnswered(c) \/ OnPlayEnd(c) \/ OnPlayStopped(c)
      PROVE  CountInv'
  <2>1. PICK type : TakeEvent(c, type) /\ type \notin {"OFFERED", "RELEASECALL"}
    BY <1>3 DEF OnCallProc, OnAnswered, OnPlayEnd, OnPlayStopped
  <2>2. /\ stUsed' = stUsed /\ interrupted' = interrupted
        /\ spent' = spent \/ \E b \in Budget : Spend(b)
    BY <1>3 DEF OnCallProc, OnAnswered, WhenAnswered, PlayStarts, PlayRefused, FileNotOpened,
                OnPlayEnd, OnPlayStopped, channelVars, statVars, Budget
  <2>3. PICK n : \/ call' = call
                 \/ call' = [call EXCEPT ![c] = gc_AcceptCall(@, n)]
                 \/ call' = [call EXCEPT ![c] = gc_AnswerCall(@, n)]
                 \/ call' = [call EXCEPT ![c] = gc_DropCall(@, n)]
    BY <1>3 DEF OnCallProc, Connect, OnAnswered, WhenAnswered, Drop, OnPlayEnd, InitDisconnect,
                OnPlayStopped
  <2>4. Later
    BY <1>1, <2>2, SpendLater
  <2>5. \A d \in Channels : Steady(d)
    BY <1>1, <2>1, <2>3, <2>4, MoveSteady
  <2>6. QED
    BY <1>1, <2>2, <2>4, <2>5, CountSteady
<1>4. QED
  BY <1>2, <1>3

\* Every step counts a call when it is offered to the program, and uncounts it when
\* its release is announced.
LEMMA CountNext ==
    ASSUME TypeOK, TypeOK', OrderInv, CountInv, [Next]_vars
    PROVE  CountInv'
<1>1. DeviceTypeOK /\ ChannelTypeOK /\ DeviceTypeOK'
  BY DEF TypeOK
<1>2. CASE UNCHANGED vars \/ NoEvent \/ NotInterrupted
  <2>1. UNCHANGED <<call, evq, spent, stUsed, interrupted>>
    BY <1>2 DEF vars, flowVars, deviceVars, channelVars, statVars, NoEvent, NotInterrupted
  <2>2. Later
    BY <1>1, <2>1, SpendLater
  <2>3. \A d \in Channels : Steady(d)
    BY <1>1, <2>1, <2>2, SteadyMove DEF CountInv
  <2>4. QED
    BY <1>1, <2>1, <2>2, <2>3, CountSteady
<1>3. ASSUME NEW c \in Channels, ProcessEvent(c) PROVE CountInv'
  BY <1>1, <1>3, HandlerCount, FlowCount
     DEF ProcessEvent, OnLineEvent, OnFailureEvent, OnAccepted, OnCallEnd, OnCall
<1>4. CASE CloseOrReturn \/ Signal
  BY <1>1, <1>4, EndingCount DEF CloseOrReturn, Signal
<1>5. ASSUME NEW c \in Channels, Library(c) \/ Network(c), Outside PROVE CountInv'
  <2>1. stUsed' = stUsed /\ interrupted' = interrupted
    BY <1>5 DEF Outside, flowVars, channelVars, statVars
  <2>2. Later /\ \A d \in Channels : Steady(d)
    BY <1>1, <1>5, <2>1, EnvironmentSteady
  <2>3. QED
    BY <1>1, <2>1, <2>2, CountSteady
<1>6. QED
  BY <1>2, <1>3, <1>4, <1>5 DEF Next, MainLoop

\* In callflow too stUsed never misses a call that is in progress, and is exact until a
\* fault makes a reset forget calls or lines are being closed.
THEOREM UsedCountsCalls == Spec => []StUsedCounts
<1>1. Init => OrderInv /\ CountInv
  BY OrderInit, CountInit DEF Init
<1>2. TypeOK /\ TypeOK' /\ OrderInv /\ CountInv /\ [Next]_vars => OrderInv' /\ CountInv'
  BY OrderNext, CountNext
<1>3. QED
  BY <1>1, <1>2, CountImplies, TypeCorrect, PTL DEF Spec

-----------------------------------------------------------------------------
(* Every event finds its call. *)

\* The handlers that are callflow's own.
LEMMA FlowTrace ==
    ASSUME TypeOK, OrderInv, OrderInv', QueueInv, FoundInv, NEW c \in Channels,
           OnOffered(c) \/ OnCallProc(c) \/ OnAnswered(c) \/ OnPlayEnd(c) \/ OnPlayStopped(c),
           NEW d \in Channels
    PROVE  Trace(d)
<1> DEFINE n == Head(evq[c]).crn
<1>1. DeviceTypeOK /\ ChannelTypeOK /\ call \in [Channels -> [Crn -> CallState]]
  BY DEF TypeOK, DeviceTypeOK
<1>2. CASE OnOffered(c)
  <2>1. NewCall(c)
    BY <1>2 DEF OnOffered
  <2>2. \/ call' = [call EXCEPT ![c] = gc_CallAck(@, n)]
        \/ call' = [call EXCEPT ![c] = gc_AcceptCall(@, n)]
        \/ call' = [call EXCEPT ![c] = gc_AnswerCall(@, n)]
        \/ call' = [call EXCEPT ![c] = gc_DropCall(@, n)]
    BY <1>2 DEF OnOffered, FirstStep, Connect
  <2>3. QED
    BY <1>1, <2>1, <2>2, NewCallTrace
<1>3. CASE OnCallProc(c)
  <2>1. /\ TakeEvent(c, "CALLPROC") /\ UNCHANGED resets /\ UNCHANGED Calls
        /\ \/ call' = [call EXCEPT ![c] = gc_AcceptCall(@, n)]
           \/ call' = [call EXCEPT ![c] = gc_AnswerCall(@, n)]
    BY <1>3 DEF OnCallProc, Connect, channelVars
  <2>2. QED
    BY <1>1, <2>1, HandledTrace
<1>4. CASE OnAnswered(c)
  <2>1. /\ TakeEvent(c, "ANSWERED") /\ UNCHANGED resets
        /\ \E state : Calls' = [Calls EXCEPT ![c] = WithSState(@, n, state)]
        /\ call' = call \/ call' = [call EXCEPT ![c] = gc_DropCall(@, n)]
    BY <1>4 DEF OnAnswered, WhenAnswered, Drop
  <2>2. Calls[c][0].crn = n
    <3>1. evq[c] # <<>> /\ Head(evq[c]).type = "ANSWERED"
      BY <2>1 DEF TakeEvent
    <3>2. QED
      BY <1>1, <3>1, HeadFound DEF UndroppedEvent
  <2>3. /\ TakeEvent(c, "ANSWERED") /\ "ANSWERED" \notin {"OFFERED", "RELEASECALL"}
        /\ \E m, state : Calls' = [Calls EXCEPT ![c] = WithSState(@, m, state)]
        /\ \/ call' = call
           \/ call' = [call EXCEPT ![c] = gc_DropCall(@, n)] /\ Calls[c][0].crn = n
    BY <2>1, <2>2
  <2> HIDE DEF n
  <2>4. QED
    BY <1>1, <2>1, <2>3, HandledTrace
<1>5. CASE OnPlayEnd(c) \/ OnPlayStopped(c)
  <2>1. /\ TakeEvent(c, "TDX_PLAY") /\ UNCHANGED resets /\ UNCHANGED Calls
        /\ \/ call' = call
           \/ call' = [call EXCEPT ![c] = gc_DropCall(@, Calls[c][0].crn)]
    BY <1>5 DEF OnPlayEnd, OnPlayStopped, InitDisconnect, channelVars
  <2>2. QED
    BY <1>1, <2>1, HandledTrace
<1>6. QED
  BY <1>2, <1>3, <1>4, <1>5

\* Every step keeps every call found: what is dropped is the call in slot 0.
LEMMA FoundNext ==
    ASSUME TypeOK, OrderInv, OrderInv', QueueInv, FoundInv, [Next]_vars
    PROVE  FoundInv'
<1> SUFFICES ASSUME NEW d \in Channels PROVE Trace(d)
  BY DEF FoundInv, Trace
<1>1. DeviceTypeOK /\ ChannelTypeOK
  BY DEF TypeOK
<1>2. CASE UNCHANGED vars \/ NoEvent \/ NotInterrupted
  BY <1>1, <1>2, TraceElsewhere
     DEF vars, flowVars, deviceVars, channelVars, NoEvent, NotInterrupted
<1>3. ASSUME NEW c \in Channels, ProcessEvent(c) PROVE Trace(d)
  BY <1>1, <1>3, HandlerTrace, FlowTrace
     DEF ProcessEvent, OnLineEvent, OnFailureEvent, OnAccepted, OnCallEnd, OnCall
<1>4. CASE CloseOrReturn \/ Signal
  BY <1>1, <1>4, EndingTrace DEF CloseOrReturn, Signal
<1>5. ASSUME NEW c \in Channels, Library(c) \/ Network(c), Outside PROVE Trace(d)
  BY <1>1, <1>5, EnvironmentTrace DEF Outside, flowVars, channelVars
<1>6. QED
  BY <1>2, <1>3, <1>4, <1>5 DEF Next, MainLoop

\* In callflow too every event of a call but its offer and its release finds the call in
\* one of the two slots, in every mode: also of a missed call, which is dropped as soon
\* as it is offered.
THEOREM CallsAreFound == Spec => []CallIsFound
<1>1. Init => OrderInv /\ CountInv /\ FoundInv
  BY OrderInit, CountInit, FoundInit DEF Init
<1>2. TypeOK /\ TypeOK' /\ OrderInv /\ CountInv /\ FoundInv /\ [Next]_vars =>
          OrderInv' /\ CountInv' /\ FoundInv'
  BY OrderNext, CountNext, FoundNext DEF CountInv
<1>3. TypeOK /\ FoundInv => CallIsFound
  BY FoundImplies DEF TypeOK
<1>4. QED
  BY <1>1, <1>2, <1>3, TypeCorrect, PTL DEF Spec

-----------------------------------------------------------------------------
(* What is played is what will be closed. *)

\* The program has yet to hear of every call that may still be answered, or was.
NextAreOffered(k, q) ==
    \A n \in Crn : (k[n] \in Early \ {"none"} \/ Holds(q, "ANSWERED", n)) => Holds(q, "OFFERED", n)

\* PlayedFileIsKnown made inductive: in PLAY no ANSWERED comes before the next OFFERED,
\* which leaves PLAY.
PlayInv ==
    \A c \in Channels :
        /\ AnswersOnce(call[c], evq[c])
        /\ PState[c] = "PLAY" =>
               /\ NextAreOffered(call[c], evq[c])
               /\ reads[c] # NoFile /\ io_fhandle[c] = reads[c]
               /\ Channels = {c} => reads[c] \in files[c]

\* What PlayInv says of channel d, after a step.
PlayKept(d) ==
    /\ AnswersOnce(call'[d], evq'[d])
    /\ PState'[d] = "PLAY" =>
           /\ NextAreOffered(call'[d], evq'[d])
           /\ reads'[d] # NoFile /\ io_fhandle'[d] = reads'[d]
           /\ Channels = {d} => reads'[d] \in files'[d]

\* No function of the library makes a call one that may be answered.
LEMMA OfferedMoved ==
    ASSUME NEW k \in [Crn -> CallState], NEW m, NEW l \in Requests(k, m),
           NEW q \in Seq(Event), NEW p,
           p = q \/ (q # <<>> /\ Head(q).type # "OFFERED" /\ p = Tail(q)),
           NextAreOffered(k, q)
    PROVE  NextAreOffered(l, p)
<1>1. \A n \in Crn : l[n] \in Early \ {"none"} => k[n] \in Early \ {"none"}
  BY RequestsNotEarly, NoneRequested
<1>2. ASSUME NEW n PROVE Holds(p, "ANSWERED", n) => Holds(q, "ANSWERED", n)
  BY HoldsTail
<1>3. ASSUME NEW n, Holds(q, "OFFERED", n) PROVE Holds(p, "OFFERED", n)
  <2>1. CASE q # <<>> /\ Head(q).type # "OFFERED" /\ p = Tail(q)
    BY <1>3, <2>1, HoldsTail
  <2>2. QED
    BY <1>3, <2>1
<1>4. QED
  BY <1>1, <1>2, <1>3 DEF NextAreOffered

\* A call that may be answered from now on is offered by the event that is raised.
LEMMA OfferedAdvanced ==
    ASSUME NEW k \in [Crn -> CallState], NEW q \in Seq(Event), NEW l, NEW p,
           Advances(k, q, l, p), NextAreOffered(k, q)
    PROVE  NextAreOffered(l, p)
<1>1. PICK type, n :
          /\ p = Append(q, [type |-> type, crn |-> n])
          /\ \/ l = k /\ type # "ANSWERED"
             \/ n \in Crn /\ \E new \in CallState :
                   /\ l = [k EXCEPT ![n] = new]
                   /\ type = "ANSWERED" => k[n] = "answering" /\ new = "connected"
                   /\ new \in Early => k[n] \in Early /\ (k[n] # "none" \/ type = "OFFERED")
  BY DEF Advances
<1> DEFINE e == [type |-> type, crn |-> n]
<1>2. /\ e.type = type /\ e.crn = n
      /\ \A t, m : Holds(p, t, m) <=> Holds(q, t, m) \/ (e.type = t /\ e.crn = m)
  BY <1>1, HoldsAppend
<1> HIDE DEF e
<1>3. \A m \in Crn : Holds(q, "OFFERED", m) => Holds(p, "OFFERED", m)
  BY <1>2
<1>4. ASSUME NEW m \in Crn, l[m] \in Early \ {"none"} PROVE Holds(p, "OFFERED", m)
  <2>1. k[m] \in Early \ {"none"} \/ (m = n /\ type = "OFFERED")
    BY <1>1, <1>4
  <2>2. QED
    BY <1>2, <1>3, <2>1 DEF NextAreOffered
<1>5. ASSUME NEW m \in Crn, Holds(p, "ANSWERED", m) PROVE Holds(p, "OFFERED", m)
  <2>1. Holds(q, "ANSWERED", m) \/ (m = n /\ k[m] = "answering")
    BY <1>1, <1>2, <1>5
  <2>2. "answering" \in Early \ {"none"}
    BY DEF Early
  <2>3. QED
    BY <1>3, <2>1, <2>2 DEF NextAreOffered
<1>6. QED
  BY <1>4, <1>5 DEF NextAreOffered

\* The call that is answered is the newest the program has heard of.
LEMMA OfferedAnswered ==
    ASSUME TypeOK, FoundInv, NEW c \in Channels, evq[c] # <<>>, Head(evq[c]).type = "ANSWERED",
           AnswersOnce(call[c], evq[c])
    PROVE  NextAreOffered(call[c], Tail(evq[c]))
<1> DEFINE q == evq[c]
           k == call[c]
           s == Calls[c]
           n == Head(q).crn
<1>1. /\ q \in Seq(Event) /\ EventsFound(q, s) /\ CallsFound(k, q, s)
      /\ s[0].crn = n
  BY HeadFound DEF TypeOK, DeviceTypeOK, FoundInv, Findable, UndroppedEvent
<1>2. /\ Len(q) \in Nat /\ Len(q) > 0 /\ 1 \in 1..Len(q) /\ Head(q) = q[1]
      /\ \A i \in 1..Len(Tail(q)) : Tail(q)[i] = q[i + 1] /\ i + 1 \in 1..Len(q) /\ i + 1 # 1
  BY <1>1
<1>3. k[n] \notin Early /\ ~Holds(Tail(q), "ANSWERED", n)
  BY <1>2 DEF AnswersOnce, Holds
<1>4. ASSUME NEW m \in Crn, m # n, NEW i, Newest(q, s, m, i) PROVE Holds(Tail(q), "OFFERED", m)
  <2>1. PICK j \in 0..Len(q) : Begins(q, s, j, m)
    BY <1>4 DEF Newest
  <2>2. j \in 1..Len(q) /\ q[j].type = "OFFERED" /\ q[j].crn = m
    BY <1>1, <1>4, <2>1 DEF Begins
  <2>3. Holds(q, "OFFERED", m)
    BY <2>2 DEF Holds
  <2>4. QED
    BY <1>1, <2>3, HoldsTail
<1>5. ASSUME NEW m \in Crn, k[m] \in Early \ {"none"} PROVE Holds(Tail(q), "OFFERED", m)
  <2>1. k[m] \in Undropped /\ m # n
    BY <1>3, <1>5 DEF Early, Undropped, Talking
  <2>2. QED
    BY <1>1, <1>4, <2>1 DEF CallsFound
<1>6. ASSUME NEW m \in Crn, Holds(Tail(q), "ANSWERED", m) PROVE Holds(Tail(q), "OFFERED", m)
  <2>1. m # n
    BY <1>3, <1>6
  <2>2. Holds(q, "ANSWERED", m)
    BY <1>1, <1>6, HoldsTail
  <2>3. PICK i \in 1..Len(q) : q[i].type = "ANSWERED" /\ q[i].crn = m
    BY <2>2 DEF Holds
  <2>4. Newest(q, s, m, i)
    BY <1>1, <2>3 DEF EventsFound, UndroppedEvent
  <2>5. QED
    BY <1>4, <2>1, <2>4
<1>7. QED
  BY <1>5, <1>6 DEF NextAreOffered

\* So no call is answered while the line plays.
LEMMA AnsweredNotPlaying ==
    ASSUME TypeOK, OrderInv, PlayInv, NEW c \in Channels, evq[c] # <<>>,
           Head(evq[c]).type = "ANSWERED"
    PROVE  PState[c] # "PLAY"
<1> DEFINE q == evq[c]
           n == Head(q).crn
<1>1. /\ q \in Seq(Event) /\ EventsOrdered(call[c], q) /\ AnswersOnce(call[c], q)
  BY DEF TypeOK, DeviceTypeOK, OrderInv, Ordered, PlayInv
<1>2. Len(q) \in Nat /\ 1 \in 1..Len(q) /\ Head(q) = q[1]
  BY <1>1
<1>3. n \in Crn /\ Holds(q, "ANSWERED", n)
  BY <1>1, <1>2 DEF AnswersOnce, Holds
<1>4. About(q, 1, n)
  BY <1>2 DEF About, Ranked
<1>5. ASSUME Holds(q, "OFFERED", n) PROVE FALSE
  <2>1. PICK j \in 1..Len(q) : q[j].type = "OFFERED" /\ q[j].crn = n
    BY <1>5 DEF Holds
  <2>2. About(q, j, n) /\ 1 < j
    BY <1>2, <2>1 DEF About, Ranked
  <2>3. QED
    BY <1>1, <1>2, <1>3, <1>4, <2>1, <2>2 DEF EventsOrdered
<1>6. QED
  BY <1>3, <1>5 DEF PlayInv, NextAreOffered

\* A channel whose calls the program moves on, and that does not start to play.
LEMMA PlayMoved ==
    ASSUME TypeOK, PlayInv, NEW d \in Channels, NEW m, call'[d] \in Requests(call[d], m),
           Shifts(evq[d], evq'[d]),
           PState'[d] = "PLAY" =>
               /\ PState[d] = "PLAY"
               /\ \/ evq'[d] = evq[d]
                  \/ evq[d] # <<>> /\ Head(evq[d]).type # "OFFERED" /\ evq'[d] = Tail(evq[d])
               /\ reads'[d] = reads[d] /\ io_fhandle'[d] = io_fhandle[d]
               /\ Channels = {d} => files'[d] = files[d]
    PROVE  PlayKept(d)
<1>1. call[d] \in [Crn -> CallState] /\ evq[d] \in Seq(Event) /\ AnswersOnce(call[d], evq[d])
  BY DEF TypeOK, DeviceTypeOK, PlayInv
<1>2. AnswersOnce(call'[d], evq'[d])
  <2>1. \A n \in Crn : call[d][n] \notin Early => call'[d][n] \notin Early
    BY <1>1, RequestsNotEarly
  <2>2. QED
    BY <1>1, <2>1, OnceShifted
<1>3. ASSUME PState'[d] = "PLAY"
      PROVE  /\ NextAreOffered(call'[d], evq'[d])
             /\ reads'[d] # NoFile /\ io_fhandle'[d] = reads'[d]
             /\ Channels = {d} => reads'[d] \in files'[d]
  <2>1. NextAreOffered(call[d], evq[d])
    BY <1>3 DEF PlayInv
  <2>2. NextAreOffered(call'[d], evq'[d])
    BY <1>1, <1>3, <2>1, OfferedMoved
  <2>3. QED
    BY <1>3, <2>2 DEF PlayInv
<1>4. QED
  BY <1>2, <1>3 DEF PlayKept

\* The handlers both programs share.
LEMMA HandlerPlay ==
    ASSUME TypeOK, PlayInv, NEW c \in Channels, OnLine(c) \/ OnCall(c) \/ OnFailure(c),
           UNCHANGED fileVars, NEW d \in Channels
    PROVE  PlayKept(d)
<1>1. /\ call \in [Channels -> [Crn -> CallState]] /\ evq \in [Channels -> Seq(Event)]
      /\ PState \in [Channels -> PStateSet]
  BY DEF TypeOK, DeviceTypeOK, ChannelTypeOK
<1>2. PICK type : TakeEvent(c, type) /\ type # "OFFERED"
  BY DEF OnLine, OnLogged, OnUnblocked, OnUnblockedNoVoice, OnCall, OnAccept, OnDisconnected,
         OnDropCall, OnReleaseCall, OnFailure, OnResetLineDev, OnTaskFail
<1>3. /\ evq[c] # <<>> /\ Head(evq[c]).type = type
      /\ evq'[d] = IF d = c THEN Tail(evq[d]) ELSE evq[d]
  BY <1>1, <1>2 DEF TakeEvent
<1>4. PState'[d] = "PLAY" => PState[d] = "PLAY"
  BY <1>1 DEF OnLine, OnLogged, OnUnblocked, OnUnblockedNoVoice, OnCall, OnAccept, OnDisconnected,
              OnDropCall, OnReleaseCall, OnFailure, OnResetLineDev, OnTaskFail, channelVars
<1>5. call'[d] \in Requests(call[d], Head(evq[d]).crn)
  <2>1. \E l \in Requests(call[c], Head(evq[c]).crn) : call' = [call EXCEPT ![c] = l]
    <3>1. \/ call' = call
          \/ \E l : /\ call' = [call EXCEPT ![c] = l]
                    /\ l \in Requests(call[c], Head(evq[c]).crn)
      BY DEF OnLine, OnLogged, OnUnblocked, OnUnblockedNoVoice, OnCall, OnAccept, OnDisconnected,
             OnDropCall, OnReleaseCall, OnFailure, OnResetLineDev, OnTaskFail, Requests
    <3>2. call = [call EXCEPT ![c] = call[c]]
      BY <1>1
    <3>3. QED
      BY <3>1, <3>2, RequestsNothing
  <2>2. QED
    BY <1>1, <2>1, RequestsNothing
<1>6. Shifts(evq[d], evq'[d])
  BY <1>3 DEF Shifts
<1>7. QED
  BY <1>2, <1>3, <1>4, <1>5, <1>6, PlayMoved DEF fileVars

\* A channel the step does not concern; another channel may have closed its file.
LEMMA PlayElsewhere ==
    ASSUME TypeOK, PlayInv, NEW d \in Channels,
           call'[d] = call[d], evq'[d] = evq[d], PState'[d] = PState[d],
           reads'[d] = reads[d], io_fhandle'[d] = io_fhandle[d],
           Channels = {d} => files'[d] = files[d]
    PROVE  PlayKept(d)
BY PlayMoved, RequestsNothing DEF Shifts

\* The handlers that are callflow's own.
LEMMA FlowPlay ==
    ASSUME TypeOK, OrderInv, FoundInv, PlayInv, NEW c \in Channels,
           OnOffered(c) \/ OnCallProc(c) \/ OnAnswered(c) \/ OnPlayEnd(c) \/ OnPlayStopped(c),
           NEW d \in Channels
    PROVE  PlayKept(d)
<1>1. /\ call \in [Channels -> [Crn -> CallState]] /\ evq \in [Channels -> Seq(Event)]
      /\ PState \in [Channels -> PStateSet] /\ AnswersOnce(call[c], evq[c])
      /\ files \in [Channels -> SUBSET Descriptor]
      /\ io_fhandle \in [Channels -> Descriptor \cup {NoFile}]
      /\ reads \in [Channels -> Descriptor \cup {NoFile}]
  BY DEF TypeOK, DeviceTypeOK, ChannelTypeOK, FileTypeOK, PlayInv
<1>2. PICK type : TakeEvent(c, type)
  BY DEF OnOffered, NewCall, OnCallProc, OnAnswered, OnPlayEnd, OnPlayStopped
<1>3. /\ evq[c] # <<>> /\ evq'[c] = Tail(evq[c]) /\ Shifts(evq[c], evq'[c])
      /\ d # c => evq'[d] = evq[d]
  BY <1>1, <1>2 DEF TakeEvent, Shifts
<1>4. PICK m : \E l \in Requests(call[c], m) : call' = [call EXCEPT ![c] = l]
  <2>1. \/ call' = call
        \/ \E l, m : call' = [call EXCEPT ![c] = l] /\ l \in Requests(call[c], m)
    BY DEF OnOffered, FirstStep, OnCallProc, Connect, OnAnswered, WhenAnswered, Drop, OnPlayEnd,
           InitDisconnect, OnPlayStopped, Requests
  <2>2. call = [call EXCEPT ![c] = call[c]]
    BY <1>1
  <2>3. QED
    BY <2>1, <2>2, RequestsNothing
<1>5. call'[c] \in Requests(call[c], m) /\ (d # c => call'[d] = call[d])
  BY <1>1, <1>4
<1>6. CASE d # c
  <2>1. call'[d] = call[d] /\ evq'[d] = evq[d]
    BY <1>3, <1>5, <1>6
  <2>2. PState'[d] = PState[d] /\ reads'[d] = reads[d] /\ io_fhandle'[d] = io_fhandle[d]
    BY <1>1, <1>6 DEF OnOffered, FirstStep, OnCallProc, OnAnswered, WhenAnswered, PlayStarts,
       PlayRefused, FileNotOpened, OnPlayEnd, InitDisconnect, OnPlayStopped, channelVars, fileVars
  <2>3. Channels # {d}
    BY <1>6
  <2>4. QED
    BY <2>1, <2>2, <2>3, PlayElsewhere
<1>7. ASSUME d = c, PState'[c] # "PLAY" PROVE PlayKept(d)
  BY <1>3, <1>5, <1>7, PlayMoved
<1>8. ASSUME d = c, OnOffered(c) \/ OnPlayEnd(c) \/ OnPlayStopped(c) PROVE PlayKept(d)
  <2>1. PState'[c] # "PLAY"
    BY <1>1, <1>8 DEF OnOffered, FirstStep, OnPlayEnd, InitDisconnect, OnPlayStopped, channelVars
  <2>2. QED
    BY <1>7, <1>8, <2>1
<1>9. ASSUME d = c, OnCallProc(c) PROVE PlayKept(d)
  <2>1. UNCHANGED <<PState, fileVars>> /\ Head(evq[c]).type = "CALLPROC"
    BY <1>9 DEF OnCallProc, channelVars, TakeEvent
  <2>2. QED
    BY <1>3, <1>5, <1>9, <2>1, PlayMoved DEF fileVars
<1>10. ASSUME d = c, OnAnswered(c) PROVE PlayKept(d)
  <2>1. Head(evq[c]).type = "ANSWERED"
    BY <1>10 DEF OnAnswered, TakeEvent
  <2>2. PState[c] # "PLAY"
    BY <1>3, <2>1, AnsweredNotPlaying
  <2>3. CASE PlayStarts(c) /\ UNCHANGED call
    <3>1. PICK fd \in Descriptor :
              /\ files' = [files EXCEPT ![c] = @ \cup {fd}]
              /\ io_fhandle' = [io_fhandle EXCEPT ![c] = fd]
              /\ reads' = [reads EXCEPT ![c] = fd]
      BY <2>3 DEF PlayStarts
    <3>2. reads'[c] = fd /\ io_fhandle'[c] = fd /\ fd \in files'[c] /\ fd # NoFile
      BY <1>1, <3>1 DEF Descriptor, NoFile
    <3>3. NextAreOffered(call'[c], evq'[c])
      BY <1>1, <1>3, <2>1, <2>3, OfferedAnswered
    <3>4. AnswersOnce(call'[c], evq'[c])
      <4>1. evq[c] \in Seq(Event)
        BY <1>1
      <4>2. QED
        BY <1>1, <1>3, <2>3, <4>1, OnceShifted
    <3>5. QED
      BY <1>10, <3>2, <3>3, <3>4 DEF PlayKept
  <2>4. CASE ~(PlayStarts(c) /\ UNCHANGED call)
    <3>1. PState' = PState
      BY <1>10, <2>4 DEF OnAnswered, WhenAnswered, PlayRefused, FileNotOpened
    <3>2. QED
      BY <1>7, <1>10, <2>2, <3>1
  <2>5. QED
    BY <2>3, <2>4
<1>11. QED
  BY <1>6, <1>8, <1>9, <1>10

\* Every step keeps what is played known.
LEMMA PlayNext ==
    ASSUME TypeOK, OrderInv, FoundInv, PlayInv, [Next]_vars
    PROVE  PlayInv'
<1> SUFFICES ASSUME NEW d \in Channels PROVE PlayKept(d)
  BY DEF PlayInv, PlayKept
<1>1. DeviceTypeOK
  BY DEF TypeOK
<1>2. CASE UNCHANGED vars \/ NoEvent \/ NotInterrupted
  BY <1>2, PlayElsewhere
     DEF vars, flowVars, deviceVars, channelVars, fileVars, NoEvent, NotInterrupted
<1>3. ASSUME NEW c \in Channels, ProcessEvent(c) PROVE PlayKept(d)
  BY <1>3, HandlerPlay, FlowPlay
     DEF ProcessEvent, OnLineEvent, OnFailureEvent, OnAccepted, OnCallEnd, OnCall
<1>4. CASE CloseOrReturn \/ Signal
  <2>1. PICK m : call'[d] \in Requests(call[d], m)
    BY <1>4 DEF CloseOrReturn, CloseIdleLines, Signal, intr_hdlr, Requests
  <2>2. Shifts(evq[d], evq'[d])
    BY <1>4 DEF CloseOrReturn, CloseIdleLines, Signal, intr_hdlr, Shifts
  <2>3. PState'[d] = "PLAY" => PState[d] = "PLAY" /\ evq'[d] = evq[d]
    BY <1>4 DEF CloseOrReturn, CloseIdleLines, Closable, Signal, intr_hdlr
  <2>4. UNCHANGED fileVars
    BY <1>4 DEF CloseOrReturn, Signal
  <2>5. QED
    BY <2>1, <2>2, <2>3, <2>4, PlayMoved DEF fileVars
<1>5. ASSUME NEW c \in Channels, Library(c) \/ Network(c), Outside PROVE PlayKept(d)
  <2>1. UNCHANGED <<PState, fileVars>>
    BY <1>5 DEF Outside, flowVars, channelVars
  <2>2. CASE d # c
    <3>1. call'[d] = call[d] /\ evq'[d] = evq[d]
      BY <1>1, <1>5, <2>2, EnvironmentAdvances
    <3>2. QED
      BY <2>1, <3>1, PlayElsewhere DEF fileVars
  <2>3. CASE d = c
    <3>1. Advances(call[d], evq[d], call'[d], evq'[d])
      BY <1>1, <1>5, <2>3, EnvironmentAdvances
    <3>2. call[d] \in [Crn -> CallState] /\ evq[d] \in Seq(Event) /\ AnswersOnce(call[d], evq[d])
      BY DEF TypeOK, DeviceTypeOK, PlayInv
    <3>3. AnswersOnce(call'[d], evq'[d])
      BY <3>1, <3>2, OnceAdvanced
    <3>4. NextAreOffered(call[d], evq[d]) => NextAreOffered(call'[d], evq'[d])
      BY <3>1, <3>2, OfferedAdvanced
    <3>5. QED
      BY <2>1, <3>3, <3>4 DEF PlayInv, PlayKept, fileVars
  <2>4. QED
    BY <2>2, <2>3
<1>6. QED
  BY <1>2, <1>3, <1>4, <1>5 DEF Next, MainLoop

\* In PLAY the iott has the descriptor that is read, in every mode and whatever came late
\* or failed before; with one channel it is open.
THEOREM PlayedFileKnown == Spec => []PlayedFileIsKnown
<1>1. Init => OrderInv /\ CountInv /\ FoundInv
  BY OrderInit, CountInit, FoundInit DEF Init
<1>2. Init => PlayInv
  BY DEF Init, DeviceInit, ChannelInit, PlayInv, AnswersOnce
<1>3. TypeOK /\ TypeOK' /\ OrderInv /\ CountInv /\ FoundInv /\ [Next]_vars =>
          OrderInv' /\ CountInv' /\ FoundInv'
  BY OrderNext, CountNext, FoundNext DEF CountInv
<1>4. TypeOK /\ OrderInv /\ FoundInv /\ PlayInv /\ [Next]_vars => PlayInv'
  BY PlayNext
<1>5. PlayInv => PlayedFileIsKnown
  BY DEF PlayInv, PlayedFileIsKnown
<1>6. QED
  BY <1>1, <1>2, <1>3, <1>4, <1>5, TypeCorrect, PTL DEF Spec

=============================================================================
