------------------------ MODULE CallServerSessionProofs ------------------------
(***************************************************************************)
(* The sessions of CallServer, for every value of the constants: the       *)
(* assertions hold, a reply is for the newest session of its channel,      *)
(* SessionList with the REQ socket implements ScpDialogue, the k-th session*)
(* of a channel is that of its k-th call, and, with an SCP that plays only *)
(* to answered calls, a call plays once.                                   *)
(***************************************************************************)
EXTENDS CallServerProofs

-----------------------------------------------------------------------------
(* The queue of a channel without a session. *)

\* Other events may be added, and any may be taken: it still holds no report.
LEMMA NoReportKept ==
    ASSUME NEW q \in Seq(Event), NoReport(q)
    PROVE  /\ \A e \in Event : e.type \notin {"ACCEPT", "ANSWERED", "TDX_PLAY"} =>
                  NoReport(Append(q, e))
           /\ q # <<>> => NoReport(Tail(q))
           /\ q # <<>> => Head(q).type \notin {"ACCEPT", "ANSWERED", "TDX_PLAY"}
<1>1. ASSUME NEW e \in Event, e.type \notin {"ACCEPT", "ANSWERED", "TDX_PLAY"}
      PROVE  NoReport(Append(q, e))
  <2>1. \A i \in 1..Len(Append(q, e)) :
            Append(q, e)[i] = IF i = Len(q) + 1 THEN e ELSE q[i]
    OBVIOUS
  <2>2. \A i \in 1..Len(Append(q, e)) : i = Len(q) + 1 \/ i \in 1..Len(q)
    OBVIOUS
  <2>3. QED
    BY <1>1, <2>1, <2>2 DEF NoReport
<1>2. ASSUME q # <<>> PROVE NoReport(Tail(q))
  <2>1. \A i \in 1..Len(Tail(q)) : Tail(q)[i] = q[i + 1] /\ i + 1 \in 1..Len(q)
    BY <1>2
  <2>2. QED
    BY <2>1 DEF NoReport
<1>3. ASSUME q # <<>> PROVE Head(q).type \notin {"ACCEPT", "ANSWERED", "TDX_PLAY"}
  <2>1. 1 \in 1..Len(q) /\ Head(q) = q[1]
    BY <1>3
  <2>2. QED
    BY <2>1 DEF NoReport
<1>4. QED
  BY <1>1, <1>2, <1>3

\* A channel other than the one an event is raised for, or taken from, is not
\* disturbed; the one it is raised for stays quiet if it is not to be reported.
LEMMA QueueKept ==
    ASSUME DeviceTypeOK, NEW c \in Channels, NEW d \in Channels, NoReport(evq[d])
    PROVE  /\ \A type \in LineEvent \cup CallEvent, n \in Crn \cup {NoCrn} :
                  Raise(c, type, n) /\ type \notin {"ACCEPT", "ANSWERED", "TDX_PLAY"}
                      => NoReport(evq'[d])
           /\ \A type : TakeEvent(c, type) =>
                  NoReport(evq'[d]) /\ (type \in {"ACCEPT", "ANSWERED", "TDX_PLAY"} => c # d)
<1>1. evq \in [Channels -> Seq(Event)]
  BY DEF DeviceTypeOK
<1>2. ASSUME NEW type \in LineEvent \cup CallEvent, NEW n \in Crn \cup {NoCrn},
             Raise(c, type, n), type \notin {"ACCEPT", "ANSWERED", "TDX_PLAY"}
      PROVE  NoReport(evq'[d])
  <2> DEFINE e == [type |-> type, crn |-> n]
  <2>1. e \in Event /\ e.type \notin {"ACCEPT", "ANSWERED", "TDX_PLAY"}
    BY <1>2 DEF Event
  <2>2. evq'[d] = IF c = d THEN Append(evq[d], e) ELSE evq[d]
    BY <1>1, <1>2 DEF Raise
  <2>3. NoReport(Append(evq[d], e))
    BY <1>1, <2>1, NoReportKept
  <2>4. QED
    BY <2>2, <2>3
<1>3. ASSUME NEW type, TakeEvent(c, type)
      PROVE  NoReport(evq'[d]) /\ (type \in {"ACCEPT", "ANSWERED", "TDX_PLAY"} => c # d)
  <2>1. evq'[d] = IF c = d THEN Tail(evq[d]) ELSE evq[d]
    BY <1>1, <1>3 DEF TakeEvent
  <2>2. evq[c] # <<>> /\ Head(evq[c]).type = type
    BY <1>3 DEF TakeEvent
  <2>3. evq[d] \in Seq(Event)
    BY <1>1
  <2>4. c = d => /\ NoReport(Tail(evq[d]))
                 /\ Head(evq[d]).type \notin {"ACCEPT", "ANSWERED", "TDX_PLAY"}
    BY <2>2, <2>3, NoReportKept
  <2>5. QED
    BY <2>1, <2>2, <2>4
<1>4. QED
  BY <1>2, <1>3

-----------------------------------------------------------------------------
(* Silence is kept. *)

\* The library raises no report on a channel where nothing is answered or played.
LEMMA SilentEnvironment ==
    ASSUME TypeOK, NEW c \in Channels, Library(c) \/ Network(c),
           NEW d \in Channels, Silent(d)
    PROVE  Silent(d)'
<1> USE DEF NoCrn, LineEvent, CallEvent
<1>1. DeviceTypeOK /\ NoReport(evq[d])
  BY DEF TypeOK, Silent
<1>2. ASSUME UNCHANGED <<call, voice>>,
             NEW type \in {"OPENEX", "OPENEX_FAIL", "BLOCKED", "UNBLOCKED", "RESETLINEDEV"},
             Raise(c, type, NoCrn)
      PROVE  Silent(d)'
  BY <1>1, <1>2, QueueKept DEF Silent
<1>3. CASE OpenDone(c) \/ OpenFails(c) \/ Block(c) \/ Unblock(c) \/ ResetDone(c)
  BY <1>2, <1>3 DEF OpenDone, OpenFails, Block, Unblock, ResetDone
<1>4. CASE PlayDone(c)
  <2>1. c # d
    BY <1>4 DEF PlayDone, Silent
  <2>2. QED
    BY <1>4, <2>1, <1>1 DEF PlayDone, Raise, Silent, DeviceTypeOK
<1>5. ASSUME NEW n \in Crn, NEW state \in CallState \ {"accepting", "answering"},
             NEW type \in CallEvent \cup {"TASKFAIL"},
             type \notin {"ACCEPT", "ANSWERED"},
             call' = [call EXCEPT ![c][n] = state], Raise(c, type, n), UNCHANGED voice
      PROVE  Silent(d)'
  <2>1. NoReport(evq'[d])
    BY <1>1, <1>5, QueueKept
  <2>2. \A m \in Crn : call'[d][m] \notin {"accepting", "answering"}
    BY <1>5 DEF Silent, TypeOK, DeviceTypeOK
  <2>3. QED
    BY <1>5, <2>1, <2>2 DEF Silent
<1>6. ASSUME NEW n \in Crn, Complete(c, n) PROVE Silent(d)'
  <2>1. CASE call[c][n] \in {"acking", "dropping", "releasing"}
    <3>1. CASE call[c][n] = "dropping"
      <4>1. /\ call' = [call EXCEPT ![c][n] = "idle"]
            /\ Raise(c, "DROPCALL", n) /\ UNCHANGED voice
        <5>1. Completion[call[c][n]] = [state |-> "idle", event |-> "DROPCALL"]
          BY <3>1 DEF Completion
        <5>2. QED
          BY <1>6, <5>1 DEF Complete
      <4>2. QED
        BY <1>5, <4>1 DEF CallState, Live
    <3>2. CASE call[c][n] = "releasing"
      <4>1. /\ call' = [call EXCEPT ![c][n] = "released"]
            /\ Raise(c, "RELEASECALL", n) /\ UNCHANGED voice
        <5>1. Completion[call[c][n]] = [state |-> "released", event |-> "RELEASECALL"]
          BY <3>2 DEF Completion
        <5>2. QED
          BY <1>6, <5>1 DEF Complete
      <4>2. QED
        BY <1>5, <4>1 DEF CallState, Live
    <3>3. CASE call[c][n] = "acking"
      <4>1. /\ call' = [call EXCEPT ![c][n] = "acked"]
            /\ Raise(c, "CALLPROC", n) /\ UNCHANGED voice
        <5>1. Completion[call[c][n]] = [state |-> "acked", event |-> "CALLPROC"]
          BY <3>3 DEF Completion
        <5>2. QED
          BY <1>6, <5>1 DEF Complete
      <4>2. QED
        BY <1>5, <4>1 DEF CallState, Live, Droppable, Talking
    <3>4. QED
      BY <2>1, <3>1, <3>2, <3>3
  <2>2. CASE call[c][n] \in {"accepting", "answering"}
    <3>1. c # d
      BY <2>2 DEF Silent
    <3>2. QED
      BY <1>6, <3>1 DEF Complete, Raise, Silent, TypeOK, DeviceTypeOK
  <2>3. QED
    BY <1>6, <2>1, <2>2 DEF Complete, Pending
<1>7. ASSUME NEW n \in Crn, Offer(c, n) \/ HangUp(c, n) \/ TaskFails(c, n)
      PROVE  Silent(d)'
  <2>1. CASE Offer(c, n)
    BY <1>5, <2>1 DEF Offer, CallState, Live, Droppable, Talking
  <2>2. CASE HangUp(c, n)
    BY <1>5, <2>2 DEF HangUp, CallState, Live, Droppable
  <2>3. CASE TaskFails(c, n)
    BY <1>5, <2>3 DEF TaskFails, CallState, Live, Droppable
  <2>4. QED
    BY <1>7, <2>1, <2>2, <2>3
<1>8. QED
  BY <1>3, <1>4, <1>6, <1>7 DEF Library, Network

\* The requests the program makes of its own accord put no call into "accepting"
\* or "answering"; only Answer and OnAccept do.
LEMMA RequestQuiet ==
    ASSUME NEW calls \in [Crn -> CallState], NEW n,
           \A m \in Crn : calls[m] \notin {"accepting", "answering"}
    PROVE  \A m \in Crn :
               /\ gc_DropCall(calls, n)[m] \notin {"accepting", "answering"}
               /\ gc_ReleaseCallEx(calls, n)[m] \notin {"accepting", "answering"}
               /\ Cleared(calls)[m] \notin {"accepting", "answering"}
BY DEF gc_DropCall, gc_ReleaseCallEx, Request, Cleared

\* Nor does the program start anything there when it takes an event.
LEMMA SilentEvent ==
    ASSUME TypeOK, NEW c \in Channels, ProcessEvent(c), NEW d \in Channels, Silent(d)
    PROVE  Silent(d)'
<1>1. DeviceTypeOK /\ NoReport(evq[d]) /\ call[d] \in [Crn -> CallState]
  BY DEF TypeOK, DeviceTypeOK, Silent
<1>2. ASSUME NEW type, TakeEvent(c, type)
      PROVE  NoReport(evq'[d]) /\ (type \in {"ACCEPT", "ANSWERED", "TDX_PLAY"} => c # d)
  BY <1>1, <1>2, QueueKept
<1>3. CASE \/ OnLogged(c) \/ OnUnblocked(c) \/ OnUnblockedNoVoice(c) \/ OnOffered(c)
           \/ OnReleaseCall(c) \/ OnResetLineDev(c) \/ OnPlay(c)
  <2>1. UNCHANGED <<call, voice>> /\ \E type : TakeEvent(c, type)
    BY <1>3 DEF OnLogged, OnUnblocked, OnUnblockedNoVoice, OnOffered, NewCall,
                OnReleaseCall, OnResetLineDev, OnPlay
  <2>2. QED
    BY <1>2, <2>1 DEF Silent
<1>4. CASE OnAccept(c) \/ OnAnswered(c)
  <2>1. c # d
    BY <1>2, <1>4 DEF OnAccept, OnAnswered
  <2>2. evq'[d] = evq[d] /\ voice'[d] = voice[d]
    BY <1>1, <1>4, <2>1 DEF OnAccept, OnAnswered, TakeEvent, DeviceTypeOK
  <2>3. call'[d] = call[d]
    BY <1>1, <1>4, <2>1 DEF OnAccept, OnAnswered, DeviceTypeOK
  <2>4. QED
    BY <2>2, <2>3 DEF Silent
<1>5. CASE OnDisconnected(c) \/ OnDropCall(c) \/ OnTaskFail(c)
  <2>1. NoReport(evq'[d])
    BY <1>2, <1>5 DEF OnDisconnected, OnDropCall, OnTaskFail
  <2>2. voice'[d] = "idle"
    BY <1>5 DEF OnDisconnected, OnDropCall, OnTaskFail, dx_stopch, Silent, TypeOK,
                DeviceTypeOK
  <2>3. \/ call'[d] = call[d]
        \/ \E n : call'[d] = gc_DropCall(call[d], n)
        \/ \E n : call'[d] = gc_ReleaseCallEx(call[d], n)
        \/ call'[d] = Cleared(call[d])
    BY <1>1, <1>5 DEF OnDisconnected, OnDropCall, OnTaskFail, DeviceTypeOK
  <2>4. \A m \in Crn : call'[d][m] \notin {"accepting", "answering"}
    BY <1>1, <2>3, RequestQuiet DEF Silent
  <2>5. QED
    BY <2>1, <2>2, <2>4 DEF Silent
<1>6. QED
  BY <1>3, <1>4, <1>5
     DEF ProcessEvent, OnChannelEvent, OnLine, OnCall, OnFailure

\* Commands go to channels that have a session, so a channel that has none stays
\* silent; the exit check and the signal handler start no call and no playback.
LEMMA SilentRest ==
    ASSUME TypeOK, ChannelKnowsNewest,
           \/ NoEvent \/ NothingReceived \/ Answer \/ PlayFragment
           \/ PlayFragmentFails \/ DropCall \/ UnknownCommand \/ NotInterrupted
           \/ checkAppExitCondition \/ ScpProcess \/ ScpSilent \/ Signal,
           NEW d \in Channels, getSessionByChannel(d) = UNKNOWN_SESSION, Silent(d)
    PROVE  Silent(d)'
<1> DEFINE c == getChannelBySession(exchange.session)
<1>1. call \in [Channels -> [Crn -> CallState]]
  BY DEF TypeOK, DeviceTypeOK
<1>2. CASE UNCHANGED <<call, voice, evq>>
  BY <1>2 DEF Silent
<1>3. ASSUME NEW cmd, Received(cmd) PROVE c # d
  <2>1. exchange.session \in DOMAIN session2channel
    BY <1>3 DEF Received, recv, TypeOK, SessionTypeOK
  <2>2. QED
    BY <2>1 DEF ChannelKnowsNewest
<1>4. CASE NoEvent \/ NothingReceived \/ PlayFragmentFails \/ UnknownCommand
           \/ NotInterrupted \/ ScpProcess \/ ScpSilent
  BY <1>2, <1>4 DEF NoEvent, NothingReceived, PlayFragmentFails, UnknownCommand,
                    NotInterrupted, ScpProcess, ScpSilent, deviceVars
<1>5. CASE Answer \/ PlayFragment \/ DropCall
  <2>1. c # d
    BY <1>3, <1>5 DEF Answer, PlayFragment, DropCall
  <2>2. call'[d] = call[d]
    BY <1>1, <1>5, <2>1 DEF Answer, PlayFragment, DropCall, InitDisconnect, OfReply
  <2>3. voice'[d] = voice[d] /\ evq' = evq
    BY <1>5, <2>1 DEF OfReply, Answer, PlayFragment, DropCall, InitDisconnect, TypeOK, DeviceTypeOK
  <2>4. QED
    BY <2>2, <2>3 DEF Silent
<1>6. CASE checkAppExitCondition
  <2>1. call'[d] = call[d] \/ call'[d] = Cleared(call[d])
    BY <1>6 DEF checkAppExitCondition, AtExit, CloseIdleLines
  <2>2. \A n \in Crn : call'[d][n] \notin {"accepting", "answering"}
    BY <1>1, <2>1, RequestQuiet DEF Silent
  <2>3. voice'[d] = "idle" /\ (evq'[d] = evq[d] \/ evq'[d] = <<>>)
    BY <1>6 DEF checkAppExitCondition, AtExit, CloseIdleLines, Silent
  <2>4. NoReport(<<>>)
    BY DEF NoReport
  <2>5. QED
    BY <2>2, <2>3, <2>4 DEF Silent
<1>7. CASE Signal
  <2>1. call'[d] = call[d] \/ call'[d] = gc_DropCall(call[d], Calls[d][0].crn)
    BY <1>7 DEF Signal, intr_hdlr
  <2>2. \A n \in Crn : call'[d][n] \notin {"accepting", "answering"}
    BY <1>1, <2>1, RequestQuiet DEF Silent
  <2>3. voice'[d] = "idle" /\ evq' = evq
    BY <1>7 DEF Signal, intr_hdlr, dx_stopch, Silent
  <2>4. QED
    BY <2>2, <2>3 DEF Silent
<1>8. QED
  BY <1>4, <1>5, <1>6, <1>7

-----------------------------------------------------------------------------
(* The inductive invariant. *)

\* Before the first call there is no session to confuse.
LEMMA SessionInit == Init => SessionInv
BY DEF Init, DeviceInit, ChannelInit, SessionInv, AssertionsHold, RepliesAreCurrent,
       ChannelKnowsNewest, SilentUntilKnown, Silent, NoReport, NoExchange,
       getSessionByChannel, getChannelBySession

\* A new call: its session is the newest of its channel, and of all.
LEMMA OfferedSession ==
    ASSUME TypeOK, TypeOK', SessionInv, NEW c \in Channels, OnOffered(c)
    PROVE  SessionInv'
<1>1. /\ lastSession' = lastSession + 1
      /\ channel2session' = [channel2session EXCEPT ![c] = lastSession]
      /\ session2channel' = [s \in 0..lastSession |->
             IF s = lastSession THEN c ELSE session2channel[s]]
  BY DEF OnOffered, createSession
<1>2. /\ lastSession \in Nat /\ UNKNOWN_SESSION \in Nat /\ lastSession < UNKNOWN_SESSION
      /\ DOMAIN session2channel = 0..(lastSession - 1)
      /\ channel2session \in [Channels -> 0..(lastSession - 1) \cup {UNKNOWN_SESSION}]
      /\ session2channel \in [0..(lastSession - 1) -> Channels]
  <2>1. UNKNOWN_SESSION \in Nat
    BY ServerAssumption
  <2>2. lastSession \in Nat
    BY <2>1 DEF TypeOK, SessionTypeOK
  <2>3. lastSession < UNKNOWN_SESSION
    BY DEF OnOffered
  <2>4. QED
    BY <2>1, <2>2, <2>3 DEF TypeOK, SessionTypeOK
<1>3. ChannelKnowsNewest'
  <2>1. ASSUME NEW d \in Channels, channel2session'[d] # UNKNOWN_SESSION
        PROVE  session2channel'[channel2session'[d]] = d
    BY <1>1, <1>2, <2>1 DEF SessionInv, ChannelKnowsNewest, getSessionByChannel,
                            getChannelBySession
  <2>2. ASSUME NEW s \in 0..lastSession
        PROVE  /\ channel2session'[session2channel'[s]] # UNKNOWN_SESSION
               /\ s <= channel2session'[session2channel'[s]]
    <3>1. CASE s = lastSession
      BY <1>1, <1>2, <3>1
    <3>2. CASE s # lastSession
      <4>1. s \in 0..(lastSession - 1) /\ session2channel'[s] = session2channel[s]
        BY <1>1, <1>2, <3>2
      <4>2. /\ channel2session[session2channel[s]] # UNKNOWN_SESSION
            /\ s <= channel2session[session2channel[s]]
        BY <1>2, <4>1 DEF SessionInv, ChannelKnowsNewest, getSessionByChannel,
                          getChannelBySession
      <4>3. QED
        BY <1>1, <1>2, <4>1, <4>2
    <3>3. QED
      BY <3>1, <3>2
  <2>3. DOMAIN session2channel' = 0..lastSession
    BY <1>1
  <2>4. QED
    BY <2>1, <2>2, <2>3 DEF ChannelKnowsNewest, getSessionByChannel, getChannelBySession
<1>4. SilentUntilKnown'
  <2>1. ASSUME NEW d \in Channels, channel2session'[d] = UNKNOWN_SESSION
        PROVE  Silent(d)'
    <3>1. channel2session[d] = UNKNOWN_SESSION
      BY <1>1, <1>2, <2>1
    <3>2. Silent(d)
      BY <3>1 DEF SessionInv, SilentUntilKnown, getSessionByChannel
    <3>3. ProcessEvent(c)
      BY DEF ProcessEvent
    <3>4. QED
      BY <3>2, <3>3, SilentEvent
  <2>2. QED
    BY <2>1 DEF SilentUntilKnown, getSessionByChannel
<1>5. AssertionsHold' /\ RepliesAreCurrent'
  <2>1. proc = "running" /\ Send(lastSession, "OFFERED")
    BY DEF OnOffered, AtEvent
  <2>2. CASE exchange.stage = "idle"
    <3>1. exchange' = [stage |-> "asked", session |-> lastSession, body |-> "OFFERED"]
      BY <2>1, <2>2 DEF Send
    <3>2. session2channel'[lastSession] = c /\ channel2session'[c] = lastSession
      BY <1>1, <1>2
    <3>3. proc' = proc
      BY <2>1, <2>2 DEF Send
    <3>4. QED
      BY <2>1, <3>1, <3>2, <3>3 DEF AssertionsHold, RepliesAreCurrent,
                                    getSessionByChannel, getChannelBySession
  <2>3. CASE exchange.stage # "idle"
    BY <2>1, <2>3 DEF Send, AssertionsHold, RepliesAreCurrent
  <2>4. QED
    BY <2>2, <2>3
<1>6. QED
  BY <1>3, <1>4, <1>5 DEF SessionInv

\* When an event is to be reported, its channel has a session.
LEMMA ReportHasSession ==
    ASSUME TypeOK, SessionInv, NEW c \in Channels,
           NEW type \in {"ACCEPT", "ANSWERED", "TDX_PLAY"}, TakeEvent(c, type)
    PROVE  /\ channel2session[c] # UNKNOWN_SESSION
           /\ channel2session[c] \in DOMAIN session2channel
           /\ session2channel[channel2session[c]] = c
<1>1. channel2session[c] # UNKNOWN_SESSION
  <2>1. SUFFICES ~Silent(c)
    BY DEF SessionInv, SilentUntilKnown, getSessionByChannel
  <2>2. SUFFICES ASSUME NoReport(evq[c]) PROVE FALSE
    BY DEF Silent
  <2>3. evq[c] \in Seq(Event) /\ evq[c] # <<>> /\ Head(evq[c]).type = type
    BY DEF TypeOK, DeviceTypeOK, TakeEvent
  <2>4. QED
    BY <2>2, <2>3, NoReportKept
<1>2. channel2session[c] \in DOMAIN session2channel
  BY <1>1 DEF TypeOK, SessionTypeOK
<1>3. QED
  BY <1>1, <1>2 DEF SessionInv, ChannelKnowsNewest, getSessionByChannel,
                    getChannelBySession

\* What a step of the main loop that reports something does to the exchange.
LEMMA ReportStep ==
    ASSUME TypeOK, SessionInv, NEW c \in Channels, OnAnswered(c) \/ OnPlay(c)
    PROVE  /\ UNCHANGED sessionVars /\ proc = "running"
           /\ \/ UNCHANGED <<exchange, proc>>
              \/ UNCHANGED exchange /\ proc' = "zmq_error"
              \/ /\ exchange.stage = "idle" /\ exchange'.stage = "asked"
                 /\ exchange'.session = channel2session[c] /\ UNCHANGED proc
<1>1. /\ UNCHANGED sessionVars /\ proc = "running"
      /\ TakeEvent(c, "ANSWERED") \/ TakeEvent(c, "TDX_PLAY")
  BY DEF OnAnswered, OnPlay, AtEvent
<1>2. channel2session[c] # UNKNOWN_SESSION
  BY <1>1, ReportHasSession
<1>3. UNCHANGED <<exchange, proc>> \/ \E e : Send(channel2session[c], e)
  BY <1>2 DEF OnAnswered, OnPlay, SendOfChannel, getSessionByChannel
<1>4. QED
  BY <1>1, <1>3 DEF Send

\* A step that is neither a new call nor a report: no session changes, and the
\* exchange, if it stays open, stays about the same session.
LEMMA QuietStep ==
    ASSUME TypeOK, NEW c,
           \/ (Library(c) \/ Network(c)) /\ Outside
           \/ ProcessEvent(c) /\ ~OnOffered(c) /\ ~OnAnswered(c) /\ ~OnPlay(c)
           \/ NoEvent \/ NothingReceived \/ Answer \/ PlayFragment
           \/ PlayFragmentFails \/ DropCall \/ UnknownCommand \/ NotInterrupted
           \/ checkAppExitCondition \/ ScpProcess \/ ScpSilent \/ Signal
    PROVE  /\ UNCHANGED sessionVars /\ proc = "running"
           /\ proc' \in {"running", "exited", "null_transport", "bad_command"}
           /\ \/ UNCHANGED exchange
              \/ exchange.stage # "idle" /\ exchange' = NoExchange
              \/ /\ exchange.stage # "idle" /\ exchange'.stage # "idle"
                 /\ exchange'.session = exchange.session /\ UNCHANGED proc
<1>1. CASE (Library(c) \/ Network(c)) /\ Outside
  BY <1>1 DEF Outside, serverVars
<1>2. CASE ProcessEvent(c) /\ ~OnOffered(c) /\ ~OnAnswered(c) /\ ~OnPlay(c)
  BY <1>2 DEF ProcessEvent, OnChannelEvent, AtEvent
<1>3. CASE NoEvent \/ NothingReceived \/ NotInterrupted \/ Signal
  BY <1>3 DEF NoEvent, NothingReceived, NotInterrupted, AtExit, NoEvent, AtEvent, Signal
<1>4. CASE checkAppExitCondition
  BY <1>4 DEF checkAppExitCondition, AtExit, CloseIdleLines
<1>5. CASE Answer \/ PlayFragment \/ PlayFragmentFails \/ DropCall \/ UnknownCommand
  BY <1>5 DEF Answer, PlayFragment, PlayFragmentFails, DropCall, UnknownCommand, Received, recv
<1>6. CASE ScpProcess \/ ScpSilent
  <2>1. exchange.stage = "asked" /\ proc = "running" /\ UNCHANGED <<sessionVars, proc>>
    BY <1>6 DEF ScpProcess, ScpSilent
  <2>2. exchange \in [stage : {"asked", "lost"}, session : Session, body : SspEvent]
    BY <2>1 DEF TypeOK, SessionTypeOK, Exchange, NoExchange
  <2>3. exchange'.session = exchange.session /\ exchange'.stage \in {"told", "lost"}
    BY <1>6, <2>2 DEF ScpProcess, ScpSilent
  <2>4. QED
    BY <2>1, <2>3
<1>7. QED
  BY <1>1, <1>2, <1>3, <1>4, <1>5, <1>6

\* SessionInv is inductive, relative to the types.
LEMMA SessionNext == TypeOK /\ TypeOK' /\ SessionInv /\ [Next]_vars => SessionInv'
<1> SUFFICES ASSUME TypeOK, TypeOK', SessionInv, [Next]_vars PROVE SessionInv'
  OBVIOUS
<1> USE DEF getSessionByChannel, getChannelBySession
<1>1. ASSUME UNCHANGED sessionVars PROVE ChannelKnowsNewest'
  BY <1>1 DEF SessionInv, ChannelKnowsNewest, sessionVars
<1>2. ASSUME UNCHANGED sessionVars, \A d \in Channels :
                 channel2session[d] = UNKNOWN_SESSION /\ Silent(d) => Silent(d)'
      PROVE  SilentUntilKnown'
  BY <1>2 DEF SessionInv, SilentUntilKnown, sessionVars
<1>3. CASE UNCHANGED vars
  BY <1>3 DEF vars, serverVars, deviceVars, sessionVars, SessionInv, AssertionsHold,
              RepliesAreCurrent, ChannelKnowsNewest, SilentUntilKnown, Silent
<1>4. ASSUME NEW c \in Channels, OnAnswered(c) \/ OnPlay(c) PROVE SessionInv'
  <2>1. ProcessEvent(c)
    BY <1>4 DEF ProcessEvent
  <2>2. UNCHANGED sessionVars
    BY <1>4, ReportStep
  <2>3. ChannelKnowsNewest' /\ SilentUntilKnown'
    BY <1>1, <1>2, <2>1, <2>2, SilentEvent
  <2>4. AssertionsHold'
    BY <1>4, ReportStep DEF SessionInv, AssertionsHold
  <2>5. channel2session[c] # UNKNOWN_SESSION /\ session2channel[channel2session[c]] = c
    BY <1>4, ReportHasSession DEF OnAnswered, OnPlay
  <2>6. RepliesAreCurrent'
    BY <1>4, <2>5, ReportStep DEF SessionInv, RepliesAreCurrent, sessionVars
  <2>7. QED
    BY <2>3, <2>4, <2>6 DEF SessionInv
<1>5. ASSUME NEW c,
             \/ c \in Channels /\ (Library(c) \/ Network(c)) /\ Outside
             \/ c \in Channels /\ ProcessEvent(c) /\ ~OnOffered(c) /\ ~OnAnswered(c) /\ ~OnPlay(c)
             \/ NoEvent \/ NothingReceived \/ Answer \/ PlayFragment
             \/ PlayFragmentFails \/ DropCall \/ UnknownCommand \/ NotInterrupted
             \/ checkAppExitCondition \/ ScpProcess \/ ScpSilent \/ Signal
      PROVE  SessionInv'
  <2>1. UNCHANGED sessionVars
    BY <1>5, QuietStep
  <2>2. ChannelKnowsNewest'
    BY <1>1, <2>1
  <2>3. SilentUntilKnown'
    BY <1>2, <1>5, <2>1, SilentEnvironment, SilentEvent, SilentRest DEF SessionInv
  <2>4. AssertionsHold'
    BY <1>5, QuietStep DEF AssertionsHold
  <2>5. RepliesAreCurrent'
    BY <1>5, QuietStep DEF SessionInv, RepliesAreCurrent, sessionVars, NoExchange
  <2>6. QED
    BY <2>2, <2>3, <2>4, <2>5 DEF SessionInv
<1>6. ASSUME NEW c \in Channels, ProcessEvent(c) PROVE SessionInv'
  BY <1>4, <1>5, <1>6, OfferedSession
<1>7. QED
  BY <1>3, <1>5, <1>6 DEF Next, MainLoop

\* SessionList, the queue of every channel and the REQ socket agree in every
\* reachable state: the inductive invariant behind the theorems below.
THEOREM SessionsAgree == Spec => []SessionInv
<1>1. Spec => []TypeOK
  BY TypeCorrect
<1>2. Init => SessionInv
  BY SessionInit
<1>3. TypeOK /\ TypeOK' /\ SessionInv /\ [Next]_vars => SessionInv'
  BY SessionNext
<1>4. QED
  BY <1>1, <1>2, <1>3, PTL DEF Spec

\* assert(session != UNKNOWN_SESSION), callserver.cpp:923 and 1094, never fails,
\* whatever the SCP replies and the network does: an answered call, or a playback,
\* presupposes a command, and that the OFFERED of the channel made its session.
THEOREM AssertionsNeverFail == Spec => []AssertionsHold
<1>1. SessionInv => AssertionsHold
  BY DEF SessionInv
<1>2. QED
  BY <1>1, SessionsAgree, PTL

\* processPacket finds the channel by the session of the reply, and the commands
\* act on the newest call of it: that call is the one the SCP was asked about.
THEOREM RepliesStayCurrent == Spec => []RepliesAreCurrent
<1>1. SessionInv => RepliesAreCurrent
  BY DEF SessionInv
<1>2. QED
  BY <1>1, SessionsAgree, PTL

-----------------------------------------------------------------------------
(* Refinement. *)

\* The dialogue starts with no session and no question.
LEMMA DialogueInit == Init => Dialogue!Init
BY DEF Init, Dialogue!Init, NoExchange

\* Every step of the program is a step of the dialogue or invisible to the SCP.
LEMMA DialogueNext ==
    ASSUME TypeOK, SessionInv, [Next]_vars
    PROVE  [Dialogue!Next]_(Dialogue!vars)
<1>1. CASE UNCHANGED vars
  BY <1>1 DEF vars, serverVars, sessionVars, Dialogue!vars
<1>2. lastSession \in Nat /\ UNKNOWN_SESSION \in Nat
  BY ServerAssumption DEF TypeOK, SessionTypeOK
<1>3. exchange.stage = "idle" => exchange.session = UNKNOWN_SESSION
  BY DEF TypeOK, SessionTypeOK, Exchange, NoExchange
<1>4. exchange.stage # "idle" => exchange.session # UNKNOWN_SESSION
  BY <1>2 DEF TypeOK, SessionTypeOK
<1>5. ASSUME NEW c \in Channels, OnOffered(c) PROVE Dialogue!Next
  <2>1. /\ lastSession' = lastSession + 1
        /\ session2channel' = [s \in 0..lastSession |->
               IF s = lastSession THEN c ELSE session2channel[s]]
    BY <1>5 DEF OnOffered, createSession
  <2>2. Dialogue!Create(c)
    BY <2>1 DEF Dialogue!Create
  <2>3. proc = "running" /\ Send(lastSession, "OFFERED")
    BY <1>5 DEF OnOffered, AtEvent
  <2>4. CASE exchange.stage = "idle"
    <3>1. exchange'.session = lastSession /\ proc' = "running"
      BY <2>3, <2>4 DEF Send
    <3>2. Dialogue!NewSession
      BY <1>3, <2>2, <2>3, <2>4, <3>1 DEF Dialogue!NewSession
    <3>3. QED
      BY <3>2 DEF Dialogue!Next
  <2>5. CASE exchange.stage # "idle"
    <3>1. UNCHANGED exchange /\ proc' = "zmq_error"
      BY <2>3, <2>5 DEF Send
    <3>2. Dialogue!Stop
      BY <2>2, <2>3, <3>1 DEF Dialogue!Stop
    <3>3. QED
      BY <3>2 DEF Dialogue!Next
  <2>6. QED
    BY <2>4, <2>5
<1>6. ASSUME NEW c \in Channels, OnAnswered(c) \/ OnPlay(c)
      PROVE  [Dialogue!Next]_(Dialogue!vars)
  <2> DEFINE s == channel2session[c]
  <2>1. UNCHANGED <<lastSession, session2channel>> /\ proc = "running"
    BY <1>6, ReportStep DEF sessionVars
  <2>2. CASE UNCHANGED <<exchange, proc>>
    BY <2>1, <2>2 DEF Dialogue!vars
  <2>3. CASE UNCHANGED exchange /\ proc' = "zmq_error"
    BY <2>1, <2>3 DEF Dialogue!Next, Dialogue!Stop
  <2>4. CASE /\ exchange.stage = "idle" /\ exchange'.session = s /\ UNCHANGED proc
    <3>1. s \in DOMAIN session2channel /\ session2channel[s] = c
      BY <1>6, ReportHasSession DEF OnAnswered, OnPlay
    <3>2. Dialogue!Newest(s)
      BY <3>1 DEF SessionInv, ChannelKnowsNewest, getSessionByChannel,
                  getChannelBySession, Dialogue!Newest
    <3>3. Dialogue!AskAgain
      BY <1>3, <2>1, <2>4, <3>1, <3>2 DEF Dialogue!AskAgain
    <3>4. QED
      BY <3>3 DEF Dialogue!Next
  <2>5. QED
    BY <1>6, <2>2, <2>3, <2>4, ReportStep
<1>7. ASSUME NEW c,
             \/ (Library(c) \/ Network(c)) /\ Outside
             \/ ProcessEvent(c) /\ ~OnOffered(c) /\ ~OnAnswered(c) /\ ~OnPlay(c)
             \/ NoEvent \/ NothingReceived \/ Answer \/ PlayFragment
             \/ PlayFragmentFails \/ DropCall \/ UnknownCommand \/ NotInterrupted
             \/ checkAppExitCondition \/ ScpProcess \/ ScpSilent \/ Signal
      PROVE  [Dialogue!Next]_(Dialogue!vars)
  <2>1. UNCHANGED <<lastSession, session2channel>> /\ proc = "running"
    BY <1>7, QuietStep DEF sessionVars
  <2>2. exchange'.session \in {exchange.session, UNKNOWN_SESSION}
    BY <1>7, QuietStep DEF NoExchange
  <2>3. CASE proc' # "running"
    BY <2>1, <2>2, <2>3 DEF Dialogue!Next, Dialogue!Stop
  <2>4. CASE proc' = "running" /\ exchange'.session = exchange.session
    BY <2>1, <2>4 DEF Dialogue!vars
  <2>5. CASE proc' = "running" /\ exchange'.session # exchange.session
    BY <1>3, <1>4, <2>1, <2>2, <2>5 DEF Dialogue!Next, Dialogue!Answered
  <2>6. QED
    BY <2>3, <2>4, <2>5
<1>8. ASSUME NEW c \in Channels, ProcessEvent(c)
      PROVE  [Dialogue!Next]_(Dialogue!vars)
  BY <1>5, <1>6, <1>7, <1>8
<1>9. QED
  BY <1>1, <1>7, <1>8 DEF Next, MainLoop

\* The call server keeps every promise of ScpDialogue: one question at a time,
\* about the newest session of a channel, or the process stops.
THEOREM DialogueImplemented == Spec => ImplementsDialogue
<1>1. Init => Dialogue!Init
  BY DialogueInit
<1>2. TypeOK /\ SessionInv /\ [Next]_vars => [Dialogue!Next]_(Dialogue!vars)
  BY DialogueNext
<1>3. QED
  BY <1>1, <1>2, TypeCorrect, SessionsAgree, PTL
     DEF Spec, ImplementsDialogue, Dialogue!Spec

-----------------------------------------------------------------------------
(* The k-th session of a channel is call k's. *)

\* h calls were taken from the queue q; the offers that follow are of the calls after
\* the h-th, in order, and while the line is open none of them is missing.
OffersNumbered(k, q, h, open) ==
    /\ \A n \in Crn : n <= h => k[n] # "none"
    /\ \A m, n \in Crn : (m <= n /\ k[n] # "none") => k[m] # "none"
    /\ \A i \in 1..Len(q) : q[i].type = "OFFERED" =>
           /\ open
           /\ q[i].crn \in Crn /\ h < q[i].crn /\ k[q[i].crn] # "none"
           /\ \A j \in 1..Len(q) : (i < j /\ q[j].type = "OFFERED") => q[i].crn < q[j].crn
    /\ open => \A n \in Crn : (h < n /\ k[n] # "none") => Holds(q, "OFFERED", n)

\* NewestCallIsFirst made inductive.
NumberInv ==
    \A c \in Channels :
        /\ IsFiniteSet(Sessions(c))
        /\ OffersNumbered(call[c], evq[c], Cardinality(Sessions(c)), line[c] # "closed")
        /\ Calls[c][0].crn \in {NoCrn, Cardinality(Sessions(c))}

\* Moving calls on, or ending them, keeps the numbers.
LEMMA NumberedMove ==
    ASSUME NEW k \in [Crn -> CallState], NEW q \in Seq(Event), NEW h \in Nat, NEW open \in BOOLEAN,
           OffersNumbered(k, q, h, open), NEW l \in [Crn -> CallState],
           \A n \in Crn : (l[n] = "none") <=> (k[n] = "none")
    PROVE  OffersNumbered(l, q, h, open)
BY DEF OffersNumbered

\* An event that offers no call keeps them too.
LEMMA NumberedRaise ==
    ASSUME NEW k \in [Crn -> CallState], NEW q \in Seq(Event), NEW h \in Nat, NEW open \in BOOLEAN,
           OffersNumbered(k, q, h, open), NEW e, e.type # "OFFERED"
    PROVE  OffersNumbered(k, Append(q, e), h, open)
<1>1. /\ Len(q) \in Nat /\ Len(Append(q, e)) = Len(q) + 1
      /\ \A i \in 1..Len(Append(q, e)) : Append(q, e)[i] = IF i = Len(q) + 1 THEN e ELSE q[i]
  OBVIOUS
<1>2. \A i \in 1..Len(Append(q, e)) : Append(q, e)[i].type = "OFFERED" =>
          i \in 1..Len(q) /\ Append(q, e)[i] = q[i]
  BY <1>1
<1>3. \A n : Holds(q, "OFFERED", n) => Holds(Append(q, e), "OFFERED", n)
  BY HoldsAppend
<1>4. QED
  BY <1>2, <1>3 DEF OffersNumbered

\* The network offers the call that follows all the others.
LEMMA NumberedOffer ==
    ASSUME NEW k \in [Crn -> CallState], NEW q \in Seq(Event), NEW h \in Nat,
           OffersNumbered(k, q, h, TRUE), NEW n \in Crn, k[n] = "none",
           \A m \in Crn : m < n => k[m] # "none"
    PROVE  OffersNumbered([k EXCEPT ![n] = "offered"],
                          Append(q, [type |-> "OFFERED", crn |-> n]), h, TRUE)
<1> DEFINE e == [type |-> "OFFERED", crn |-> n]
           l == [k EXCEPT ![n] = "offered"]
           p == Append(q, e)
<1>1. /\ Len(q) \in Nat /\ Len(p) = Len(q) + 1
      /\ \A i \in 1..Len(p) : \/ i = Len(q) + 1 /\ p[i] = e
                              \/ i < Len(q) + 1 /\ i \in 1..Len(q) /\ p[i] = q[i]
  OBVIOUS
<1>2. /\ l[n] # "none" /\ (\A m \in Crn : k[m] # "none" => l[m] # "none")
      /\ \A m \in Crn : m # n => l[m] = k[m]
  OBVIOUS
<1>3. n \in Nat /\ h < n /\ \A m \in Crn : m \in Nat
  BY DEF OffersNumbered, Crn
<1>4. ASSUME NEW m \in Crn, k[m] # "none" PROVE m < n
  <2>1. ~(n <= m)
    BY <1>4 DEF OffersNumbered
  <2>2. QED
    BY <1>3, <2>1
<1>5. \A a, b \in Crn : (a <= b /\ l[b] # "none") => l[a] # "none"
  BY <1>2, <1>3, <1>4
<1>6. ASSUME NEW i \in 1..Len(p), p[i].type = "OFFERED"
      PROVE  /\ p[i].crn \in Crn /\ h < p[i].crn /\ l[p[i].crn] # "none"
             /\ \A j \in 1..Len(p) : (i < j /\ p[j].type = "OFFERED") => p[i].crn < p[j].crn
  <2>1. CASE i = Len(q) + 1
    BY <1>1, <1>2, <1>3, <2>1
  <2>2. CASE i # Len(q) + 1
    <3>1. /\ i \in 1..Len(q) /\ p[i] = q[i]
          /\ q[i].crn \in Crn /\ h < q[i].crn /\ k[q[i].crn] # "none"
          /\ \A j \in 1..Len(q) : (i < j /\ q[j].type = "OFFERED") => q[i].crn < q[j].crn
      BY <1>1, <1>6, <2>2 DEF OffersNumbered
    <3>2. q[i].crn < n /\ l[q[i].crn] # "none"
      BY <1>2, <1>4, <3>1
    <3>3. \A j \in 1..Len(p) : (i < j /\ p[j].type = "OFFERED") => q[i].crn < p[j].crn
      BY <1>1, <3>1, <3>2
    <3>4. QED
      BY <3>1, <3>2, <3>3
  <2>3. QED
    BY <2>1, <2>2
<1>7. \A m \in Crn : (h < m /\ l[m] # "none") => Holds(p, "OFFERED", m)
  <2>1. \A m : Holds(p, "OFFERED", m) <=> Holds(q, "OFFERED", m) \/ m = n
    BY HoldsAppend
  <2>2. QED
    BY <1>2, <2>1 DEF OffersNumbered
<1>8. \A m \in Crn : m <= h => l[m] # "none"
  BY <1>2 DEF OffersNumbered
<1> HIDE DEF l, p
<1>9. OffersNumbered(l, p, h, TRUE)
  BY <1>5, <1>6, <1>7, <1>8 DEF OffersNumbered
<1>10. QED
  BY <1>9 DEF l, p

\* An offer that is taken is of the call that follows the h-th.
LEMMA NumberedTake ==
    ASSUME NEW k \in [Crn -> CallState], NEW q \in Seq(Event), NEW h \in Nat, NEW open \in BOOLEAN,
           OffersNumbered(k, q, h, open), q # <<>>
    PROVE  /\ Head(q).type # "OFFERED" => OffersNumbered(k, Tail(q), h, open)
           /\ Head(q).type = "OFFERED" => /\ Head(q).crn = h + 1
                                          /\ OffersNumbered(k, Tail(q), h + 1, open)
<1> DEFINE n == Head(q).crn
<1>1. /\ Len(q) \in Nat /\ Len(q) > 0 /\ Len(Tail(q)) = Len(q) - 1 /\ Head(q) = q[1]
      /\ \A i \in 1..Len(Tail(q)) : Tail(q)[i] = q[i + 1] /\ i + 1 \in 1..Len(q) /\ 1 < i + 1
      /\ \A i, j \in 1..Len(Tail(q)) : i < j => i + 1 < j + 1
      /\ 1 \in 1..Len(q)
  OBVIOUS
<1>2. \A m : Holds(q, "OFFERED", m) <=>
          Holds(Tail(q), "OFFERED", m) \/ (Head(q).type = "OFFERED" /\ n = m)
  BY HoldsTail
<1>3. \A m \in Crn : m \in Nat
  BY DEF Crn
<1>4. ASSUME Head(q).type # "OFFERED" PROVE OffersNumbered(k, Tail(q), h, open)
  BY <1>1, <1>2, <1>4 DEF OffersNumbered
<1>5. ASSUME Head(q).type = "OFFERED"
      PROVE  n = h + 1 /\ OffersNumbered(k, Tail(q), h + 1, open)
  <2>1. /\ open /\ n \in Crn /\ h < n /\ k[n] # "none"
        /\ \A j \in 1..Len(q) : (1 < j /\ q[j].type = "OFFERED") => n < q[j].crn
    BY <1>1, <1>5 DEF OffersNumbered
  <2>2. \A m \in Crn : Holds(Tail(q), "OFFERED", m) => n < m
    BY <1>1, <2>1 DEF Holds
  <2>3. h + 1 \in Crn /\ h + 1 <= n
    <3>1. n \in Crn /\ h < n
      BY <2>1
    <3> HIDE DEF n
    <3>2. QED
      BY <3>1, DeviceAssumption DEF Crn
  <2>4. Holds(q, "OFFERED", h + 1)
    BY <2>1, <2>3 DEF OffersNumbered
  <2>5. n = h + 1
    BY <1>2, <1>3, <2>1, <2>2, <2>3, <2>4
  <2>6. \A m \in Crn : m <= h + 1 => k[m] # "none"
    BY <1>3, <2>1, <2>5 DEF OffersNumbered
  <2>7. \A i \in 1..Len(Tail(q)) : Tail(q)[i].type = "OFFERED" =>
            /\ Tail(q)[i].crn \in Crn /\ h + 1 < Tail(q)[i].crn /\ k[Tail(q)[i].crn] # "none"
            /\ \A j \in 1..Len(Tail(q)) :
                   (i < j /\ Tail(q)[j].type = "OFFERED") => Tail(q)[i].crn < Tail(q)[j].crn
    BY <1>1, <2>1, <2>5 DEF OffersNumbered
  <2>8. \A m \in Crn : (h + 1 < m /\ k[m] # "none") => Holds(Tail(q), "OFFERED", m)
    <3>1. \A m \in Crn : h + 1 < m => h < m /\ m # n
      BY <1>3, <2>5
    <3>2. QED
      BY <1>2, <2>1, <3>1 DEF OffersNumbered
  <2>9. QED
    BY <2>1, <2>5, <2>6, <2>7, <2>8 DEF OffersNumbered
<1>6. QED
  BY <1>4, <1>5

\* A new session is one more of its channel, and none of another.
LEMMA SessionAdded ==
    ASSUME TypeOK, NEW c \in Channels, createSession(c), NEW d \in Channels,
           IsFiniteSet(Sessions(d))
    PROVE  /\ IsFiniteSet(Sessions(d)') /\ Cardinality(Sessions(d)) \in Nat
           /\ d = c => Cardinality(Sessions(d)') = Cardinality(Sessions(d)) + 1
           /\ d # c => Sessions(d)' = Sessions(d)
<1>1. /\ lastSession \in Nat /\ session2channel \in [0..(lastSession - 1) -> Channels]
      /\ DOMAIN session2channel = 0..(lastSession - 1)
      /\ lastSession \notin 0..(lastSession - 1)
      /\ 0..lastSession = 0..(lastSession - 1) \cup {lastSession}
  BY DEF TypeOK, SessionTypeOK
<1>2. /\ DOMAIN session2channel' = 0..lastSession
      /\ session2channel'[lastSession] = c
      /\ \A s \in 0..(lastSession - 1) : session2channel'[s] = session2channel[s]
  BY <1>1 DEF createSession
<1>3. lastSession \notin Sessions(d)
  BY <1>1 DEF Sessions
<1>4. d # c => Sessions(d)' = Sessions(d)
  BY <1>1, <1>2 DEF Sessions
<1>5. d = c => Sessions(d)' = Sessions(d) \cup {lastSession}
  BY <1>1, <1>2 DEF Sessions
<1>6. Cardinality(Sessions(d)) \in Nat
  BY FS_CardinalityType
<1>7. /\ IsFiniteSet(Sessions(d) \cup {lastSession})
      /\ Cardinality(Sessions(d) \cup {lastSession}) = Cardinality(Sessions(d)) + 1
  BY <1>3, FS_AddElement
<1>8. QED
  BY <1>4, <1>5, <1>6, <1>7

\* What NumberInv says of one channel, after a step.
NumberKept(d) ==
    /\ IsFiniteSet(Sessions(d)')
    /\ OffersNumbered(call'[d], evq'[d], Cardinality(Sessions(d)'), line'[d] # "closed")
    /\ Calls'[d][0].crn \in {NoCrn, Cardinality(Sessions(d)')}

\* No call of d is offered or registered: its calls move on, an event of another kind
\* may be taken, a slot may be emptied.
Moved(d) ==
    /\ UNCHANGED sessionVars
    /\ line'[d] = line[d]
    /\ \E m : call'[d] \in Requests(call[d], m)
    /\ \A i \in Slot : Calls'[d][i].crn \in {Calls[d][i].crn, NoCrn}
    /\ \/ evq'[d] = evq[d]
       \/ /\ evq[d] # <<>> /\ evq'[d] = Tail(evq[d])
          /\ Head(evq[d]).type # "OFFERED"

\* A channel where no call is offered or registered.
LEMMA NumberMoved ==
    ASSUME TypeOK, NumberInv, NEW d \in Channels, Moved(d)
    PROVE  NumberKept(d)
<1> DEFINE k == call[d]
           q == evq[d]
           h == Cardinality(Sessions(d))
           open == line[d] # "closed"
<1>1. k \in [Crn -> CallState] /\ q \in Seq(Event) /\ open \in BOOLEAN
  BY DEF TypeOK, DeviceTypeOK
<1>2. /\ IsFiniteSet(Sessions(d)) /\ OffersNumbered(k, q, h, open)
      /\ Calls[d][0].crn \in {NoCrn, h}
  BY DEF NumberInv
<1>3. h \in Nat
  BY <1>2, FS_CardinalityType
<1>4. Sessions(d)' = Sessions(d)
  BY DEF Sessions, sessionVars, Moved
<1>5. /\ call'[d] \in [Crn -> CallState]
      /\ \A n \in Crn : (call'[d][n] = "none") <=> (k[n] = "none")
  <2>1. PICK m : call'[d] \in Requests(k, m)
    BY DEF Moved
  <2>2. QED
    BY <1>1, <2>1, NoneRequested
<1>6. evq'[d] \in Seq(Event) /\ OffersNumbered(k, evq'[d], h, open)
  <2>1. CASE evq'[d] = q
    BY <1>1, <1>2, <2>1
  <2>2. CASE q # <<>> /\ evq'[d] = Tail(q) /\ Head(q).type # "OFFERED"
    <3>1. Tail(q) \in Seq(Event)
      BY <1>1, <2>2
    <3>2. OffersNumbered(k, Tail(q), h, open)
      BY <1>1, <1>2, <1>3, <2>2, NumberedTake
    <3>3. QED
      BY <2>2, <3>1, <3>2
  <2>3. QED
    BY <2>1, <2>2 DEF Moved
<1> HIDE DEF h, open
<1>7. OffersNumbered(call'[d], evq'[d], h, line'[d] # "closed")
  <2>1. (line'[d] # "closed") = open
    BY DEF Moved, open
  <2>2. OffersNumbered(call'[d], evq'[d], h, open)
    BY <1>1, <1>3, <1>5, <1>6, NumberedMove
  <2>3. QED
    BY <2>1, <2>2
<1>8. Calls'[d][0].crn \in {NoCrn, h}
  <2>1. 0 \in Slot
    BY DEF Slot, MAX_CALLS
  <2>2. Calls'[d][0].crn \in {Calls[d][0].crn, NoCrn}
    BY <2>1 DEF Moved
  <2>3. QED
    BY <1>2, <2>2
<1>9. QED
  BY <1>2, <1>4, <1>7, <1>8 DEF NumberKept, h

\* What the library and the network do.
LEMMA NumberEnvironment ==
    ASSUME TypeOK, NumberInv, NEW c \in Channels, Library(c) \/ Network(c), Outside,
           NEW d \in Channels
    PROVE  NumberKept(d)
<1> DEFINE k == call[d]
           q == evq[d]
           h == Cardinality(Sessions(d))
           open == line[d] # "closed"
<1>1. /\ k \in [Crn -> CallState] /\ q \in Seq(Event) /\ open \in BOOLEAN
      /\ line[d] \in LineState
      /\ evq \in [Channels -> Seq(Event)] /\ call \in [Channels -> [Crn -> CallState]]
      /\ line \in [Channels -> LineState]
  BY DEF TypeOK, DeviceTypeOK
<1>2. /\ IsFiniteSet(Sessions(d)) /\ OffersNumbered(k, q, h, open)
      /\ Calls[d][0].crn \in {NoCrn, h}
  BY DEF NumberInv
<1>3. h \in Nat
  BY <1>2, FS_CardinalityType
<1>4. Sessions(d)' = Sessions(d) /\ Calls' = Calls /\ UNCHANGED sessionVars
  BY DEF Sessions, sessionVars, Outside, serverVars, channelVars
<1>5. CASE d # c
  <2>1. call'[d] = call[d] /\ evq'[d] = evq[d] /\ line'[d] = line[d]
    BY <1>1, <1>5 DEF Library, Network, OpenDone, OpenFails, Unblock, Block, PlayDone, ResetDone,
                Complete, Offer, HangUp, TaskFails, Raise
  <2>2. QED
    BY <1>4, <2>1, NumberMoved, RequestsNothing DEF Moved
<1>6. ASSUME NEW l \in [Crn -> CallState], NEW e, d = c, e.type # "OFFERED",
             call'[d] = l, evq'[d] = Append(q, e), (line'[d] # "closed") = open,
             \A n \in Crn : (l[n] = "none") <=> (k[n] = "none")
      PROVE  NumberKept(d)
  <2> HIDE DEF h, open
  <2>1. OffersNumbered(l, q, h, open)
    BY <1>1, <1>2, <1>3, <1>6, NumberedMove
  <2>2. OffersNumbered(l, Append(q, e), h, open)
    BY <1>1, <1>3, <1>6, <2>1, NumberedRaise
  <2>3. OffersNumbered(call'[d], evq'[d], h, line'[d] # "closed")
    BY <1>6, <2>2
  <2>4. QED
    BY <1>2, <1>4, <2>3 DEF NumberKept, h
<1>7. ASSUME d = c,
             OpenDone(c) \/ OpenFails(c) \/ Unblock(c) \/ Block(c) \/ PlayDone(c) \/ ResetDone(c)
      PROVE  NumberKept(d)
  <2>1. PICK type \in LineEvent : Raise(c, type, NoCrn) /\ UNCHANGED call
    BY <1>7 DEF OpenDone, OpenFails, Unblock, Block, PlayDone, ResetDone, LineEvent
  <2> DEFINE e == [type |-> type, crn |-> NoCrn]
  <2>2. evq'[d] = Append(q, e) /\ call'[d] = k /\ e.type # "OFFERED"
    BY <1>1, <1>7, <2>1 DEF Raise, LineEvent
  <2>3. (line'[d] # "closed") = open
    BY <1>1, <1>7 DEF OpenDone, OpenFails, Unblock, Block, PlayDone, ResetDone
  <2> HIDE DEF e
  <2>4. QED
    BY <1>1, <1>6, <1>7, <2>2, <2>3
<1>8. ASSUME d = c, NEW n \in Crn, Complete(c, n) \/ HangUp(c, n) \/ TaskFails(c, n)
      PROVE  NumberKept(d)
  <2>1. PICK type \in LineEvent \cup CallEvent, new \in CallState :
            /\ Raise(c, type, n) /\ call' = [call EXCEPT ![c][n] = new] /\ line' = line
            /\ type # "OFFERED" /\ new # "none" /\ k[n] # "none"
    <3>1. CASE Complete(c, n)
      <4>1. k[n] \in Pending
        BY <1>8, <3>1 DEF Complete
      <4>2. /\ Completion[k[n]].event \in CallEvent \ {"OFFERED"}
            /\ Completion[k[n]].state \in CallState \ {"none"} /\ k[n] # "none"
        BY <4>1 DEF Completion, Pending, CallEvent, CallState, Live, Droppable, Talking
      <4>3. /\ Raise(c, Completion[k[n]].event, n) /\ line' = line
            /\ call' = [call EXCEPT ![c][n] = Completion[k[n]].state]
        BY <1>8, <3>1 DEF Complete
      <4>4. QED
        BY <4>2, <4>3
    <3>2. CASE HangUp(c, n)
      BY <1>8, <3>2 DEF HangUp, Talking, CallEvent, CallState, Live, Droppable
    <3>3. CASE TaskFails(c, n)
      BY <1>8, <3>3 DEF TaskFails, Pending, LineEvent, CallState, Live, Droppable
    <3>4. QED
      BY <1>8, <3>1, <3>2, <3>3
  <2> DEFINE e == [type |-> type, crn |-> n]
             l == [k EXCEPT ![n] = new]
  <2>2. evq'[d] = Append(q, e) /\ call'[d] = l /\ line'[d] = line[d] /\ e.type # "OFFERED"
    BY <1>1, <1>8, <2>1 DEF Raise
  <2>3. l \in [Crn -> CallState] /\ \A m \in Crn : (l[m] = "none") <=> (k[m] = "none")
    BY <1>1, <2>1
  <2> HIDE DEF e, l
  <2>4. QED
    BY <1>1, <1>6, <1>8, <2>2, <2>3
<1>9. ASSUME d = c, NEW n \in Crn, Offer(c, n) PROVE NumberKept(d)
  <2>1. /\ k[n] = "none" /\ \A m \in Crn : m < n => k[m] # "none"
        /\ line[d] = "ready" /\ line'[d] = "ready"
    BY <1>9 DEF Offer
  <2>2. /\ call'[d] = [k EXCEPT ![n] = "offered"]
        /\ evq'[d] = Append(q, [type |-> "OFFERED", crn |-> n])
    BY <1>1, <1>9 DEF Offer, Raise
  <2>3. OffersNumbered(k, q, h, TRUE)
    BY <1>2, <2>1
  <2> HIDE DEF h
  <2>4. OffersNumbered(call'[d], evq'[d], h, TRUE)
    <3>1. OffersNumbered([k EXCEPT ![n] = "offered"],
                         Append(q, [type |-> "OFFERED", crn |-> n]), h, TRUE)
      BY <1>1, <1>3, <2>1, <2>3, NumberedOffer
    <3>2. QED
      BY <2>2, <3>1
  <2>5. line'[d] # "closed"
    BY <2>1
  <2>6. QED
    BY <1>2, <1>4, <2>4, <2>5 DEF NumberKept, h
<1>10. QED
  BY <1>5, <1>7, <1>8, <1>9 DEF Library, Network

\* The handlers both programs share.
LEMMA HandlerMoves ==
    ASSUME TypeOK, NEW c \in Channels, OnChannelEvent(c), NEW d \in Channels
    PROVE  Moved(d)
<1>1. /\ evq \in [Channels -> Seq(Event)] /\ call \in [Channels -> [Crn -> CallState]]
      /\ Calls \in [Channels -> [Slot -> CallInfo]]
  BY DEF TypeOK, DeviceTypeOK, ChannelTypeOK
<1>2. UNCHANGED sessionVars /\ line' = line
  BY DEF OnChannelEvent, OnLine, OnCall, OnFailure, OnLogged, OnUnblocked, OnUnblockedNoVoice,
         OnAccept, OnDisconnected, OnDropCall, OnReleaseCall, OnResetLineDev, OnTaskFail
<1>3. PICK type : TakeEvent(c, type) /\ type # "OFFERED"
  BY DEF OnChannelEvent, OnLine, OnCall, OnFailure, OnLogged, OnUnblocked, OnUnblockedNoVoice,
         OnAccept, OnDisconnected, OnDropCall, OnReleaseCall, OnResetLineDev, OnTaskFail
<1>4. evq[c] # <<>> /\ Head(evq[c]).type = type /\ evq' = [evq EXCEPT ![c] = Tail(@)]
  BY <1>3 DEF TakeEvent
<1>5. \/ evq'[d] = evq[d]
      \/ evq[d] # <<>> /\ evq'[d] = Tail(evq[d]) /\ Head(evq[d]).type # "OFFERED"
  BY <1>1, <1>3, <1>4
<1>6. PICK l : /\ call' = call \/ call' = [call EXCEPT ![c] = l]
               /\ l \in Requests(call[c], Head(evq[c]).crn)
  BY <1>1 DEF OnChannelEvent, OnLine, OnCall, OnFailure, OnLogged, OnUnblocked,
              OnUnblockedNoVoice, OnAccept, OnDisconnected, OnDropCall, OnReleaseCall,
              OnResetLineDev, OnTaskFail, Requests
<1>7. call'[d] \in Requests(call[d], Head(evq[d]).crn)
  BY <1>1, <1>6 DEF Requests
<1>8. PICK s : /\ Calls' = Calls \/ Calls' = [Calls EXCEPT ![c] = s]
               /\ \A i \in Slot : s[i].crn \in {Calls[c][i].crn, NoCrn}
  <2>1. /\ \A n, state : \A i \in Slot :
              WithSState(Calls[c], n, state)[i].crn = Calls[c][i].crn
        /\ \A n : \A i \in Slot : Emptied(Calls[c], n)[i].crn \in {Calls[c][i].crn, NoCrn}
        /\ \A i \in Slot : [j \in Slot |-> NoCall][i].crn = NoCrn
    BY <1>1 DEF WithSState, Emptied, NoCall, CallInfo
  <2>2. \/ Calls' = Calls
        \/ \E n, state : Calls' = [Calls EXCEPT ![c] = WithSState(Calls[c], n, state)]
        \/ \E n : Calls' = [Calls EXCEPT ![c] = Emptied(Calls[c], n)]
        \/ Calls' = [Calls EXCEPT ![c] = [i \in Slot |-> NoCall]]
    BY <1>1 DEF OnChannelEvent, OnLine, OnCall, OnFailure, OnLogged, OnUnblocked,
                OnUnblockedNoVoice, OnAccept, OnDisconnected, OnDropCall, OnReleaseCall,
                OnResetLineDev, OnTaskFail, channelVars
  <2>3. QED
    BY <2>1, <2>2
<1>9. \A i \in Slot : Calls'[d][i].crn \in {Calls[d][i].crn, NoCrn}
  BY <1>1, <1>8
<1>10. QED
  BY <1>2, <1>5, <1>7, <1>9 DEF Moved

\* All the other steps of the program, but a new call and the exit check.
LEMMA ProgramMoves ==
    ASSUME TypeOK, NEW d \in Channels,
           \/ UNCHANGED vars \/ NoEvent \/ NothingReceived \/ NotInterrupted
           \/ ScpProcess \/ ScpSilent \/ Signal
           \/ Answer \/ PlayFragment \/ PlayFragmentFails \/ DropCall \/ UnknownCommand
           \/ \E c \in Channels : OnPlay(c) \/ OnAnswered(c)
    PROVE  Moved(d)
<1>1. /\ evq \in [Channels -> Seq(Event)] /\ call \in [Channels -> [Crn -> CallState]]
      /\ Calls \in [Channels -> [Slot -> CallInfo]]
  BY DEF TypeOK, DeviceTypeOK, ChannelTypeOK
<1>2. CASE \/ UNCHANGED vars \/ NoEvent \/ NothingReceived \/ NotInterrupted
           \/ ScpProcess \/ ScpSilent
  <2>1. UNCHANGED <<line, call, evq, Calls, sessionVars>>
    BY <1>2 DEF vars, serverVars, deviceVars, channelVars, NoEvent, NothingReceived,
                NotInterrupted, ScpProcess, ScpSilent
  <2>2. QED
    BY <2>1, RequestsNothing DEF Moved
<1>3. ASSUME NEW c \in Channels, OnPlay(c) \/ OnAnswered(c) PROVE Moved(d)
  <2>1. PICK type : TakeEvent(c, type) /\ type # "OFFERED"
    BY <1>3 DEF OnPlay, OnAnswered
  <2>2. \/ evq'[d] = evq[d]
        \/ evq[d] # <<>> /\ evq'[d] = Tail(evq[d]) /\ Head(evq[d]).type # "OFFERED"
    BY <1>1, <2>1 DEF TakeEvent
  <2>3. /\ UNCHANGED <<line, sessionVars>>
        /\ call' = call \/ call' = [call EXCEPT ![c] = gc_DropCall(@, Head(evq[c]).crn)]
        /\ \/ Calls' = Calls
           \/ Calls' = [Calls EXCEPT ![c] = WithSState(@, Head(evq[c]).crn, "CONNECTED")]
    BY <1>3 DEF OnPlay, OnAnswered, channelVars
  <2>4. call'[d] \in Requests(call[d], Head(evq[d]).crn)
    BY <1>1, <2>3 DEF Requests
  <2>5. \A i \in Slot : Calls'[d][i].crn = Calls[d][i].crn
    <3>1. \A n : \A i \in Slot : WithSState(Calls[c], n, "CONNECTED")[i].crn = Calls[c][i].crn
      BY <1>1 DEF WithSState, CallInfo
    <3>2. PICK s : /\ Calls' = Calls \/ Calls' = [Calls EXCEPT ![c] = s]
                   /\ \A i \in Slot : s[i].crn = Calls[c][i].crn
      BY <2>3, <3>1
    <3>3. QED
      BY <1>1, <3>2
  <2>6. QED
    BY <2>2, <2>3, <2>4, <2>5 DEF Moved
<1>4. CASE Answer \/ PlayFragment \/ PlayFragmentFails \/ DropCall \/ UnknownCommand
  <2>1. UNCHANGED <<line, evq, Calls, sessionVars>>
    BY <1>4 DEF Answer, PlayFragment, PlayFragmentFails, DropCall, UnknownCommand, Received,
                deviceVars
  <2>2. PICK n : call'[d] \in Requests(call[d], n)
    BY <1>1, <1>4 DEF Answer, PlayFragment, PlayFragmentFails, DropCall, InitDisconnect,
                      UnknownCommand, deviceVars, Requests
  <2>3. QED
    BY <2>1, <2>2 DEF Moved
<1>5. CASE Signal
  <2>1. /\ UNCHANGED <<line, evq, Calls, sessionVars>>
        /\ call'[d] \in Requests(call[d], Calls[d][0].crn)
    BY <1>5 DEF Signal, intr_hdlr, Requests
  <2>2. QED
    BY <2>1 DEF Moved
<1>6. QED
  BY <1>2, <1>3, <1>4, <1>5

\* A call that is registered is the next of its channel, and gets its next session.
LEMMA NumberOffered ==
    ASSUME TypeOK, NumberInv, NEW c \in Channels, OnOffered(c), NEW d \in Channels
    PROVE  NumberKept(d)
<1> DEFINE k == call[d]
           q == evq[d]
           h == Cardinality(Sessions(d))
           open == line[d] # "closed"
<1>1. /\ k \in [Crn -> CallState] /\ q \in Seq(Event) /\ open \in BOOLEAN
      /\ evq \in [Channels -> Seq(Event)] /\ Calls \in [Channels -> [Slot -> CallInfo]]
      /\ 0 \in Slot
  BY DEF TypeOK, DeviceTypeOK, ChannelTypeOK, Slot, MAX_CALLS
<1>2. /\ IsFiniteSet(Sessions(d)) /\ OffersNumbered(k, q, h, open)
      /\ Calls[d][0].crn \in {NoCrn, h}
  BY DEF NumberInv
<1>3. /\ evq[c] # <<>> /\ Head(evq[c]).type = "OFFERED" /\ evq' = [evq EXCEPT ![c] = Tail(@)]
      /\ Calls' = [Calls EXCEPT ![c] = RegNewCall(@, Head(evq[c]).crn, "OFFERED")]
      /\ call' = call /\ line' = line /\ createSession(c)
  BY DEF OnOffered, NewCall, TakeEvent
<1>4. /\ IsFiniteSet(Sessions(d)') /\ h \in Nat
      /\ d = c => Cardinality(Sessions(d)') = h + 1
      /\ d # c => Sessions(d)' = Sessions(d)
  BY <1>2, <1>3, SessionAdded
<1>5. CASE d # c
  BY <1>1, <1>2, <1>3, <1>4, <1>5 DEF NumberKept
<1>6. CASE d = c
  <2> HIDE DEF h, open
  <2>1. Head(q).crn = h + 1 /\ OffersNumbered(k, Tail(q), h + 1, open)
    <3>1. q # <<>> /\ Head(q).type = "OFFERED"
      BY <1>3, <1>6
    <3> HIDE DEF k, q
    <3>2. QED
      BY <1>1, <1>2, <1>4, <3>1, NumberedTake
  <2>2. Calls'[d][0].crn = h + 1
    BY <1>1, <1>3, <1>6, <2>1 DEF RegNewCall
  <2>3. evq'[d] = Tail(q) /\ call'[d] = k /\ (line'[d] # "closed") = open
    BY <1>1, <1>3, <1>6 DEF open
  <2>4. OffersNumbered(call'[d], evq'[d], h + 1, line'[d] # "closed")
    BY <2>1, <2>3
  <2>5. QED
    BY <1>4, <1>6, <2>2, <2>4 DEF NumberKept
<1>7. QED
  BY <1>5, <1>6

\* Every step keeps the numbers.
LEMMA NumberNext ==
    ASSUME TypeOK, NumberInv, [Next]_vars
    PROVE  NumberInv'
<1> SUFFICES ASSUME NEW d \in Channels PROVE NumberKept(d)
  BY DEF NumberInv, NumberKept
<1>1. /\ evq \in [Channels -> Seq(Event)] /\ call \in [Channels -> [Crn -> CallState]]
      /\ Calls \in [Channels -> [Slot -> CallInfo]] /\ 0 \in Slot
  BY DEF TypeOK, DeviceTypeOK, ChannelTypeOK, Slot, MAX_CALLS
<1>2. CASE \/ UNCHANGED vars \/ NoEvent \/ NothingReceived \/ NotInterrupted
           \/ ScpProcess \/ ScpSilent \/ Signal
           \/ Answer \/ PlayFragment \/ PlayFragmentFails \/ DropCall \/ UnknownCommand
  BY <1>2, ProgramMoves, NumberMoved
<1>3. ASSUME NEW c \in Channels, ProcessEvent(c) PROVE NumberKept(d)
  BY <1>3, HandlerMoves, ProgramMoves, NumberMoved, NumberOffered DEF ProcessEvent
<1>4. ASSUME NEW c \in Channels, Library(c) \/ Network(c), Outside PROVE NumberKept(d)
  BY <1>4, NumberEnvironment
<1>5. CASE checkAppExitCondition
  <2>1. UNCHANGED <<Calls, sessionVars>>
    BY <1>5 DEF checkAppExitCondition, CloseIdleLines
  <2>2. CASE ~Closable(d)
    <3>1. line'[d] = line[d] /\ call'[d] = call[d] /\ evq'[d] = evq[d]
      BY <1>5, <2>2 DEF checkAppExitCondition, CloseIdleLines
    <3>2. QED
      BY <2>1, <3>1, NumberMoved, RequestsNothing DEF Moved
  <2>3. CASE Closable(d)
    <3>1. line'[d] = "closed" /\ call'[d] = Cleared(call[d]) /\ evq'[d] = <<>>
      BY <1>5, <2>3 DEF checkAppExitCondition, CloseIdleLines
    <3>2. /\ IsFiniteSet(Sessions(d)) /\ Sessions(d)' = Sessions(d)
          /\ OffersNumbered(call[d], evq[d], Cardinality(Sessions(d)), line[d] # "closed")
          /\ Calls'[d][0].crn \in {NoCrn, Cardinality(Sessions(d))}
      BY <2>1 DEF NumberInv, Sessions, sessionVars
    <3>3. \A n \in Crn : (Cleared(call[d])[n] = "none") <=> (call[d][n] = "none")
      BY <1>1, NoneRequested DEF Requests
    <3>4. OffersNumbered(Cleared(call[d]), <<>>, Cardinality(Sessions(d)), FALSE)
      BY <3>2, <3>3 DEF OffersNumbered
    <3>5. OffersNumbered(call'[d], evq'[d], Cardinality(Sessions(d)), line'[d] # "closed")
      BY <3>1, <3>4
    <3>6. QED
      BY <3>2, <3>5 DEF NumberKept
  <2>4. QED
    BY <2>2, <2>3
<1>6. QED
  BY <1>2, <1>3, <1>4, <1>5 DEF Next, MainLoop

\* No channel has a session, no call was offered.
LEMMA NumberInit == Init => NumberInv
<1> SUFFICES ASSUME Init, NEW c \in Channels
             PROVE  /\ IsFiniteSet(Sessions(c))
                    /\ OffersNumbered(call[c], evq[c], Cardinality(Sessions(c)), line[c] # "closed")
                    /\ Calls[c][0].crn \in {NoCrn, Cardinality(Sessions(c))}
  BY DEF NumberInv
<1>1. Sessions(c) = {}
  BY DEF Init, Sessions
<1>2. IsFiniteSet(Sessions(c)) /\ Cardinality(Sessions(c)) = 0
  BY <1>1, FS_EmptySet
<1>3. /\ call[c] = [n \in Crn |-> "none"] /\ evq[c] = <<>>
      /\ Calls[c] = [i \in Slot |-> NoCall] /\ 0 \in Slot
  BY DEF Init, DeviceInit, ChannelInit, Slot, MAX_CALLS
<1>4. OffersNumbered(call[c], evq[c], 0, line[c] # "closed")
  <2>1. Len(<<>>) = 0 /\ \A n \in Crn : ~(n <= 0)
    BY DEF Crn
  <2>2. QED
    BY <1>3, <2>1 DEF OffersNumbered
<1>5. QED
  BY <1>2, <1>3, <1>4 DEF NoCall

\* The commands of the SCP, which act on slot 0, reach the call they are meant for: it
\* is the call of the channel's newest session or the slot is empty, never an older call.
THEOREM NewestFirst == Spec => []NewestCallIsFirst
<1>1. NumberInv => NewestCallIsFirst
  BY DEF NumberInv, NewestCallIsFirst
<1>2. TypeOK /\ NumberInv /\ [Next]_vars => NumberInv'
  BY NumberNext
<1>3. QED
  BY <1>1, <1>2, NumberInit, TypeCorrect, PTL DEF Spec

-----------------------------------------------------------------------------
(* A call plays once. *)

\* A reply to ANSWERED may still make channel c play.
Promised(c) ==
    /\ exchange.stage # "idle" /\ session2channel[exchange.session] = c
    /\ \/ exchange.stage = "asked" /\ exchange.body = "ANSWERED"
       \/ exchange.stage = "told" /\ exchange.body = "PLAY"

\* The playbacks of c, past and promised.
Playbacks(c) == files[c] + (IF Promised(c) THEN 1 ELSE 0)

\* LeakIsOnePerCall made inductive: each playback is of an answered call of its own.
LeakInv ==
    \A c \in Channels :
        LET h == Cardinality(Sessions(c))
        IN  /\ \A i \in Slot : Calls[c][i].crn <= h
            /\ AnswersOnce(call[c], evq[c])
            /\ Playbacks(c) <= Cardinality(Answered(call[c], evq[c], h))

\* The SCP lets a call play when it is answered, and at no other time.
PlaysWhenAnswered == \A e \in SspEvent : "PLAY" \in Script[e] => e = "ANSWERED"

\* tests/scp.py does.
LEMMA TestScriptPlaysWhenAnswered == Script = TestScript => PlaysWhenAnswered
BY DEF PlaysWhenAnswered, TestScript, SspEvent

\* When ANSWERED is taken its call is one more that has been answered.
LEMMA OnceTaken ==
    ASSUME NEW k \in [Crn -> CallState], NEW q \in Seq(Event), AnswersOnce(k, q),
           q # <<>>, Head(q).type = "ANSWERED", NEW h \in Nat, Head(q).crn <= h,
           NEW l \in [Crn -> CallState], \A n \in Crn : k[n] \notin Early => l[n] \notin Early
    PROVE  Cardinality(Answered(k, q, h)) + 1 <= Cardinality(Answered(l, Tail(q), h))
<1> DEFINE n == Head(q).crn
           A == Answered(k, q, h)
           B == Answered(l, Tail(q), h)
<1>1. /\ Len(q) \in Nat /\ Len(q) > 0 /\ Head(q) = q[1] /\ 1 \in 1..Len(q)
      /\ \A i \in 1..Len(Tail(q)) : Tail(q)[i] = q[i + 1] /\ i + 1 \in 1..Len(q) /\ i + 1 # 1
  OBVIOUS
<1>2. n \in Crn /\ k[n] \notin Early
  BY <1>1 DEF AnswersOnce
<1>3. ~Holds(Tail(q), "ANSWERED", n)
  BY <1>1 DEF AnswersOnce, Holds
<1>4. Holds(q, "ANSWERED", n)
  BY <1>1 DEF Holds
<1>5. n \in B /\ n \notin A
  BY <1>2, <1>3, <1>4 DEF Answered
<1>6. Shifts(q, Tail(q))
  BY DEF Shifts
<1>7. A \subseteq B
  BY <1>6, OnceShifted
<1>8. IsFiniteSet(B)
  <2>1. IsFiniteSet(Crn)
    BY FS_Interval, DeviceAssumption DEF Crn
  <2>2. B \in SUBSET Crn
    BY DEF Answered
  <2>3. QED
    BY <2>1, <2>2, FS_Subset
<1> HIDE DEF n, A, B
<1>9. IsFiniteSet(A) /\ n \notin A /\ (A \cup {n}) \in SUBSET B
  BY <1>5, <1>7, <1>8, FS_Subset
<1>10. Cardinality(A \cup {n}) = Cardinality(A) + 1 /\ Cardinality(A \cup {n}) <= Cardinality(B)
  BY <1>8, <1>9, FS_AddElement, FS_Subset
<1>11. QED
  BY <1>10 DEF A, B

\* What LeakInv says of one channel, after a step.
LeakKept(d) ==
    /\ \A i \in Slot : Calls'[d][i].crn <= Cardinality(Sessions(d)')
    /\ AnswersOnce(call'[d], evq'[d])
    /\ Playbacks(d)' <= Cardinality(Answered(call'[d], evq'[d], Cardinality(Sessions(d)')))

\* What LeakInv says of channel d before it, with the numbers that occur.
LEMMA LeakKnown ==
    ASSUME TypeOK, NumberInv, LeakInv, NEW d \in Channels
    PROVE  /\ call[d] \in [Crn -> CallState] /\ evq[d] \in Seq(Event)
           /\ IsFiniteSet(Sessions(d)) /\ Cardinality(Sessions(d)) \in Nat
           /\ \A i \in Slot : Calls[d][i].crn \in Nat /\ Calls[d][i].crn <= Cardinality(Sessions(d))
           /\ AnswersOnce(call[d], evq[d])
           /\ Playbacks(d) \in Nat
           /\ Playbacks(d) <= Cardinality(Answered(call[d], evq[d], Cardinality(Sessions(d))))
<1>1. /\ call[d] \in [Crn -> CallState] /\ evq[d] \in Seq(Event)
      /\ \A i \in Slot : Calls[d][i].crn \in Crn \cup {NoCrn}
      /\ files[d] \in Nat
  BY DEF TypeOK, DeviceTypeOK, ChannelTypeOK, CallInfo, ProcessTypeOK
<1>2. \A i \in Slot : Calls[d][i].crn \in Nat
  BY <1>1 DEF Crn, NoCrn
<1>3. IsFiniteSet(Sessions(d))
  BY DEF NumberInv
<1>4. Cardinality(Sessions(d)) \in Nat
  BY <1>3, FS_CardinalityType
<1>5. Playbacks(d) \in Nat
  BY <1>1 DEF Playbacks
<1>6. QED
  BY <1>1, <1>2, <1>3, <1>4, <1>5 DEF LeakInv

\* The calls answered are some of the first h, and finitely many.
LEMMA AnsweredFinite ==
    ASSUME NEW k, NEW q, NEW h \in Nat
    PROVE  /\ IsFiniteSet(Answered(k, q, h)) /\ Cardinality(Answered(k, q, h)) \in Nat
           /\ Cardinality(Answered(k, q, h)) <= h
<1>1. Answered(k, q, h) \in SUBSET (1..h)
  BY DEF Answered, Crn
<1>2. IsFiniteSet(1..h) /\ Cardinality(1..h) = h
  BY FS_Interval
<1>3. QED
  BY <1>1, <1>2, FS_Subset, FS_CardinalityType

\* A step that makes the channel owe no further playback.
LEMMA LeakMoved ==
    ASSUME TypeOK, NumberInv, LeakInv, NEW d \in Channels,
           Cardinality(Sessions(d)') \in Nat,
           Cardinality(Sessions(d)) <= Cardinality(Sessions(d)'),
           \A i \in Slot : Calls'[d][i].crn <= Cardinality(Sessions(d)'),
           \A n \in Crn : call[d][n] \notin Early => call'[d][n] \notin Early,
           Shifts(evq[d], evq'[d]),
           Playbacks(d)' \in Nat, Playbacks(d)' <= Playbacks(d)
    PROVE  LeakKept(d)
<1> DEFINE h == Cardinality(Sessions(d))
           g == Cardinality(Sessions(d)')
           A == Answered(call[d], evq[d], h)
           B == Answered(call'[d], evq'[d], g)
<1>1. /\ evq[d] \in Seq(Event) /\ h \in Nat /\ AnswersOnce(call[d], evq[d])
      /\ Playbacks(d) \in Nat /\ Playbacks(d) <= Cardinality(A)
  BY LeakKnown
<1> HIDE DEF h, g
<1>2. g \in Nat /\ h <= g
  BY DEF h, g
<1>3. /\ AnswersOnce(call'[d], evq'[d])
      /\ \A a, b \in Nat : a <= b =>
             Answered(call[d], evq[d], a) \subseteq Answered(call'[d], evq'[d], b)
  BY <1>1, OnceShifted
<1>4. A \subseteq B
  BY <1>1, <1>2, <1>3
<1>5. IsFiniteSet(B) /\ Cardinality(B) \in Nat /\ Cardinality(A) \in Nat
  BY <1>1, <1>2, AnsweredFinite
<1> HIDE DEF A, B
<1>6. Cardinality(A) <= Cardinality(B)
  BY <1>4, <1>5, FS_Subset
<1>7. Playbacks(d)' <= Cardinality(B)
  BY <1>1, <1>5, <1>6
<1>8. QED
  BY <1>3, <1>7 DEF LeakKept, B, g

\* Only ANSWERED of a registered call of d promises a further playback on d: a reply
\* turns the promise into a playback or withdraws it.
LEMMA PlaybackStep ==
    ASSUME PlaysWhenAnswered, TypeOK, SessionInv, [Next]_vars, NEW d \in Channels
    PROVE  /\ Playbacks(d)' \in Nat
           /\ \/ Playbacks(d)' <= Playbacks(d)
              \/ /\ OnAnswered(d) /\ Registered(Calls[d], Head(evq[d]).crn)
                 /\ Playbacks(d)' <= Playbacks(d) + 1
<1>1. files \in [Channels -> Nat] /\ files[d] \in Nat
  BY DEF TypeOK, ProcessTypeOK
<1>2. ASSUME files' = files, Promised(d)' => Promised(d)
      PROVE  Playbacks(d)' \in Nat /\ Playbacks(d)' <= Playbacks(d)
  BY <1>1, <1>2 DEF Playbacks
<1>3. CASE UNCHANGED <<files, exchange, session2channel>>
  BY <1>2, <1>3 DEF Promised
<1>4. ASSUME NEW c \in Channels, OnOffered(c) PROVE Playbacks(d)' \in Nat /\ Playbacks(d)' <= Playbacks(d)
  <2>1. files' = files
    BY <1>4 DEF OnOffered
  <2>2. \/ exchange' = exchange
        \/ exchange' = [stage |-> "asked", session |-> lastSession, body |-> "OFFERED"]
    BY <1>4 DEF OnOffered, Send
  <2>3. CASE exchange' = exchange
    <3>1. exchange.stage # "idle" =>
              session2channel'[exchange.session] = session2channel[exchange.session]
      <4>1. SUFFICES ASSUME exchange.stage # "idle"
                     PROVE  session2channel'[exchange.session] = session2channel[exchange.session]
        OBVIOUS
      <4>2. exchange.session \in 0..(lastSession - 1) /\ lastSession \in Nat
        BY <4>1 DEF TypeOK, SessionTypeOK
      <4>3. exchange.session \in 0..lastSession /\ exchange.session # lastSession
        BY <4>2
      <4>4. QED
        BY <1>4, <4>3 DEF OnOffered, createSession
    <3>2. Promised(d)' => Promised(d)
      BY <2>3, <3>1 DEF Promised
    <3>3. QED
      BY <1>2, <2>1, <3>2
  <2>4. CASE exchange' = [stage |-> "asked", session |-> lastSession, body |-> "OFFERED"]
    <3>1. ~Promised(d)'
      BY <2>4 DEF Promised
    <3>2. QED
      BY <1>2, <2>1, <3>1
  <2>5. QED
    BY <2>2, <2>3, <2>4
<1>5. ASSUME NEW c \in Channels, OnPlay(c) PROVE Playbacks(d)' \in Nat /\ Playbacks(d)' <= Playbacks(d)
  <2>1. UNCHANGED <<files, session2channel>>
    BY <1>5 DEF OnPlay, sessionVars
  <2>2. \/ exchange' = exchange
        \/ exchange'.body = "PLAY_FINISHED" /\ exchange'.stage = "asked"
    BY <1>5 DEF OnPlay, SendOfChannel, Send
  <2>3. Promised(d)' => Promised(d)
    BY <2>1, <2>2 DEF Promised
  <2>4. QED
    BY <1>2, <2>1, <2>3
<1>6. ASSUME NEW c \in Channels, OnAnswered(c)
      PROVE  /\ Playbacks(d)' \in Nat
             /\ \/ Playbacks(d)' <= Playbacks(d)
                \/ /\ OnAnswered(d) /\ Registered(Calls[d], Head(evq[d]).crn)
                   /\ Playbacks(d)' <= Playbacks(d) + 1
  <2>1. UNCHANGED <<files, session2channel>>
    BY <1>6 DEF OnAnswered, sessionVars
  <2>2. /\ channel2session[c] # UNKNOWN_SESSION
        /\ session2channel[channel2session[c]] = c
    <3>1. TakeEvent(c, "ANSWERED")
      BY <1>6 DEF OnAnswered
    <3>2. QED
      BY <3>1, ReportHasSession
  <2>3. \/ exchange' = exchange
        \/ /\ exchange'.session = channel2session[c]
           /\ Registered(Calls[c], Head(evq[c]).crn)
    BY <1>6, <2>2 DEF OnAnswered, SendOfChannel, Send, getSessionByChannel
  <2>4. CASE exchange' = exchange
    BY <1>3, <2>1, <2>4
  <2>5. CASE exchange'.session = channel2session[c] /\ Registered(Calls[c], Head(evq[c]).crn)
    <3>1. CASE c = d
      BY <1>1, <1>6, <2>1, <2>5, <3>1 DEF Playbacks
    <3>2. CASE c # d
      <4>1. ~Promised(d)'
        BY <2>1, <2>2, <2>5, <3>2 DEF Promised
      <4>2. QED
        BY <1>2, <2>1, <4>1
    <3>3. QED
      BY <3>1, <3>2
  <2>6. QED
    BY <2>3, <2>4, <2>5
<1>7. CASE Answer \/ DropCall \/ UnknownCommand \/ PlayFragmentFails \/ ScpSilent
  <2>1. files' = files /\ exchange'.stage \in {"idle", "lost"}
    <3>1. CASE ScpSilent
      <4>1. exchange \in [stage : {"asked", "lost"}, session : Session, body : SspEvent]
        BY <3>1 DEF ScpSilent, TypeOK, SessionTypeOK, Exchange, NoExchange
      <4>2. QED
        BY <3>1, <4>1 DEF ScpSilent
    <3>2. CASE Answer \/ DropCall \/ UnknownCommand \/ PlayFragmentFails
      BY <3>2 DEF Answer, DropCall, UnknownCommand, PlayFragmentFails, Received, recv, NoExchange
    <3>3. QED
      BY <1>7, <3>1, <3>2
  <2>2. ~Promised(d)'
    BY <2>1 DEF Promised
  <2>3. QED
    BY <1>2, <2>1, <2>2
<1>8. CASE PlayFragment
  <2>1. /\ exchange.stage = "told" /\ exchange.body = "PLAY" /\ exchange' = NoExchange
        /\ files' = [files EXCEPT ![session2channel[exchange.session]] = @ + 1]
    BY <1>8 DEF PlayFragment, Received, recv, OfReply, getChannelBySession
  <2>2. ~Promised(d)'
    BY <2>1 DEF Promised, NoExchange
  <2>3. CASE d = session2channel[exchange.session]
    BY <1>1, <2>1, <2>2, <2>3 DEF Playbacks, Promised
  <2>4. CASE d # session2channel[exchange.session]
    BY <1>1, <2>1, <2>2, <2>4 DEF Playbacks
  <2>5. QED
    BY <2>3, <2>4
<1>9. CASE ScpProcess
  <2>1. PICK cmd \in Script[exchange.body] :
            exchange' = [exchange EXCEPT !.stage = "told", !.body = cmd]
    BY <1>9 DEF ScpProcess
  <2>2. /\ exchange \in [stage : {"asked", "lost"}, session : Session, body : SspEvent]
        /\ exchange.stage = "asked" /\ UNCHANGED <<files, session2channel>>
    BY <1>9 DEF ScpProcess, TypeOK, SessionTypeOK, Exchange, NoExchange, sessionVars
  <2>3. exchange'.stage = "told" /\ exchange'.body = cmd /\ exchange'.session = exchange.session
    BY <2>1, <2>2
  <2>4. cmd = "PLAY" => exchange.body = "ANSWERED"
    BY <2>1, <2>2 DEF PlaysWhenAnswered
  <2>5. Promised(d)' => Promised(d)
    BY <2>2, <2>3, <2>4 DEF Promised
  <2>6. QED
    BY <1>2, <2>2, <2>5
<1>10. CASE \/ UNCHANGED vars \/ NoEvent \/ NothingReceived \/ NotInterrupted
            \/ checkAppExitCondition \/ Signal
            \/ \E c \in Channels : OnChannelEvent(c) \/ Outside
  BY <1>3, <1>10 DEF vars, serverVars, NoEvent, NothingReceived, NotInterrupted,
     checkAppExitCondition, Signal, OnChannelEvent, Outside, sessionVars
<1>11. QED
  BY <1>4, <1>5, <1>6, <1>7, <1>8, <1>9, <1>10 DEF Next, MainLoop, ProcessEvent

\* What the library and the network do: no playback is promised, no answered call is
\* forgotten.
LEMMA LeakEnvironment ==
    ASSUME TypeOK, NumberInv, LeakInv, NEW c \in Channels, Library(c) \/ Network(c), Outside,
           NEW d \in Channels
    PROVE  LeakKept(d)
<1> DEFINE h == Cardinality(Sessions(d))
           A == Answered(call[d], evq[d], h)
           B == Answered(call'[d], evq'[d], h)
<1>1. DeviceTypeOK /\ UNCHANGED <<sessionVars, Calls, files, exchange>>
  BY DEF TypeOK, Outside, serverVars, channelVars
<1>2. Sessions(d)' = Sessions(d) /\ Playbacks(d)' = Playbacks(d)
  BY <1>1 DEF sessionVars, Sessions, Playbacks, Promised
<1>3. /\ call[d] \in [Crn -> CallState] /\ evq[d] \in Seq(Event) /\ h \in Nat
      /\ \A i \in Slot : Calls[d][i].crn <= h
      /\ AnswersOnce(call[d], evq[d])
      /\ Playbacks(d) \in Nat /\ Playbacks(d) <= Cardinality(A)
  BY LeakKnown
<1> HIDE DEF h
<1>4. AnswersOnce(call'[d], evq'[d]) /\ A \subseteq B
  <2>1. CASE c = d
    <3>1. Advances(call[d], evq[d], call'[d], evq'[d])
      BY <1>1, <2>1, EnvironmentAdvances
    <3>2. QED
      BY <1>3, <3>1, OnceAdvanced
  <2>2. CASE c # d
    <3>1. call'[d] = call[d] /\ evq'[d] = evq[d]
      BY <1>1, <2>2, EnvironmentAdvances
    <3>2. QED
      BY <1>3, <3>1
  <2>3. QED
    BY <2>1, <2>2
<1>5. IsFiniteSet(B) /\ Cardinality(B) \in Nat /\ Cardinality(A) \in Nat
  BY <1>3, AnsweredFinite
<1> HIDE DEF A, B
<1>6. Cardinality(A) <= Cardinality(B)
  BY <1>4, <1>5, FS_Subset
<1>7. Playbacks(d)' <= Cardinality(B)
  BY <1>2, <1>3, <1>5, <1>6
<1>8. \A i \in Slot : Calls'[d][i].crn <= h
  BY <1>1, <1>3
<1>9. QED
  BY <1>2, <1>4, <1>7, <1>8 DEF LeakKept, B, h

\* A handler or a command: either nothing more is promised, or the call whose ANSWERED was
\* taken is one more that was answered.
LEMMA LeakProgram ==
    ASSUME PlaysWhenAnswered, TypeOK, SessionInv, NumberInv, LeakInv, [Next]_vars,
           NEW d \in Channels, Moved(d)
    PROVE  LeakKept(d)
<1> DEFINE h == Cardinality(Sessions(d))
<1>1. /\ call[d] \in [Crn -> CallState] /\ evq[d] \in Seq(Event) /\ h \in Nat
      /\ \A i \in Slot : Calls[d][i].crn \in Nat /\ Calls[d][i].crn <= h
      /\ AnswersOnce(call[d], evq[d])
      /\ Playbacks(d) \in Nat /\ Playbacks(d) <= Cardinality(Answered(call[d], evq[d], h))
  BY LeakKnown
<1>2. Sessions(d)' = Sessions(d)
  BY DEF Moved, Sessions, sessionVars
<1>3. \A i \in Slot : Calls'[d][i].crn <= h
  BY <1>1 DEF Moved, NoCrn
<1>4. /\ call'[d] \in [Crn -> CallState]
      /\ \A n \in Crn : call[d][n] \notin Early => call'[d][n] \notin Early
  <2>1. PICK m : call'[d] \in Requests(call[d], m)
    BY DEF Moved
  <2>2. QED
    BY <1>1, <2>1, RequestsNotEarly, NoneRequested
<1>5. CASE Playbacks(d)' \in Nat /\ Playbacks(d)' <= Playbacks(d)
  <2>1. Shifts(evq[d], evq'[d])
    BY DEF Moved, Shifts
  <2>2. Cardinality(Sessions(d)') = h
    BY <1>2
  <2>3. h <= h
    BY <1>1
  <2> HIDE DEF h
  <2>4. /\ Cardinality(Sessions(d)') \in Nat
        /\ \A i \in Slot : Calls'[d][i].crn <= Cardinality(Sessions(d)')
    BY <1>1, <1>3, <2>2
  <2>5. Cardinality(Sessions(d)) <= Cardinality(Sessions(d)')
    BY <2>2, <2>3 DEF h
  <2>6. QED
    BY <1>4, <1>5, <2>1, <2>4, <2>5, LeakMoved
<1>6. CASE /\ OnAnswered(d) /\ Registered(Calls[d], Head(evq[d]).crn)
           /\ Playbacks(d)' \in Nat /\ Playbacks(d)' <= Playbacks(d) + 1
  <2> DEFINE A == Answered(call[d], evq[d], h)
             B == Answered(call'[d], evq'[d], h)
  <2>1. /\ evq[d] # <<>> /\ Head(evq[d]).type = "ANSWERED" /\ evq'[d] = Tail(evq[d])
    BY <1>6 DEF OnAnswered, TakeEvent, TypeOK, DeviceTypeOK
  <2>2. Head(evq[d]).crn <= h
    BY <1>1, <1>6 DEF Registered
  <2> HIDE DEF h
  <2>3. Cardinality(Answered(call[d], evq[d], h)) + 1 <=
            Cardinality(Answered(call'[d], Tail(evq[d]), h))
    BY <1>1, <1>4, <2>1, <2>2, OnceTaken
  <2>4. Cardinality(A) + 1 <= Cardinality(B)
    BY <2>1, <2>3
  <2>5. Cardinality(A) \in Nat /\ Cardinality(B) \in Nat
    BY <1>1, AnsweredFinite
  <2>6. Playbacks(d) <= Cardinality(A)
    BY <1>1
  <2>7. AnswersOnce(call'[d], evq'[d])
    <3>1. Shifts(evq[d], evq'[d])
      BY <2>1 DEF Shifts
    <3>2. QED
      BY <1>1, <1>4, <3>1, OnceShifted
  <2> HIDE DEF A, B
  <2>8. Playbacks(d)' <= Cardinality(B)
    BY <1>1, <1>6, <2>4, <2>5, <2>6
  <2>9. QED
    BY <1>2, <1>3, <2>7, <2>8 DEF LeakKept, B, h
<1>7. QED
  BY <1>5, <1>6, PlaybackStep

\* A new call is one more of the channel, and has not been answered.
LEMMA LeakOffered ==
    ASSUME PlaysWhenAnswered, TypeOK, SessionInv, NumberInv, NumberInv', LeakInv, [Next]_vars,
           NEW c \in Channels, OnOffered(c), NEW d \in Channels
    PROVE  LeakKept(d)
<1> DEFINE h == Cardinality(Sessions(d))
           g == Cardinality(Sessions(d)')
<1>1. /\ call[d] \in [Crn -> CallState] /\ IsFiniteSet(Sessions(d)) /\ h \in Nat
      /\ \A i \in Slot : Calls[d][i].crn \in Nat /\ Calls[d][i].crn <= h
  BY LeakKnown
<1>2. /\ evq[c] # <<>> /\ evq' = [evq EXCEPT ![c] = Tail(@)]
      /\ Calls' = [Calls EXCEPT ![c] = RegNewCall(@, Head(evq[c]).crn, "OFFERED")]
      /\ call' = call /\ createSession(c)
      /\ evq \in [Channels -> Seq(Event)] /\ Calls \in [Channels -> [Slot -> CallInfo]]
  BY DEF OnOffered, NewCall, TakeEvent, TypeOK, DeviceTypeOK, ChannelTypeOK
<1>3. h \in Nat /\ (g = h + 1 \/ g = h)
  <2>1. /\ d = c => Cardinality(Sessions(d)') = Cardinality(Sessions(d)) + 1
        /\ d # c => Sessions(d)' = Sessions(d)
    BY <1>1, <1>2, SessionAdded
  <2>2. QED
    BY <1>1, <2>1
<1>4. Calls'[d][0].crn \in {NoCrn, g}
  BY DEF NumberInv
<1> HIDE DEF h, g
<1>5. g \in Nat /\ h <= g
  BY <1>3
<1>6. \A i \in Slot : Calls'[d][i].crn <= g
  <2>1. CASE c # d
    BY <1>1, <1>2, <1>3, <2>1
  <2>2. CASE c = d
    <3>1. Slot = {0, 1}
      BY DEF Slot, MAX_CALLS
    <3>2. Calls'[d][1].crn = Calls[d][0].crn
      BY <1>2, <2>2, <3>1 DEF RegNewCall
    <3>3. Calls'[d][1].crn <= g
      BY <1>1, <1>3, <3>1, <3>2
    <3>4. Calls'[d][0].crn <= g
      BY <1>4, <1>5 DEF NoCrn
    <3>5. QED
      BY <3>1, <3>3, <3>4
  <2>3. QED
    BY <2>1, <2>2
<1>7. Shifts(evq[d], evq'[d])
  BY <1>2 DEF Shifts
<1>8. Playbacks(d)' \in Nat /\ Playbacks(d)' <= Playbacks(d)
  <2>1. ~OnAnswered(d)
    <3>1. pc = "event" /\ Head(evq[c]).type = "OFFERED" /\ lastSession' = lastSession + 1
      BY DEF OnOffered, AtEvent, NewCall, TakeEvent, createSession
    <3>2. lastSession \in Nat
      BY ServerAssumption DEF TypeOK, SessionTypeOK
    <3>3. OnAnswered(d) => lastSession' = lastSession
      BY DEF OnAnswered, sessionVars
    <3>4. QED
      BY <3>1, <3>2, <3>3
  <2>2. QED
    BY <2>1, PlaybackStep
<1>9. \A n \in Crn : call[d][n] \notin Early => call'[d][n] \notin Early
  BY <1>2
<1>10. QED
  BY <1>5, <1>6, <1>7, <1>8, <1>9, LeakMoved DEF h, g

\* Every step keeps it.
LEMMA LeakNext ==
    ASSUME PlaysWhenAnswered, TypeOK, SessionInv, NumberInv, NumberInv', LeakInv, [Next]_vars
    PROVE  LeakInv'
<1> SUFFICES ASSUME NEW d \in Channels PROVE LeakKept(d)
  BY DEF LeakInv, LeakKept
<1>1. CASE \/ UNCHANGED vars \/ NoEvent \/ NothingReceived \/ NotInterrupted
           \/ ScpProcess \/ ScpSilent \/ Signal
           \/ Answer \/ PlayFragment \/ PlayFragmentFails \/ DropCall \/ UnknownCommand
  BY <1>1, ProgramMoves, LeakProgram
<1>2. ASSUME NEW c \in Channels, ProcessEvent(c) PROVE LeakKept(d)
  <2>1. CASE OnOffered(c)
    BY <2>1, LeakOffered
  <2>2. CASE OnChannelEvent(c) \/ OnAnswered(c) \/ OnPlay(c)
    <3>1. Moved(d)
      BY <2>2, HandlerMoves, ProgramMoves
    <3>2. QED
      BY <3>1, LeakProgram
  <2>3. QED
    BY <1>2, <2>1, <2>2 DEF ProcessEvent
<1>3. ASSUME NEW c \in Channels, Library(c) \/ Network(c), Outside PROVE LeakKept(d)
  BY <1>3, LeakEnvironment
<1>4. CASE checkAppExitCondition
  <2>1. UNCHANGED <<Calls, sessionVars, files, exchange>>
    BY <1>4 DEF checkAppExitCondition, CloseIdleLines
  <2>2. Sessions(d)' = Sessions(d) /\ Playbacks(d)' = Playbacks(d)
    BY <2>1 DEF Sessions, Playbacks, Promised, sessionVars
  <2>3. /\ Cardinality(Sessions(d)) \in Nat /\ Playbacks(d) \in Nat
        /\ call[d] \in [Crn -> CallState]
        /\ \A i \in Slot : Calls[d][i].crn <= Cardinality(Sessions(d))
    BY LeakKnown
  <2>4. Shifts(evq[d], evq'[d])
    BY <1>4 DEF checkAppExitCondition, CloseIdleLines, Shifts
  <2>5. \A n \in Crn : call[d][n] \notin Early => call'[d][n] \notin Early
    <3>1. call'[d] \in Requests(call[d], NoCrn)
      BY <1>4 DEF checkAppExitCondition, CloseIdleLines, Requests
    <3>2. QED
      BY <2>3, <3>1, RequestsNotEarly
  <2>6. QED
    BY <2>1, <2>2, <2>3, <2>4, <2>5, LeakMoved
<1>5. QED
  BY <1>1, <1>2, <1>3, <1>4 DEF Next, MainLoop

\* No call was answered, nothing is open.
LEMMA LeakInit == Init => LeakInv
<1> SUFFICES ASSUME Init, NEW d \in Channels
             PROVE  /\ \A i \in Slot : Calls[d][i].crn <= Cardinality(Sessions(d))
                    /\ AnswersOnce(call[d], evq[d])
                    /\ Playbacks(d) <=
                           Cardinality(Answered(call[d], evq[d], Cardinality(Sessions(d))))
  BY DEF LeakInv
<1>1. Sessions(d) = {} /\ evq[d] = <<>> /\ \A i \in Slot : Calls[d][i].crn = 0
  BY DEF Init, DeviceInit, ChannelInit, Sessions, NoCall, NoCrn
<1>2. Cardinality(Sessions(d)) = 0
  BY <1>1, FS_EmptySet
<1>3. AnswersOnce(call[d], evq[d])
  BY <1>1 DEF AnswersOnce
<1>4. Playbacks(d) = 0
  BY DEF Init, Playbacks, Promised, NoExchange
<1>5. Cardinality(Answered(call[d], evq[d], 0)) \in Nat
  BY AnsweredFinite
<1>6. QED
  BY <1>1, <1>2, <1>3, <1>4, <1>5

\* A playback never closes its fragment, but with an SCP that plays when a call is
\* answered a channel holds at most one descriptor for each of its calls.
THEOREM LeakBounded ==
    ASSUME PlaysWhenAnswered PROVE Spec => []LeakIsOnePerCall
<1>1. TypeOK /\ NumberInv /\ LeakInv => LeakIsOnePerCall
  <2> SUFFICES ASSUME TypeOK, NumberInv, LeakInv, NEW d \in Channels
               PROVE  files[d] <= Cardinality(Sessions(d))
    BY DEF LeakIsOnePerCall
  <2> DEFINE h == Cardinality(Sessions(d))
             A == Answered(call[d], evq[d], h)
  <2>1. h \in Nat /\ Playbacks(d) \in Nat /\ Playbacks(d) <= Cardinality(A)
    BY LeakKnown
  <2>2. files[d] \in Nat /\ files[d] <= Playbacks(d)
    BY DEF TypeOK, ProcessTypeOK, Playbacks
  <2> HIDE DEF h
  <2>3. Cardinality(A) \in Nat /\ Cardinality(A) <= h
    BY <2>1, AnsweredFinite
  <2> HIDE DEF A
  <2>4. files[d] <= h
    BY <2>1, <2>2, <2>3
  <2>5. QED
    BY <2>4 DEF h
<1>2. TypeOK /\ SessionInv /\ NumberInv /\ NumberInv' /\ LeakInv /\ [Next]_vars => LeakInv'
  BY LeakNext
<1>3. TypeOK /\ NumberInv /\ [Next]_vars => NumberInv'
  BY NumberNext
<1>4. QED
  BY <1>1, <1>2, <1>3, LeakInit, NumberInit, TypeCorrect, SessionsAgree, PTL DEF Spec

=============================================================================
