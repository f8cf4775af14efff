------------------------------ MODULE CallServer ------------------------------
(***************************************************************************)
(* callserver: the SSP of the repository.  One thread runs                 *)
(*     loop { processGlobalCall(); processNetwork();                       *)
(*            if (checkAppExitCondition()) break; }                        *)
(* over the channels of CallChannel; a signal handler may run in between.  *)
(* Call events are reported to the SCP (tests/scp.py), whose replies are   *)
(* commands for the channel of the session.                                *)
(***************************************************************************)
EXTENDS CallChannel

CONSTANTS
    SendACM,            \* accept a call before answering it
    Mode,               \* "autoresponder" (0) or "ssp" (1)
    Script,             \* the replies of the SCP to each event; {}: no reply
    UNKNOWN_SESSION     \* the largest session number, never given to a call

SspEvent == {"OFFERED", "ANSWERED", "PLAY_FINISHED"}
Command  == {"ANSWER", "PLAY", "DROP", "OTHER"}     \* OTHER: no such code

ASSUME ServerAssumption ==
    /\ SendACM \in BOOLEAN
    /\ Mode \in {"autoresponder", "ssp"}
    /\ Script \in [SspEvent -> SUBSET Command]
    /\ UNKNOWN_SESSION \in Nat

VARIABLES
    files,              \* descriptors opened for fragments and not closed
    lastSession,        \* the next session number
    channel2session, session2channel,
    exchange,           \* the REQ socket and the message on its way
    pc,                 \* next step of the main loop
    proc                \* whether the process runs, and how it ended

sessionVars == <<lastSession, channel2session, session2channel>>
serverVars  == <<channelVars, files, sessionVars, exchange, pc, proc>>
vars        == <<deviceVars, serverVars>>

Session == 0..(UNKNOWN_SESSION - 1)
Ending  == {"exited", "null_transport", "assert_failed", "zmq_error", "bad_command"}

NoExchange == [stage |-> "idle", session |-> UNKNOWN_SESSION, body |-> "none"]

Exchange ==
    {NoExchange}
        \cup [stage : {"asked", "lost"}, session : Session, body : SspEvent]
        \cup [stage : {"told"}, session : Session, body : Command]

\* A session that is remembered, or that the SCP was given, has been created.
SessionTypeOK ==
    /\ lastSession \in 0..UNKNOWN_SESSION
    /\ channel2session \in [Channels -> 0..(lastSession - 1) \cup {UNKNOWN_SESSION}]
    /\ session2channel \in [0..(lastSession - 1) -> Channels]
    /\ exchange \in Exchange
    /\ exchange.stage # "idle" => exchange.session \in 0..(lastSession - 1)

ProcessTypeOK ==
    /\ files \in [Channels -> Nat]
    /\ pc \in {"event", "network", "exit"}
    /\ proc \in Ending \cup {"running"}

\* Every variable keeps its type (T_CHAN_INFO, SessionList, the ZMQ socket), and
\* every lookup of a channel by session succeeds.
TypeOK == DeviceTypeOK /\ ChannelTypeOK /\ SessionTypeOK /\ ProcessTypeOK

Init ==
    /\ DeviceInit
    /\ ChannelInit
    /\ files = [c \in Channels |-> 0]
    /\ lastSession = 0
    /\ channel2session = [c \in Channels |-> UNKNOWN_SESSION]
    /\ session2channel = [s \in {} |-> UNKNOWN_SESSION]
    /\ exchange = NoExchange
    /\ pc = "event"
    /\ proc = "running"

-----------------------------------------------------------------------------
(* SessionList: no session is ever deleted, only its channel may move on.  *)

\* (variant) The session is not counted.
createSessionUncounted(c) ==
    /\ UNCHANGED lastSession
    /\ channel2session' = [channel2session EXCEPT ![c] = lastSession]
    /\ session2channel' =
           [s \in 0..lastSession |-> IF s = lastSession THEN c ELSE session2channel[s]]

\* (variant) The channel keeps the first session it had (insert, not assignment).
createSessionOnce(c) ==
    /\ lastSession' = lastSession + 1
    /\ channel2session' = [channel2session EXCEPT
           ![c] = IF @ = UNKNOWN_SESSION THEN lastSession ELSE @]
    /\ session2channel' =
           [s \in 0..lastSession |-> IF s = lastSession THEN c ELSE session2channel[s]]

createSession(c) ==
    /\ lastSession' = lastSession + 1
    /\ channel2session' = [channel2session EXCEPT ![c] = lastSession]
    /\ session2channel' =
           [s \in 0..lastSession |-> IF s = lastSession THEN c ELSE session2channel[s]]

getSessionByChannel(c) == channel2session[c]

getChannelBySession(s) == session2channel[s]

-----------------------------------------------------------------------------
(* The transport: a ZMQ REQ socket, bound; the SCP holds the REP side.     *)

\* (variant) A socket that drops the message instead of throwing.
SendOrDrop(s, e) ==
    /\ exchange' = IF exchange.stage = "idle"
                   THEN [stage |-> "asked", session |-> s, body |-> e] ELSE exchange
    /\ UNCHANGED proc

\* A REQ socket may not send again before it has received: send throws
\* zmq::error_t, nobody catches it, and the process terminates.
Send(s, e) ==
    IF exchange.stage = "idle"
    THEN /\ exchange' = [stage |-> "asked", session |-> s, body |-> e]
         /\ UNCHANGED proc
    ELSE /\ proc' = "zmq_error"
         /\ UNCHANGED exchange

\* (variant) Every event is sent with the code of ANSWERED.
SendOfChannelOneCode(c, e) ==
    IF getSessionByChannel(c) # UNKNOWN_SESSION
    THEN Send(getSessionByChannel(c), "ANSWERED")
    ELSE /\ proc' = "assert_failed"
         /\ UNCHANGED exchange

\* An event of channel c other than OFFERED goes out under the session the
\* channel has; assert(session != UNKNOWN_SESSION) stops the process.
SendOfChannel(c, e) ==
    IF getSessionByChannel(c) # UNKNOWN_SESSION
    THEN Send(getSessionByChannel(c), e)
    ELSE /\ proc' = "assert_failed"
         /\ UNCHANGED exchange

-----------------------------------------------------------------------------
(* processGlobalCall / process_event: one event of one channel.            *)

AtEvent ==
    /\ proc = "running"
    /\ pc = "event" /\ pc' = "network"

\* sr_waitevt times out.
NoEvent ==
    /\ AtEvent
    /\ \A c \in Channels : evq[c] = <<>>
    /\ UNCHANGED <<deviceVars, channelVars, files, sessionVars, exchange, proc>>

\* The handlers that concern the channel only.
OnChannelEvent(c) ==
    /\ AtEvent
    /\ OnLine(c) \/ OnCall(c) \/ OnFailure(c)
    /\ UNCHANGED <<files, sessionVars, exchange, proc>>

\* The bound on sessions: fewer than UNKNOWN_SESSION calls in one process.
OnOffered(c) ==
    /\ AtEvent
    /\ lastSession < UNKNOWN_SESSION
    /\ NewCall(c)
    /\ PState' = [PState EXCEPT ![c] = "IDLE"]
    /\ createSession(c)
    /\ Send(lastSession, "OFFERED")
    /\ UNCHANGED <<call, files>>

OnAnswered(c) ==
    LET n == Head(evq[c]).crn
    IN  /\ AtEvent
        /\ TakeEvent(c, "ANSWERED")
        /\ Calls' = [Calls EXCEPT ![c] = WithSState(@, n, "CONNECTED")]
        /\ IF Registered(Calls[c], n)
           THEN /\ SendOfChannel(c, "ANSWERED")
                /\ UNCHANGED call
           ELSE /\ call' = [call EXCEPT ![c] = gc_DropCall(@, n)]
                /\ UNCHANGED <<exchange, proc>>
        /\ UNCHANGED <<line, voice, waiting, resets, spent, PState, VReady, statVars,
                       interrupted, files, sessionVars>>

\* PState and the descriptor stay as they are.
OnPlay(c) ==
    /\ AtEvent
    /\ TakeEvent(c, "TDX_PLAY")
    /\ SendOfChannel(c, "PLAY_FINISHED")
    /\ UNCHANGED <<line, call, voice, waiting, resets, spent, channelVars, files,
                   sessionVars>>

-----------------------------------------------------------------------------
(* processNetwork / processPacket: every reply that has arrived.           *)

\* Nothing has arrived.  transport_ptr exists in mode SSP only; in any other
\* mode it is null, and it is dereferenced here.
NothingReceived ==
    /\ proc = "running"
    /\ pc = "network"
    /\ IF Mode = "ssp"
       THEN exchange.stage # "told" /\ pc' = "exit" /\ UNCHANGED proc
       ELSE proc' = "null_transport" /\ UNCHANGED pc
    /\ UNCHANGED <<deviceVars, channelVars, files, sessionVars, exchange>>

\* The reply "cmd" is taken from the socket, which may then ask again.
recv(cmd) ==
    /\ exchange.stage = "told" /\ exchange.body = cmd
    /\ exchange' = NoExchange

\* processPacket: the SCP echoes the session, so its channel is known.
Received(cmd) ==
    /\ proc = "running"
    /\ pc = "network" /\ Mode = "ssp"
    /\ recv(cmd)
    /\ UNCHANGED <<Calls, VReady, statVars, interrupted, sessionVars, pc>>

OfReply == getChannelBySession(exchange.session)

Answer ==
    /\ Received("ANSWER")
    /\ LET n == Calls[OfReply][0].crn
       IN  call' = [call EXCEPT
               ![OfReply] = IF SendACM THEN gc_AcceptCall(@, n) ELSE gc_AnswerCall(@, n)]
    /\ UNCHANGED <<line, voice, waiting, resets, evq, spent, PState, files, proc>>

\* dx_playiottdata needs a voice device that is open and idle.
CanPlay(c) == voice[c] = "idle" /\ line[c] # "closed"

\* InitPlayFragment: the file opens and dx_playiottdata is accepted.
PlayFragment ==
    /\ Received("PLAY")
    /\ CanPlay(OfReply)
    /\ voice' = [voice EXCEPT ![OfReply] = "play"]
    /\ PState' = [PState EXCEPT ![OfReply] = "PLAY"]
    /\ files' = [files EXCEPT ![OfReply] = @ + 1]
    /\ UNCHANGED <<line, call, waiting, resets, evq, spent, proc>>

\* The device cannot play, or one of the two fails: nobody is told.
PlayFragmentFails ==
    /\ Received("PLAY")
    /\ IF CanPlay(OfReply) THEN Spend("fault") ELSE UNCHANGED spent
    /\ UNCHANGED <<line, call, voice, waiting, resets, evq, PState, files, proc>>

DropCall ==
    /\ Received("DROP")
    /\ InitDisconnect(OfReply)
    /\ UNCHANGED <<line, voice, waiting, resets, evq, spent, files, proc>>

\* factories.at(id) throws std::out_of_range: the process terminates.
UnknownCommand ==
    /\ Received("OTHER")
    /\ proc' = "bad_command"
    /\ UNCHANGED <<deviceVars, PState, files>>

-----------------------------------------------------------------------------
(* checkAppExitCondition, and the signal handler.                          *)

AtExit ==
    /\ proc = "running"
    /\ pc = "exit" /\ pc' = "event"

NotInterrupted ==
    /\ AtExit
    /\ ~interrupted
    /\ UNCHANGED <<deviceVars, channelVars, files, sessionVars, exchange, proc>>

checkAppExitCondition ==
    /\ AtExit
    /\ CloseIdleLines
    /\ proc' = IF AllClosed THEN "exited" ELSE proc
    /\ UNCHANGED <<files, sessionVars, exchange>>

Signal ==
    /\ proc = "running"
    /\ intr_hdlr
    /\ UNCHANGED <<files, sessionVars, exchange, pc, proc>>

-----------------------------------------------------------------------------
(* The SCP.  tests/scp.py replies to each of the three events.             *)

TestScript == [OFFERED |-> {"ANSWER"}, ANSWERED |-> {"PLAY"}, PLAY_FINISHED |-> {"DROP"}]

Outside ==
    /\ proc = "running"
    /\ UNCHANGED serverVars

ScpProcess ==
    /\ proc = "running"
    /\ exchange.stage = "asked"
    /\ \E cmd \in Script[exchange.body] :
           exchange' = [exchange EXCEPT !.stage = "told", !.body = cmd]
    /\ UNCHANGED <<deviceVars, channelVars, files, sessionVars, pc, proc>>

\* It returns without replying, or it is restarted with the request in hand.
ScpSilent ==
    /\ proc = "running"
    /\ exchange.stage = "asked"
    /\ IF Script[exchange.body] = {} THEN UNCHANGED spent ELSE Spend("fault")
    /\ exchange' = [exchange EXCEPT !.stage = "lost"]
    /\ UNCHANGED <<line, call, voice, waiting, resets, evq, channelVars, files,
                   sessionVars, pc, proc>>

-----------------------------------------------------------------------------
ProcessEvent(c) == OnChannelEvent(c) \/ OnOffered(c) \/ OnAnswered(c) \/ OnPlay(c)

MainLoop ==
    \/ NoEvent
    \/ \E c \in Channels : ProcessEvent(c)
    \/ NothingReceived
    \/ Answer
    \/ PlayFragment
    \/ PlayFragmentFails
    \/ DropCall
    \/ UnknownCommand
    \/ NotInterrupted
    \/ checkAppExitCondition

Next ==
    \/ MainLoop
    \/ \E c \in Channels : (Library(c) \/ Network(c)) /\ Outside
    \/ ScpProcess
    \/ ScpSilent
    \/ Signal

Spec == Init /\ [][Next]_vars

\* The main loop runs whenever it can (sr_waitevt and zmq::poll return), the
\* SCP serves the request it has, the library finishes what it accepted.
FairSpec ==
    /\ Spec
    /\ WF_vars(MainLoop)
    /\ WF_vars(ScpProcess)
    /\ \A c \in Channels :
          /\ WF_vars(PlayDone(c) /\ Outside)
          /\ WF_vars(ResetDone(c) /\ Outside)
          /\ WF_vars(OpenDone(c) /\ Outside)
          /\ WF_vars(Unblock(c) /\ Outside)
          /\ \A n \in Crn : WF_vars(Complete(c, n) /\ Outside)

-----------------------------------------------------------------------------
(* Safety. *)

\* The assertions at callserver.cpp:923 and 1094: when a call is answered, or
\* a playback ends, the channel has a session.
AssertionsHold == proc # "assert_failed"

Sessions(c) == {s \in DOMAIN session2channel : session2channel[s] = c}

\* While the SCP's reply is awaited its channel is given no newer session: the
\* command that comes back is for the call the SCP was asked about.
RepliesAreCurrent ==
    (proc = "running" /\ exchange.stage # "idle") =>
        getSessionByChannel(getChannelBySession(exchange.session)) = exchange.session

\* A channel remembers the newest of its sessions, and none if it never had one.
ChannelKnowsNewest ==
    /\ \A c \in Channels :
          getSessionByChannel(c) # UNKNOWN_SESSION =>
              getChannelBySession(getSessionByChannel(c)) = c
    /\ \A s \in DOMAIN session2channel :
          LET newest == getSessionByChannel(getChannelBySession(s))
          IN  newest # UNKNOWN_SESSION /\ s <= newest

\* None of these events is in the queue q.
NoReport(q) ==
    \A i \in 1..Len(q) : q[i].type \notin {"ACCEPT", "ANSWERED", "TDX_PLAY"}

\* Nothing is being answered or played on c, and no event that would be reported
\* under its session is on its way.
Silent(c) ==
    /\ voice[c] = "idle"
    /\ \A n \in Crn : call[c][n] \notin {"accepting", "answering"}
    /\ NoReport(evq[c])

\* A channel that has no session yet is silent.
SilentUntilKnown ==
    \A c \in Channels : getSessionByChannel(c) = UNKNOWN_SESSION => Silent(c)

\* Why the assertions hold and the replies are current: the inductive invariant
\* of SessionList, of the queue of each channel and of the REQ socket.
SessionInv ==
    AssertionsHold /\ RepliesAreCurrent /\ ChannelKnowsNewest /\ SilentUntilKnown

\* Commands act on slot 0: it holds the call of the newest session of the
\* channel or is empty, never an older call (the k-th session is call k's).
NewestCallIsFirst ==
    \A c \in Channels : Calls[c][0].crn \in {NoCrn, Cardinality(Sessions(c))}

\* A playback leaks its descriptor, but a call plays at most once under
\* tests/scp.py: no channel holds more descriptors than it had calls.
LeakIsOnePerCall ==
    \A c \in Channels : files[c] <= Cardinality(Sessions(c))

-----------------------------------------------------------------------------
(* Refinement. *)

Dialogue == INSTANCE ScpDialogue WITH
    next     <- lastSession,
    owner    <- session2channel,
    question <- exchange.session,
    alive    <- proc = "running",
    None     <- UNKNOWN_SESSION

\* SessionList and the REQ socket keep the promises of ScpDialogue.
ImplementsDialogue == Dialogue!Spec

-----------------------------------------------------------------------------
(* Liveness, under FairSpec. *)

\* A call for which nothing more will happen unless the caller hangs up: nothing plays,
\* is queued, asked or commanded for its channel.
Unattended(c, n) ==
    /\ call[c][n] \in Unanswered \cup {"connected"} /\ voice[c] = "idle" /\ evq[c] = <<>>
    /\ ~(exchange.stage \in {"asked", "told"} /\ getChannelBySession(exchange.session) = c)

\* Every call offered is eventually over: answered, played to and dropped by the SCP,
\* reset or closed; and so is every call hung up, in whatever state the program
\* knew it.  Only two faults leave a call over, until it is hung up: the SCP does not
\* reply, and a playback fails to start (callserver.cpp:1331 ignores the result of
\* InitPlayFragment, so that nobody drops the call).
EveryCallEnds ==
    \A c \in Channels, n \in Crn :
        call[c][n] \in {"offered", "disconnected"} ~>
            \/ call[c][n] = "released" \/ proc # "running"
            \/ spent["fault"] > 0 /\ Unattended(c, n)

\* After a signal the process ends, unless a channel is left in RELEASING or
\* PLAY with nothing going on or the SCP never replies: nothing else delays the
\* exit for ever.
OnlyStuckChannelsDelayExit ==
    interrupted ~> \/ proc # "running"
                   \/ \E c \in Channels : Stuck(c)
                   \/ exchange.stage = "lost"

-----------------------------------------------------------------------------
(* What comments say and the code does not do. *)

\* callserver.cpp:126 says of the signal handler that it "stops I/O activity on
\* all channels and closes all the channels": the process would end.
SignalClosesAll == interrupted ~> proc # "running"

=============================================================================
