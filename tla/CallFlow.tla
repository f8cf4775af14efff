------------------------------- MODULE CallFlow -------------------------------
(***************************************************************************)
(* callflow: the stand-alone program of the repository.  One thread runs   *)
(*     loop { if (sr_waitevt() != -1) process_event();                     *)
(*            if (interrupted) close idle lines, perhaps return; }         *)
(* over the channels of CallChannel; a signal handler may run in between.  *)
(* It answers a call, plays the fragment to it and drops it, or, as a      *)
(* missed-call responder, drops it unanswered.                             *)
(***************************************************************************)
EXTENDS CallChannel

CONSTANTS
    SendCallAck,        \* acknowledge a call before anything else
    SendACM,            \* accept a call before answering it
    Mode,               \* "autoresponder" (0), "missed_call" (1) or "other"
    MaxFiles            \* descriptors the process may have open for fragments

ASSUME FlowAssumption ==
    /\ SendCallAck \in BOOLEAN /\ SendACM \in BOOLEAN
    /\ Mode \in {"autoresponder", "missed_call", "other"}
    /\ MaxFiles \in Nat

VARIABLES
    files,              \* the open descriptors, by the channel they were opened for
    io_fhandle,         \* the descriptor in the iott of a channel
    reads,              \* the descriptor the voice resource was last given
    pc,                 \* next step of the main loop
    proc                \* whether the process runs

fileVars == <<files, io_fhandle, reads>>
flowVars == <<channelVars, fileVars, pc, proc>>
vars     == <<deviceVars, flowVars>>

Descriptor == 1..MaxFiles
NoFile == 0             \* io_fhandle = -1

FileTypeOK ==
    /\ files \in [Channels -> SUBSET Descriptor]
    /\ io_fhandle \in [Channels -> Descriptor \cup {NoFile}]
    /\ reads \in [Channels -> Descriptor \cup {NoFile}]

\* Every variable keeps its type (T_CHAN_INFO with its iott), and no descriptor
\* is open twice.
TypeOK ==
    /\ DeviceTypeOK /\ ChannelTypeOK /\ FileTypeOK
    /\ pc \in {"event", "exit"}
    /\ proc \in {"running", "exited"}
    /\ \A c, d \in Channels : c # d => files[c] \cap files[d] = {}

\* main, before the loop: LoadSettings and InitChannels.
Init ==
    /\ DeviceInit
    /\ ChannelInit
    /\ files = [c \in Channels |-> {}]
    /\ io_fhandle = [c \in Channels |-> NoFile]
    /\ reads = [c \in Channels |-> NoFile]
    /\ pc = "event"
    /\ proc = "running"

-----------------------------------------------------------------------------
(* process_event: one event of one channel. *)

AtEvent ==
    /\ proc = "running"
    /\ pc = "event" /\ pc' = "exit"
    /\ UNCHANGED proc

\* sr_waitevt times out.
NoEvent ==
    /\ AtEvent
    /\ \A c \in Channels : evq[c] = <<>>
    /\ UNCHANGED <<deviceVars, channelVars, fileVars>>

OnLineEvent(c) == AtEvent /\ OnLine(c) /\ UNCHANGED fileVars

OnFailureEvent(c) == AtEvent /\ OnFailure(c) /\ UNCHANGED fileVars

OnAccepted(c) == AtEvent /\ OnAccept(c) /\ UNCHANGED fileVars

OnCallEnd(c) ==
    /\ AtEvent
    /\ OnDisconnected(c) \/ OnDropCall(c) \/ OnReleaseCall(c)
    /\ UNCHANGED fileVars

Connect(calls, n) == IF SendACM THEN gc_AcceptCall(calls, n) ELSE gc_AnswerCall(calls, n)

\* (variant) A missed call is dropped by its slot, before it is registered.
FirstStepDropsSlot(c, n) ==
    /\ PState' = [PState EXCEPT ![c] = "RELEASING"]
    /\ call' = [call EXCEPT ![c] = gc_DropCall(@, Calls[c][0].crn)]

\* (variant) PState is left as the call before left it.
FirstStepKeepsPState(c, n) ==
    /\ Mode # "missed_call"
    /\ call' = [call EXCEPT ![c] = IF SendCallAck THEN gc_CallAck(@, n) ELSE Connect(@, n)]
    /\ UNCHANGED PState

\* What the mode says is done with a new call.
FirstStep(c, n) ==
    \/ /\ Mode = "missed_call"
       /\ PState' = [PState EXCEPT ![c] = "RELEASING"]
       /\ call' = [call EXCEPT ![c] = gc_DropCall(@, n)]
    \/ /\ Mode # "missed_call"
       /\ PState' = [PState EXCEPT ![c] = "IDLE"]
       /\ call' = [call EXCEPT
              ![c] = IF SendCallAck THEN gc_CallAck(@, n) ELSE Connect(@, n)]

OnOffered(c) ==
    /\ AtEvent
    /\ NewCall(c)
    /\ FirstStep(c, Head(evq[c]).crn)
    /\ UNCHANGED fileVars

\* The slot of the call is not touched.
OnCallProc(c) ==
    /\ AtEvent
    /\ TakeEvent(c, "CALLPROC")
    /\ call' = [call EXCEPT ![c] = Connect(@, Head(evq[c]).crn)]
    /\ UNCHANGED <<line, voice, waiting, resets, spent, channelVars, fileVars>>

-----------------------------------------------------------------------------
(* InitPlayFragment, in its three outcomes. *)

Free == Descriptor \ UNION {files[c] : c \in Channels}

\* open() gives the lowest descriptor that is free.
IsLowestFree(fd) == fd \in Free /\ \A other \in Free : fd <= other

\* dx_playiottdata needs a voice device that is open and idle.
CanPlay(c) == voice[c] = "idle" /\ line[c] # "closed"

PlayStarts(c) ==
    /\ CanPlay(c)
    /\ \E fd \in Descriptor :
          /\ IsLowestFree(fd)
          /\ files' = [files EXCEPT ![c] = @ \cup {fd}]
          /\ io_fhandle' = [io_fhandle EXCEPT ![c] = fd]
          /\ reads' = [reads EXCEPT ![c] = fd]
    /\ voice' = [voice EXCEPT ![c] = "play"]
    /\ PState' = [PState EXCEPT ![c] = "PLAY"]
    /\ UNCHANGED spent

\* dx_playiottdata fails: the file is closed, the iott keeps its descriptor.
PlayRefused(c) ==
    /\ IF CanPlay(c) THEN Spend("fault") ELSE UNCHANGED spent
    /\ \E fd \in Descriptor :
          /\ IsLowestFree(fd)
          /\ io_fhandle' = [io_fhandle EXCEPT ![c] = fd]
    /\ UNCHANGED <<files, reads, voice, PState>>

FileNotOpened(c) ==
    /\ IF Free # {} THEN Spend("fault") ELSE UNCHANGED spent
    /\ io_fhandle' = [io_fhandle EXCEPT ![c] = NoFile]
    /\ UNCHANGED <<files, reads, voice, PState>>

Drop(c, n) == call' = [call EXCEPT ![c] = gc_DropCall(@, n)]

\* (variant) A call that cannot be played to is kept.
WhenAnsweredKeeps(c, n) ==
    \/ PlayStarts(c) /\ UNCHANGED call
    \/ (PlayRefused(c) \/ FileNotOpened(c)) /\ UNCHANGED call

\* Mode 0 plays the fragment, or drops the call when it cannot.
WhenAnswered(c, n) ==
    \/ PlayStarts(c) /\ UNCHANGED call
    \/ (PlayRefused(c) \/ FileNotOpened(c)) /\ Drop(c, n)

\* In any other mode an answered call is a misconfiguration, only logged.
OnAnswered(c) ==
    LET n == Head(evq[c]).crn
    IN  /\ AtEvent
        /\ TakeEvent(c, "ANSWERED")
        /\ Calls' = [Calls EXCEPT ![c] = WithSState(@, n, "CONNECTED")]
        /\ IF Registered(Calls[c], n) /\ Mode = "autoresponder"
           THEN WhenAnswered(c, n)
           ELSE /\ IF Registered(Calls[c], n) THEN UNCHANGED call ELSE Drop(c, n)
                /\ UNCHANGED <<fileVars, voice, PState, spent>>
        /\ UNCHANGED <<line, waiting, resets, VReady, statVars, interrupted>>

\* The end of a playback drops the call in slot 0; the file stays open.
OnPlayEnd(c) ==
    /\ AtEvent
    /\ PState[c] = "PLAY"
    /\ TakeEvent(c, "TDX_PLAY")
    /\ InitDisconnect(c)
    /\ UNCHANGED <<line, voice, waiting, resets, spent, Calls, VReady, statVars,
                   interrupted, fileVars>>

\* Otherwise the call is being dropped already: close(io_fhandle), whatever
\* channel that descriptor belongs to by now.
OnPlayStopped(c) ==
    /\ AtEvent
    /\ PState[c] # "PLAY"
    /\ TakeEvent(c, "TDX_PLAY")
    /\ files' = [d \in Channels |-> files[d] \ {io_fhandle[c]}]
    /\ io_fhandle' = [io_fhandle EXCEPT ![c] = NoFile]
    /\ UNCHANGED <<line, call, voice, waiting, resets, spent, channelVars, reads>>

-----------------------------------------------------------------------------
(* The rest of the main loop, and the signal handler. *)

NotInterrupted ==
    /\ proc = "running" /\ ~interrupted
    /\ pc = "exit" /\ pc' = "event"
    /\ UNCHANGED <<deviceVars, channelVars, fileVars, proc>>

CloseOrReturn ==
    /\ proc = "running"
    /\ pc = "exit" /\ pc' = "event"
    /\ CloseIdleLines
    /\ proc' = IF AllClosed THEN "exited" ELSE proc
    /\ UNCHANGED fileVars

Signal ==
    /\ proc = "running"
    /\ intr_hdlr
    /\ UNCHANGED <<fileVars, pc, proc>>

Outside == proc = "running" /\ UNCHANGED flowVars

-----------------------------------------------------------------------------
ProcessEvent(c) ==
    \/ OnLineEvent(c) \/ OnFailureEvent(c)
    \/ OnOffered(c) \/ OnCallProc(c) \/ OnAccepted(c) \/ OnAnswered(c)
    \/ OnCallEnd(c)
    \/ OnPlayEnd(c) \/ OnPlayStopped(c)

MainLoop ==
    \/ NoEvent
    \/ \E c \in Channels : ProcessEvent(c)
    \/ NotInterrupted
    \/ CloseOrReturn

Next ==
    \/ MainLoop
    \/ \E c \in Channels : (Library(c) \/ Network(c)) /\ Outside
    \/ Signal

Spec == Init /\ [][Next]_vars

\* The main loop runs whenever it can (sr_waitevt returns after 500 ms), and the
\* library finishes what it accepted.
FairSpec ==
    /\ Spec
    /\ WF_vars(MainLoop)
    /\ \A c \in Channels :
          /\ WF_vars(PlayDone(c) /\ Outside)
          /\ WF_vars(ResetDone(c) /\ Outside)
          /\ WF_vars(OpenDone(c) /\ Outside)
          /\ WF_vars(Unblock(c) /\ Outside)
          /\ \A n \in Crn : WF_vars(Complete(c, n) /\ Outside)

-----------------------------------------------------------------------------
(* Properties.  The TDX_PLAY of a stopped playback may come when the next   *)
(* call plays already; OnPlayEnd takes it for the end of that one.          *)

\* In PLAY the iott has the descriptor that the voice resource reads, whatever
\* failed or came late before: the file that will be closed is the one that was
\* played.  It is open, unless another channel has closed it.
PlayedFileIsKnown ==
    \A c \in Channels :
        PState[c] = "PLAY" =>
            /\ reads[c] # NoFile /\ io_fhandle[c] = reads[c]
            /\ Channels = {c} => reads[c] \in files[c]

\* What goes on playing reads a descriptor that is open and was opened for its
\* channel, also when the TDX_PLAY of an earlier playback comes late.
PlayingFileIsOpen ==
    \A c \in Channels : voice[c] = "play" => reads[c] \in files[c]

\* A call in mode 0 or 1 is over some time, also when it could not be played to,
\* was hung up in any state, or the line was reset, unless the process ends.
EveryCallEnds ==
    \A c \in Channels, n \in Crn :
        call[c][n] = "offered" ~> (call[c][n] = "released" \/ proc # "running")

\* A signal ends the process: every playback is stopped, every call dropped, every
\* line closed.  Only a fault keeps it from it, and only one that leaves a channel in
\* RELEASING or PLAY with nothing going on, as the reset of a line does.
SignalEnds ==
    interrupted ~> (proc = "exited" \/ (spent["fault"] > 0 /\ \E c \in Channels : Stuck(c)))

=============================================================================
