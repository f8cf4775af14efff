----------------------------- MODULE OfferedPath -----------------------------
(***************************************************************************)
(* What an offered call tells the SCP, and what comes back: callserver     *)
(* reads the diversion, gives the call a session, writes the event; the SCP*)
(* reads it and replies; callserver finds the channel of the session, reads*)
(* the command and applies it.  CallServer has the calls and their states; *)
(* this module has the data of the messages and the numbers of sessions.   *)
(***************************************************************************)
EXTENDS WrapSessions, SipDiversion, ScpWire

CONSTANTS
    Calls,          \* the calls offered: CgPN, CdPN and the Diversion headers
    Fragment        \* the file the SCP plays

ASSUME OfferedAssumption ==
    /\ MAX_NUMSIZE \in Nat /\ MAX_NUMSIZE > CLOSE
    /\ Unavailable \in 1..(B * B - 1) /\ Busy \in 1..(B * B - 1)

\* What is offered: texts are ASCII, and caller and called number fit their fields; a
\* diverting number may be of any length, and a parameter may have any value that is
\* not itself one of the symbols the program looks for.
HeaderForms ==
    [sip : BOOLEAN, number : Text, uriParameter : BOOLEAN,
     parameters : Seq(Int \ {SIP, END, REASON})]

ASSUME CallsAssumption ==
    \A call \in Calls :
        /\ {call.CgPN, call.CdPN} \subseteq Text /\ call.headers \in Seq(HeaderForms)
        /\ Len(call.CgPN) < MAX_NUMSIZE /\ Len(call.CdPN) < MAX_NUMSIZE

VARIABLES
    ending,     \* "none", or how callserver ended: by "assertion", "exception" of
                \* the REQ socket
    message,    \* the exchange on the REQ socket: an event, the command, or none
    scp,        \* what the SCP made of the last OFFERED event, or NotRead
    asked,      \* (history) the channel and the call of the last event sent
    done        \* what the last command did, and on which channel

pathVars == <<ending, message, scp, asked, done>>
vars     == <<sessionVars, pathVars>>

NoMessage == [kind |-> "none", session |-> 0, payload |-> <<>>]
NotRead   == [outcome |-> "none", texts |-> <<>>, at |-> 0, reason |-> 0]
NoCall    == [CgPN |-> <<>>, CdPN |-> <<>>, headers |-> <<>>]
NotDone   == [channel |-> NoChannel, command |-> "none", cause |-> "none", fragment |-> <<>>]

Init ==
    /\ SessionInit
    /\ ending = "none"
    /\ message = NoMessage
    /\ scp = NotRead
    /\ asked = [channel |-> NoChannel, call |-> NoCall]
    /\ done = NotDone

send(session, payload) ==
    message' = [kind |-> "event", session |-> session, payload |-> payload]

Diversion(call) == GetSIPRdPN([i \in 1..Len(call.headers) |-> Rendered(call.headers[i])])

\* GCEV_OFFERED in mode SSP.
Offered(c, call) ==
    /\ ending = "none" /\ message.kind = "none"
    /\ createSession(c)
    /\ send(lastSession, SSPEventOffered(call, Diversion(call).RdPN, Diversion(call).reasonCode))
    /\ asked' = [channel |-> c, call |-> call]
    /\ scp' = NotRead
    /\ UNCHANGED <<ending, done>>

\* GCEV_ANSWERED, and TDX_PLAY in mode SSP, of a channel that had a call.
Later(c, payload) ==
    /\ ending = "none" /\ message.kind = "none"
    /\ \E k \in 1..Len(created) : created[k].channel = c
    /\ IF getSessionByChannel(c) = UNKNOWN_SESSION
       THEN ending' = "assertion" /\ UNCHANGED message
       ELSE send(getSessionByChannel(c), payload) /\ UNCHANGED ending
    /\ asked' = [channel |-> c, call |-> NoCall]
    /\ scp' = NotRead
    /\ UNCHANGED <<sessionVars, done>>

\* An event before the reply to the last one: the socket throws.
SecondEvent(c) ==
    /\ ending = "none" /\ message.kind # "none"
    /\ createSession(c) \/ UNCHANGED sessionVars
    /\ ending' = "exception"
    /\ UNCHANGED <<message, scp, asked, done>>

-----------------------------------------------------------------------------
(* The SCP: tests/scp.py, or one that drops a call with the reason it was    *)
(* diverted for, as missed_call.py does.                                     *)

replies(event, command) ==
    /\ message' = [message EXCEPT !.kind = "command", !.payload = command]
    /\ scp' = event

Offers == message.kind = "event" /\ message.payload[1] = OFFERED

ReadOffered == unpack(Tail(message.payload), TRUE)

OnOffered ==
    /\ Offers
    /\ ReadOffered.outcome = "ok"
    /\ replies(ReadOffered, answerCall) \/ replies(ReadOffered, dropCall(ReadOffered.reason))
    /\ UNCHANGED <<sessionVars, ending, asked, done>>

\* A number that is no text ends the SCP: no reply comes.
OnUnreadable ==
    /\ Offers
    /\ ReadOffered.outcome # "ok"
    /\ scp' = ReadOffered
    /\ message' = [message EXCEPT !.kind = "unanswered"]
    /\ UNCHANGED <<sessionVars, ending, asked, done>>

OnOther ==
    /\ message.kind = "event" /\ ~Offers
    /\ replies(NotRead, IF message.payload[1] = ANSWERED THEN playFragment(Fragment)
                        ELSE dropCall(B + 1))       \* a reason of its own, 1234 in the code
    /\ UNCHANGED <<sessionVars, ending, asked, done>>

-----------------------------------------------------------------------------
(* callserver receives the reply. *)

\* external: the causes a call may be dropped for, and the SIP status the library
\* then refuses it with; 0 is none, a normal release.
IPEC_SIPReasonStatus480 == "480TemporarilyUnavailable"
IPEC_SIPReasonStatus486 == "486BusyHere"
IPEC_InternalReason     == "Normal"

SipStatus(cause) ==
    IF cause = IPEC_SIPReasonStatus480 THEN Unavailable
    ELSE IF cause = IPEC_SIPReasonStatus486 THEN Busy ELSE 0

\* (variant) Two entries of the table are swapped.
reasonCodeSwapped(reason) ==
    IF reason = Unavailable THEN IPEC_SIPReasonStatus486
    ELSE IF reason = Busy THEN IPEC_SIPReasonStatus480 ELSE IPEC_InternalReason

\* The cause a call is dropped for.
reasonCodeIP2reasonCodeDialogic(reason) ==
    IF reason = Unavailable THEN IPEC_SIPReasonStatus480
    ELSE IF reason = Busy THEN IPEC_SIPReasonStatus486 ELSE IPEC_InternalReason

processPacket ==
    /\ ending = "none"
    /\ message.kind = "command"
    /\ LET c       == getChannelBySession(message.session)
           command == Construct(message.payload)
       IN  done' = IF c = NoChannel THEN done
                   ELSE [channel |-> c, command |-> command.command,
                         cause |-> reasonCodeIP2reasonCodeDialogic(command.reason),
                         fragment |-> command.fragment]
    /\ message' = NoMessage
    /\ UNCHANGED <<sessionVars, ending, scp, asked>>

Next ==
    \/ \E c \in Channels :
          \/ \E call \in Calls : Offered(c, call)
          \/ \E payload \in {SSPEventAnswered, SSPEventOnPlayFinished(0)} : Later(c, payload)
          \/ SecondEvent(c)
    \/ OnOffered \/ OnUnreadable \/ OnOther
    \/ processPacket

Spec == Init /\ [][Next]_vars

-----------------------------------------------------------------------------
(* Properties. *)

Cut(text) == SubSeq(text, 1, Min({MAX_NUMSIZE, Len(text)}))

\* Whatever the length of the diverting number, the SCP finds caller, called number
\* and reason where they are; the diverting number is read exactly if it fits its
\* field, and otherwise begins with what fits.
FramingHolds ==
    scp.outcome = "ok" =>
        LET told == Diversion(asked.call) IN
        /\ scp.texts[1] = asked.call.CgPN /\ scp.texts[2] = asked.call.CdPN
        /\ scp.reason = told.reasonCode
        /\ Cut(scp.texts[3]) = Cut(told.RdPN)
        /\ Len(told.RdPN) < MAX_NUMSIZE => scp.texts[3] = told.RdPN

\* The SCP fails on a call only when its diverting number fills its field and the
\* reason, which follows the field in memory, is read as part of it.
OnlyOverlongFails ==
    scp.outcome \in {"malformed", "raises"} =>
        /\ scp.outcome = "raises"
        /\ Len(Diversion(asked.call).RdPN) >= MAX_NUMSIZE
        /\ Diversion(asked.call).reasonCode # 0

\* The two readers take the same messages for calls and read the same from them, and
\* a message that was cut is never taken for a shorter one.
UnpackersAgree ==
    Offers =>
        LET data == Tail(message.payload) IN
        \A n \in 0..Len(data) :
            LET with    == unpack(SubSeq(data, 1, n), TRUE)
                without == unpack(SubSeq(data, 1, n), FALSE)
            IN  /\ (with.outcome = "ok") <=> (without.outcome = "ok")
                /\ with.outcome = "ok" => n = Len(data) /\ with = without

\* callserver.cpp:1159: the diversion is read as it is meant if the last header has
\* one of the forms the program knows, whatever the headers before it say.
DiversionAsMeant ==
    LET headers == asked.call.headers IN
    (headers # <<>> /\ Legible(Last(headers))) => Diversion(asked.call) = Meant(Last(headers))

\* missed_call.py:29: a call the SCP drops for the reason it was diverted for is
\* refused with that SIP status, on the channel it was offered on: the table by which
\* the reason is read from the header, the bytes both ways and the table of the causes
\* fit together.
ReasonReturns ==
    [][(processPacket /\ scp.outcome = "ok" /\ done'.command = "DROP") =>
            /\ done'.channel = asked.channel
            /\ SipStatus(done'.cause) = Diversion(asked.call).reasonCode]_vars

\* A command is applied to the channel whose event it replies to, also when session
\* numbers have been used before: only a call that M others were offered after loses
\* its session to one of them.
ReplyReachesAsker ==
    [][(processPacket /\ \E k \in 1..Len(created) :
                            created[k].channel = asked.channel /\ Len(created) - k < M) =>
            done'.channel = asked.channel]_vars

\* callserver.cpp:922, 1092: the assertions on the session of a channel fail only
\* when the 32-bit number has reached its largest value.
AssertionOnlyAtWrap == ending = "assertion" => Len(created) >= M

=============================================================================
