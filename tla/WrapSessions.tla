---------------------------- MODULE WrapSessions ----------------------------
(***************************************************************************)
(* Session and SessionList with numbers of a fixed width: lastSession is a *)
(* uint32_t that wraps, UNKNOWN_SESSION is its largest value and is handed *)
(* out like any other, and no entry of either map is ever removed.         *)
(* (CallServer keeps its sessions below the wrap.)                         *)
(***************************************************************************)
EXTENDS Integers, Sequences

CONSTANTS
    Channels,
    NoChannel,          \* -1
    M,                  \* 2^32: how many values a TSessionID has
    MaxCreated          \* bound: sessions created

ASSUME WrapAssumption ==
    /\ M \in Nat \ {0}
    /\ MaxCreated \in Nat
    /\ NoChannel \notin Channels

TSessionID      == 0..(M - 1)

\* (variant) The first number stands for no session.
UnknownZero == 0

UNKNOWN_SESSION == M - 1

VARIABLES
    lastSession,
    channel2session,    \* the maps; a channel without an entry has UNKNOWN_SESSION
    session2channel,    \* and a session without one NoChannel, as the look-ups say
    created             \* (history) the sessions created, oldest first

sessionVars == <<lastSession, channel2session, session2channel, created>>

SessionInit ==
    /\ lastSession = 0
    /\ channel2session = [c \in Channels |-> UNKNOWN_SESSION]
    /\ session2channel = [s \in TSessionID |-> NoChannel]
    /\ created = <<>>

\* lastSession++
Following(s) == IF s = M - 1 THEN 0 ELSE s + 1

\* (variant) The entry of a session that exists is kept, as emplace does.
createSessionEmplace(c) ==
    /\ Len(created) < MaxCreated
    /\ lastSession' = Following(lastSession)
    /\ channel2session' = [channel2session EXCEPT ![c] = lastSession]
    /\ session2channel' = [session2channel EXCEPT ![lastSession] = IF @ = NoChannel THEN c ELSE @]
    /\ created' = Append(created, [channel |-> c, session |-> lastSession])

createSession(c) ==
    /\ Len(created) < MaxCreated
    /\ lastSession' = Following(lastSession)
    /\ channel2session' = [channel2session EXCEPT ![c] = lastSession]
    /\ session2channel' = [session2channel EXCEPT ![lastSession] = c]
    /\ created' = Append(created, [channel |-> c, session |-> lastSession])

getSessionByChannel(c) == channel2session[c]
getChannelBySession(s) == session2channel[s]

SessionSpec == SessionInit /\ [][\E c \in Channels : createSession(c)]_sessionVars

-----------------------------------------------------------------------------
(* Properties. *)

\* Every variable of SessionList keeps its type.
SessionTypeOK ==
    /\ lastSession \in TSessionID
    /\ channel2session \in [Channels -> TSessionID]
    /\ session2channel \in [TSessionID -> Channels \cup {NoChannel}]
    /\ created \in Seq([channel : Channels, session : TSessionID])

\* A reply is routed to the channel its session was created for, even when the
\* numbers have wrapped, as long as fewer than M sessions were created since.
RecentIsRouted ==
    \A k \in 1..Len(created) :
        Len(created) - k < M => getChannelBySession(created[k].session) = created[k].channel

\* Events of a channel are sent under the session created for it last.
NewestIsUsed ==
    \A k \in 1..Len(created) :
        (\A j \in (k + 1)..Len(created) : created[j].channel # created[k].channel) =>
            getSessionByChannel(created[k].channel) = created[k].session

\* A channel with a session is taken for one without (and the assertions on it
\* fail) only when the number has reached its largest value, after M - 1 others.
UnknownOnlyAtWrap ==
    \A k \in 1..Len(created) :
        getSessionByChannel(created[k].channel) = UNKNOWN_SESSION => Len(created) >= M

=============================================================================
