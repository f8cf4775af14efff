------------------------------ MODULE LineDevice ------------------------------
(***************************************************************************)
(* The Dialogic HMP library as src/ uses it: one GlobalCall line device    *)
(* and its voice resource per channel, and the SRL queue from which the    *)
(* main loop takes one event at a time.  EXTERNAL: the library is not in   *)
(* src/, so this is what the two call programs rely on.                    *)
(*                                                                         *)
(*   - a function issued in EV_ASYNC mode either fails at once (the call   *)
(*     is unknown or in the wrong state: no event follows) or is accepted  *)
(*     and later ends in its completion event or in GCEV_TASKFAIL;         *)
(*   - the events of one channel reach the program in the order they       *)
(*     arose, those of different channels in any order;                    *)
(*   - a line offers a call only while gc_WaitCall is in effect, and has   *)
(*     at most two calls at once, the older one being released (MAX_CALLS  *)
(*     and RegNewCall of the programs are written for that overlap).       *)
(***************************************************************************)
EXTENDS Naturals, Sequences, FiniteSets

CONSTANTS
    Channels,   \* the channels the program opened (TotalChannels of them)
    MaxCalls,   \* bound: calls the network offers on one channel
    Overlap,    \* a call may be offered before the previous one is released
    Limit       \* bounds on what the outside does: see Budget

Budget == {"hangup", "fault", "signal"}

ASSUME DeviceAssumption ==
    /\ MaxCalls \in Nat
    /\ Overlap \in BOOLEAN
    /\ Limit \in [Budget -> Nat]

VARIABLES
    line,       \* state of the line device
    call,       \* the library's state of every call reference number
    voice,      \* state of the voice resource
    waiting,    \* gc_WaitCall is in effect
    resets,     \* gc_ResetLineDev requests in progress
    evq,        \* SRL events of the channel the program has not taken yet
    spent       \* how much of Limit has been used

deviceVars == <<line, call, voice, waiting, resets, evq, spent>>

Crn == 1..MaxCalls      \* call reference numbers, in the order of the calls
NoCrn == 0

LineState == {"opening", "blocked", "ready", "failed", "closed"}
Talking   == {"offered", "acking", "acked", "accepting", "accepted", "answering",
              "connected"}
Pending   == {"acking", "accepting", "answering", "dropping", "releasing"}
Droppable == Talking \cup {"failed", "disconnected"}
Live      == Droppable \cup {"dropping", "idle", "releasing"}
CallState == Live \cup {"none", "released"}

LineEvent == {"OPENEX", "OPENEX_FAIL", "BLOCKED", "UNBLOCKED", "TASKFAIL",
              "RESETLINEDEV", "TDX_PLAY"}
CallEvent == {"OFFERED", "CALLPROC", "ACCEPT", "ANSWERED", "DISCONNECTED",
              "DROPCALL", "RELEASECALL"}
Event == [type : LineEvent \cup CallEvent, crn : Crn \cup {NoCrn}]

DeviceTypeOK ==
    /\ line \in [Channels -> LineState]
    /\ call \in [Channels -> [Crn -> CallState]]
    /\ voice \in [Channels -> {"idle", "play", "stopping"}]
    /\ waiting \in [Channels -> BOOLEAN]
    /\ resets \in [Channels -> Nat]
    /\ evq \in [Channels -> Seq(Event)]
    /\ spent \in [Budget -> Nat]

\* gc_OpenEx has been issued for every channel.
DeviceInit ==
    /\ line = [c \in Channels |-> "opening"]
    /\ call = [c \in Channels |-> [n \in Crn |-> "none"]]
    /\ voice = [c \in Channels |-> "idle"]
    /\ waiting = [c \in Channels |-> FALSE]
    /\ resets = [c \in Channels |-> 0]
    /\ evq = [c \in Channels |-> <<>>]
    /\ spent = [b \in Budget |-> 0]

-----------------------------------------------------------------------------
(* Functions the program calls: each gives the calls of the line afterwards. *)

\* Accepted only in a state of "from"; otherwise it fails and nothing happens.
Request(calls, n, from, to) ==
    IF n \in Crn /\ calls[n] \in from THEN [calls EXCEPT ![n] = to] ELSE calls

Unanswered == {"offered", "acked", "accepted"}

gc_CallAck(calls, n)       == Request(calls, n, {"offered"}, "acking")
gc_AcceptCall(calls, n)    == Request(calls, n, Unanswered \ {"accepted"}, "accepting")
gc_AnswerCall(calls, n)    == Request(calls, n, Unanswered, "answering")
gc_DropCall(calls, n)      == Request(calls, n, Droppable, "dropping")
gc_ReleaseCallEx(calls, n) == Request(calls, n, {"idle"}, "releasing")

\* What gc_ResetLineDev and gc_Close do to the calls of a line.
Cleared(calls) ==
    [n \in Crn |-> IF calls[n] = "none" THEN "none" ELSE "released"]

\* dx_stopch ends a playback early; its TDX_PLAY still follows.
dx_stopch(v) == IF v = "play" THEN "stopping" ELSE v

-----------------------------------------------------------------------------
(* What the library and the network do on their own. *)

Raise(c, type, n) ==
    evq' = [evq EXCEPT ![c] = Append(@, [type |-> type, crn |-> n])]

Spend(b) ==
    /\ spent[b] < Limit[b]
    /\ spent' = [spent EXCEPT ![b] = @ + 1]

\* The open completes, or fails for good.
OpenDone(c) ==
    /\ line[c] = "opening"
    /\ line' = [line EXCEPT ![c] = "blocked"]
    /\ Raise(c, "OPENEX", NoCrn)
    /\ UNCHANGED <<call, voice, waiting, resets, spent>>

OpenFails(c) ==
    /\ line[c] = "opening"
    /\ Spend("fault")
    /\ line' = [line EXCEPT ![c] = "failed"]
    /\ Raise(c, "OPENEX_FAIL", NoCrn)
    /\ UNCHANGED <<call, voice, waiting, resets>>

Unblock(c) ==
    /\ line[c] = "blocked"
    /\ line' = [line EXCEPT ![c] = "ready"]
    /\ Raise(c, "UNBLOCKED", NoCrn)
    /\ UNCHANGED <<call, voice, waiting, resets, spent>>

Block(c) ==
    /\ line[c] = "ready"
    /\ Spend("fault")
    /\ line' = [line EXCEPT ![c] = "blocked"]
    /\ Raise(c, "BLOCKED", NoCrn)
    /\ UNCHANGED <<call, voice, waiting, resets>>

\* The network offers call n.
Offer(c, n) ==
    /\ line[c] = "ready" /\ waiting[c] /\ resets[c] = 0
    /\ call[c][n] = "none"
    /\ \A m \in Crn : m < n => call[c][m] # "none"
    /\ LET live == {m \in Crn : call[c][m] \in Live}
       IN  IF Overlap
           THEN \A m, k \in live : m = k /\ call[c][m] = "releasing"
           ELSE live = {}
    /\ call' = [call EXCEPT ![c][n] = "offered"]
    /\ Raise(c, "OFFERED", n)
    /\ UNCHANGED <<line, voice, waiting, resets, spent>>

\* The caller hangs up, before or after the call was answered; until the program drops
\* the call it may be told so again (the "Simultaneous disconnect" of callserver.cpp:979).
HangUp(c, n) ==
    /\ call[c][n] \in Talking \cup {"disconnected"}
    /\ Spend("hangup")
    /\ call' = [call EXCEPT ![c][n] = "disconnected"]
    /\ Raise(c, "DISCONNECTED", n)
    /\ UNCHANGED <<line, voice, waiting, resets>>

Completion ==
    [acking    |-> [state |-> "acked",     event |-> "CALLPROC"],
     accepting |-> [state |-> "accepted",  event |-> "ACCEPT"],
     answering |-> [state |-> "connected", event |-> "ANSWERED"],
     dropping  |-> [state |-> "idle",      event |-> "DROPCALL"],
     releasing |-> [state |-> "released",  event |-> "RELEASECALL"]]

\* A requested operation on call n completes.
Complete(c, n) ==
    /\ call[c][n] \in Pending
    /\ call' = [call EXCEPT ![c][n] = Completion[call[c][n]].state]
    /\ Raise(c, Completion[call[c][n]].event, n)
    /\ UNCHANGED <<line, voice, waiting, resets, spent>>

\* ... or ends in GCEV_TASKFAIL.
TaskFails(c, n) ==
    /\ call[c][n] \in Pending
    /\ Spend("fault")
    /\ call' = [call EXCEPT ![c][n] = "failed"]
    /\ Raise(c, "TASKFAIL", n)
    /\ UNCHANGED <<line, voice, waiting, resets>>

\* A gc_ResetLineDev completes: gc_WaitCall has to be issued again.
ResetDone(c) ==
    /\ resets[c] > 0
    /\ resets' = [resets EXCEPT ![c] = @ - 1]
    /\ waiting' = [waiting EXCEPT ![c] = FALSE]
    /\ Raise(c, "RESETLINEDEV", NoCrn)
    /\ UNCHANGED <<line, call, voice, spent>>

\* A playback reaches the end of the file, or was stopped.
PlayDone(c) ==
    /\ voice[c] # "idle"
    /\ voice' = [voice EXCEPT ![c] = "idle"]
    /\ Raise(c, "TDX_PLAY", NoCrn)
    /\ UNCHANGED <<line, call, waiting, resets, spent>>

\* What the library owes the program.
Library(c) ==
    \/ OpenDone(c)
    \/ Unblock(c)
    \/ ResetDone(c)
    \/ PlayDone(c)
    \/ \E n \in Crn : Complete(c, n)

\* What may happen to a channel, or not.
Network(c) ==
    \/ OpenFails(c)
    \/ Block(c)
    \/ \E n \in Crn : Offer(c, n)
    \/ \E n \in Crn : HangUp(c, n)
    \/ \E n \in Crn : TaskFails(c, n)

=============================================================================
