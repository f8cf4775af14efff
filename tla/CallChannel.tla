------------------------------ MODULE CallChannel ------------------------------
(***************************************************************************)
(* What callserver.cpp and callflow.cpp do alike with a channel: the two   *)
(* programs share, copied line for line, the bookkeeping of calls, the     *)
(* handlers of most events, the signal handler and the closing of lines.   *)
(* CallServer and CallFlow add what differs.  The lines of callserver.cpp  *)
(* are the ones mapped here, CallFlow maps its copies.                     *)
(*                                                                         *)
(* What is written and never read (VState, blocked, the addresses, the     *)
(* per-interval call count) is left out; so is what only logs.  PST_CALLING*)
(* and GCST_DIALING are set by InitNewCall alone, which nothing calls.     *)
(* GCEV_CONNECTED, which sets CONNECTED and drops the call                 *)
(* (callserver.cpp:942-950, callflow.cpp:920-928), is raised for an        *)
(* outgoing call only, and so is no action here.                           *)
(***************************************************************************)
EXTENDS LineDevice, Integers

VARIABLES
    PState,                 \* program state of the channel
    Calls,                  \* the last MAX_CALLS calls of it, newest first
    VReady,                 \* its voice resource is known
    stUnblocked, stUsed,
    interrupted

statVars    == <<stUnblocked, stUsed>>
channelVars == <<PState, Calls, VReady, statVars, interrupted>>

MAX_CALLS == 2
Slot == 0..(MAX_CALLS - 1)

PStateSet == {"NULL", "IDLE", "PLAY", "RELEASING", "SHUTDOWN"}
SStateSet == {"NULL", "OFFERED", "ACCEPTED", "CONNECTED", "DISCONNECTED", "IDLE"}
CallInfo  == [crn : Crn \cup {NoCrn}, SState : SStateSet]

ChannelTypeOK ==
    /\ PState \in [Channels -> PStateSet]
    /\ Calls \in [Channels -> [Slot -> CallInfo]]
    /\ VReady \in [Channels -> BOOLEAN]
    /\ stUnblocked \in Nat
    /\ stUsed \in Int
    /\ interrupted \in BOOLEAN

NoCall == [crn |-> NoCrn, SState |-> "NULL"]

\* InitChannels.
ChannelInit ==
    /\ PState = [c \in Channels |-> "NULL"]
    /\ Calls = [c \in Channels |-> [i \in Slot |-> NoCall]]
    /\ VReady = [c \in Channels |-> FALSE]
    /\ stUnblocked = 0 /\ stUsed = 0
    /\ interrupted = FALSE

-----------------------------------------------------------------------------
(* Calls of a channel. *)

\* (variants) The calls are pushed without their state; beyond the last slot; an
\* older call stays first.
RegNewCallCrnOnly(calls, n, state) ==
    [i \in Slot |-> IF i = 0 THEN [crn |-> n, SState |-> state]
                    ELSE [crn |-> calls[i - 1].crn, SState |-> "NULL"]]

RegNewCallBeyond(calls, n, state) ==
    [i \in 0..MAX_CALLS |-> IF i = 0 THEN [crn |-> n, SState |-> state] ELSE calls[i - 1]]

RegNewCallBehind(calls, n, state) ==
    [calls EXCEPT ![IF calls[0].crn = NoCrn THEN 0 ELSE 1] = [crn |-> n, SState |-> state]]

\* The new call takes slot 0, the others move one deeper, the oldest is gone.
RegNewCall(calls, n, state) ==
    [i \in Slot |-> IF i = 0 THEN [crn |-> n, SState |-> state] ELSE calls[i - 1]]

\* GetCallNdx gives i for call n (and -1 when no slot is n's).
GetCallNdx(calls, n, i) ==
    /\ calls[i].crn = n
    /\ \A j \in Slot : j < i => calls[j].crn # n

Registered(calls, n) == \E i \in Slot : calls[i].crn = n

WithSState(calls, n, state) ==
    [i \in Slot |->
        IF GetCallNdx(calls, n, i) THEN [calls[i] EXCEPT !.SState = state]
                                   ELSE calls[i]]

-----------------------------------------------------------------------------
(* process_event: the handlers that are the same in both programs.         *)

\* The event at the head of the channel's queue is taken.
TakeEvent(c, type) ==
    /\ evq[c] # <<>>
    /\ Head(evq[c]).type = type
    /\ evq' = [evq EXCEPT ![c] = Tail(@)]

\* OPENEX, OPENEX_FAIL and BLOCKED (no case of its own) are logged.
OnLogged(c) ==
    /\ \E type \in {"OPENEX", "OPENEX_FAIL", "BLOCKED"} : TakeEvent(c, type)
    /\ UNCHANGED <<line, call, voice, waiting, resets, spent, channelVars>>

\* gc_GetResourceH finds the voice resource ...
OnUnblocked(c) ==
    /\ TakeEvent(c, "UNBLOCKED")
    /\ VReady' = [VReady EXCEPT ![c] = TRUE]
    /\ stUnblocked' = stUnblocked + 1
    /\ waiting' = [waiting EXCEPT ![c] = TRUE]
    /\ UNCHANGED <<line, call, voice, resets, spent, PState, Calls, stUsed, interrupted>>

\* (variant) VReady is not looked at.
OnUnblockedNoVoiceWaits(c) ==
    /\ TakeEvent(c, "UNBLOCKED")
    /\ Spend("fault")
    /\ waiting' = [waiting EXCEPT ![c] = TRUE]
    /\ UNCHANGED <<line, call, voice, resets, channelVars>>

\* ... or does not: then gc_WaitCall is issued only if it was found before.
OnUnblockedNoVoice(c) ==
    /\ TakeEvent(c, "UNBLOCKED")
    /\ Spend("fault")
    /\ waiting' = [waiting EXCEPT ![c] = @ \/ VReady[c]]
    /\ UNCHANGED <<line, call, voice, resets, channelVars>>

\* The part of OFFERED that does not depend on the mode.
NewCall(c) ==
    /\ TakeEvent(c, "OFFERED")
    /\ stUsed' = stUsed + 1
    /\ Calls' = [Calls EXCEPT ![c] = RegNewCall(@, Head(evq[c]).crn, "OFFERED")]
    /\ UNCHANGED <<line, voice, waiting, resets, spent, VReady, stUnblocked, interrupted>>

OnAccept(c) ==
    LET n == Head(evq[c]).crn
    IN  /\ TakeEvent(c, "ACCEPT")
        /\ Calls' = [Calls EXCEPT ![c] = WithSState(@, n, "ACCEPTED")]
        /\ call' = [call EXCEPT ![c] = gc_AnswerCall(@, n)]
        /\ UNCHANGED <<line, voice, waiting, resets, spent, PState, VReady, statVars,
                       interrupted>>

\* (variant) Only a CONNECTED call is dropped.
DisconnectedOrUnanswered(calls, n) ==
    \E i \in Slot : GetCallNdx(calls, n, i) /\ calls[i].SState # "CONNECTED"

\* "Simultaneous disconnect": the call is already DISCONNECTED.
Disconnected(calls, n) ==
    \E i \in Slot : GetCallNdx(calls, n, i) /\ calls[i].SState = "DISCONNECTED"

\* Any other call is dropped, in whatever state it is.
OnDisconnected(c) ==
    LET n == Head(evq[c]).crn
    IN  /\ TakeEvent(c, "DISCONNECTED")
        /\ PState' = [PState EXCEPT ![c] = "RELEASING"]
        /\ Calls' = [Calls EXCEPT ![c] = WithSState(@, n, "DISCONNECTED")]
        /\ call' = [call EXCEPT
               ![c] = IF Disconnected(Calls[c], n) THEN @ ELSE gc_DropCall(@, n)]
        /\ UNCHANGED <<line, voice, waiting, resets, spent, VReady, statVars, interrupted>>

OnDropCall(c) ==
    LET n == Head(evq[c]).crn
    IN  /\ TakeEvent(c, "DROPCALL")
        /\ voice' = [voice EXCEPT ![c] = dx_stopch(@)]
        /\ Calls' = [Calls EXCEPT ![c] = WithSState(@, n, "IDLE")]
        /\ call' = [call EXCEPT ![c] = gc_ReleaseCallEx(@, n)]
        /\ UNCHANGED <<line, waiting, resets, spent, PState, VReady, statVars, interrupted>>

\* (variant) Slot 0 is emptied, whichever call was released.
EmptiedFirst(calls, n) == [calls EXCEPT ![0] = NoCall]

\* The slot is emptied only if the call was IDLE.
Emptied(calls, n) ==
    [i \in Slot |-> IF GetCallNdx(calls, n, i) /\ calls[i].SState = "IDLE"
                    THEN NoCall ELSE calls[i]]

\* (variant) The call is uncounted only when PState says RELEASING.
OnReleaseCallUncounted(c) ==
    LET n == Head(evq[c]).crn
    IN  /\ TakeEvent(c, "RELEASECALL")
        /\ stUsed' = IF PState[c] = "RELEASING" THEN stUsed - 1 ELSE stUsed
        /\ PState' = [PState EXCEPT ![c] = IF @ = "RELEASING" THEN "IDLE" ELSE @]
        /\ Calls' = [Calls EXCEPT ![c] = Emptied(@, n)]
        /\ UNCHANGED <<line, call, voice, waiting, resets, spent, VReady, stUnblocked,
                       interrupted>>

OnReleaseCall(c) ==
    LET n == Head(evq[c]).crn
    IN  /\ TakeEvent(c, "RELEASECALL")
        /\ stUsed' = stUsed - 1
        /\ PState' = [PState EXCEPT ![c] = IF @ = "RELEASING" THEN "IDLE" ELSE @]
        /\ Calls' = [Calls EXCEPT ![c] = Emptied(@, n)]
        /\ UNCHANGED <<line, call, voice, waiting, resets, spent, VReady, stUnblocked,
                       interrupted>>

OnResetLineDev(c) ==
    /\ TakeEvent(c, "RESETLINEDEV")
    /\ Calls' = [Calls EXCEPT ![c] = [i \in Slot |-> NoCall]]
    /\ waiting' = [waiting EXCEPT ![c] = TRUE]
    /\ UNCHANGED <<line, call, voice, resets, spent, PState, VReady, statVars, interrupted>>

\* gc_ResetLineDev abandons the calls of the line.
OnTaskFail(c) ==
    /\ TakeEvent(c, "TASKFAIL")
    /\ call' = [call EXCEPT ![c] = Cleared(@)]
    /\ waiting' = [waiting EXCEPT ![c] = FALSE]
    /\ resets' = [resets EXCEPT ![c] = @ + 1]
    /\ UNCHANGED <<line, voice, spent, channelVars>>

OnLine(c)    == OnLogged(c) \/ OnUnblocked(c) \/ OnUnblockedNoVoice(c)
OnCall(c)    == OnAccept(c) \/ OnDisconnected(c) \/ OnDropCall(c) \/ OnReleaseCall(c)
OnFailure(c) == OnResetLineDev(c) \/ OnTaskFail(c)

-----------------------------------------------------------------------------
(* Slot 0 is dropped, whatever it holds. *)

InitDisconnect(c) ==
    /\ PState' = [PState EXCEPT ![c] = "RELEASING"]
    /\ call' = [call EXCEPT ![c] = gc_DropCall(@, Calls[c][0].crn)]

-----------------------------------------------------------------------------
(* The signal handler and the closing of lines. *)

\* Deinit stops and drops what plays, then the flag is set.
intr_hdlr ==
    /\ Spend("signal")
    /\ interrupted' = TRUE
    /\ PState' = [c \in Channels |-> IF PState[c] = "PLAY" THEN "RELEASING" ELSE PState[c]]
    /\ voice' = [c \in Channels |->
           IF PState[c] = "PLAY" THEN dx_stopch(voice[c]) ELSE voice[c]]
    /\ call' = [c \in Channels |->
           IF PState[c] = "PLAY" THEN gc_DropCall(call[c], Calls[c][0].crn) ELSE call[c]]
    /\ UNCHANGED <<line, waiting, resets, evq, Calls, VReady, statVars>>

\* (variant) A channel that never had a call is not closed.
ClosableOnceUsed(c) == PState[c] = "IDLE"

Closable(c) == PState[c] \in {"NULL", "IDLE"}

\* gc_Close ends the device: its calls, its playback and its queued events.
CloseIdleLines ==
    /\ interrupted
    /\ PState' = [c \in Channels |-> IF Closable(c) THEN "SHUTDOWN" ELSE PState[c]]
    /\ line' = [c \in Channels |-> IF Closable(c) THEN "closed" ELSE line[c]]
    /\ call' = [c \in Channels |-> IF Closable(c) THEN Cleared(call[c]) ELSE call[c]]
    /\ voice' = [c \in Channels |-> IF Closable(c) THEN "idle" ELSE voice[c]]
    /\ waiting' = [c \in Channels |-> waiting[c] /\ ~Closable(c)]
    /\ resets' = [c \in Channels |-> IF Closable(c) THEN 0 ELSE resets[c]]
    /\ evq' = [c \in Channels |-> IF Closable(c) THEN <<>> ELSE evq[c]]
    /\ UNCHANGED <<spent, Calls, VReady, statVars, interrupted>>

AllClosed == \A c \in Channels : PState'[c] = "SHUTDOWN"

-----------------------------------------------------------------------------
(* Properties of the bookkeeping, checked in both programs. *)

\* "Should not be such case" (callserver.cpp:955): every call event but OFFERED
\* finds its call in one of the MAX_CALLS slots.  RELEASECALL may not: a release
\* that outlasts the next call is pushed out by the one after it.
CallIsFound ==
    \A c \in Channels :
        (evq[c] # <<>> /\ Head(evq[c]).type \in CallEvent \ {"OFFERED", "RELEASECALL"}) =>
            Registered(Calls[c], Head(evq[c]).crn)

\* "got event at unexpected SState" (callserver.cpp:1031) is never logged: a
\* call that has been released was IDLE, so its slot, if any, is emptied.
ReleaseFollowsDrop ==
    \A c \in Channels :
        (evq[c] # <<>> /\ Head(evq[c]).type = "RELEASECALL") =>
            \A i \in Slot :
                Calls[c][i].crn = Head(evq[c]).crn => Calls[c][i].SState = "IDLE"

\* T_CHAN_INFO.VReady "will be used before WaitCall": no line waits for a call,
\* or carries one, before its voice resource was found, also after a reset.
NoCallWithoutVoice ==
    \A c \in Channels :
        (waiting[c] \/ \E n \in Crn : call[c][n] \in Live) => VReady[c]

Queued(c, type, n) ==
    \E i \in 1..Len(evq[c]) : evq[c][i] = [type |-> type, crn |-> n]

\* OFFERED has been taken from the queue, RELEASECALL has not.
InProgress(c) ==
    {n \in Crn : \/ call[c][n] \in Live /\ ~Queued(c, "OFFERED", n)
                 \/ call[c][n] = "released" /\ Queued(c, "RELEASECALL", n)}

\* stUsed counts the calls in progress; it is never too low, and too high only
\* after a fault (a reset forgets calls) or once lines are being closed.
StUsedCounts ==
    LET calls == Cardinality({t \in Channels \X Crn : t[2] \in InProgress(t[1])})
    IN  /\ stUsed >= calls
        /\ (spent["fault"] = 0 /\ ~interrupted) => stUsed = calls

Rank == [NULL |-> 0, OFFERED |-> 1, ACCEPTED |-> 2, CONNECTED |-> 3,
         DISCONNECTED |-> 4, IDLE |-> 5]

\* As long as a call is registered its state only moves towards IDLE, whichever
\* slot it is pushed to: late events do not revive it.
CallsNeverRegress ==
    [][\A c \in Channels, i, j \in Slot :
          (Calls[c][i].crn # NoCrn /\ Calls'[c][j].crn = Calls[c][i].crn) =>
              Rank[Calls'[c][j].SState] >= Rank[Calls[c][i].SState]]_<<deviceVars, channelVars>>

\* Nothing of the library or the SRL queue will move channel c on: it has no
\* call, no playback and no event, and its PState keeps it from being closed.
Stuck(c) ==
    /\ PState[c] \in {"RELEASING", "PLAY"}
    /\ evq[c] = <<>> /\ resets[c] = 0 /\ voice[c] = "idle"
    /\ \A n \in Crn : call[c][n] \notin Live

=============================================================================
