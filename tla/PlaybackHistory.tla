--------------------------- MODULE PlaybackHistory ---------------------------
(* Which call a playback of callserver was for: CallServer with a history   *)
(* variable, which no action of it looks at.                                *)
EXTENDS MCCallServer

VARIABLE plays      \* per channel the sessions whose playback was started and
                    \* whose TDX_PLAY has not been handled, the oldest first

historyVars == <<vars, plays>>

HistoryInit == Init /\ plays = [c \in Channels |-> <<>>]

\* A PLAY command is carried out.
Started(c) == voice[c] = "idle" /\ voice'[c] = "play"

\* The event of a playback that ended is handled.
Ended(c) ==
    /\ pc = "event" /\ pc' = "network"
    /\ evq[c] # <<>> /\ Head(evq[c]).type = "TDX_PLAY"
    /\ evq'[c] = Tail(evq[c])

HistoryNext ==
    /\ Next
    /\ plays' = [c \in Channels |->
           IF Started(c) THEN Append(plays[c], exchange.session)
           ELSE IF Ended(c) THEN Tail(plays[c])
           ELSE plays[c]]

HistorySpec == HistoryInit /\ [][HistoryNext]_historyVars

\* tests/scp.py:54 answers ANSWERED with "Play file" and PLAY_FINISHED, line 61,
\* with "Drop the call": the playback that is reported under a session is the one
\* the SCP asked for under it, so that it drops the call that was played to.
FinishedIsOfItsCall ==
    [][\A c \in Channels :
          (Ended(c) /\ exchange' # exchange) =>
              exchange'.session = Head(plays[c])]_historyVars

=============================================================================
