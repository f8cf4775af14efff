---------------------------- MODULE MCCallServer ----------------------------
(* Small instances of CallServer for TLC. *)
EXTENDS CallServer

CONSTANTS c1, c2

\* What the outside may do in a run (Limit).
OneHangup == [hangup |-> 1, fault |-> 0, signal |-> 0]
OneSignal == [hangup |-> 1, fault |-> 0, signal |-> 1]
NoHangup  == [hangup |-> 0, fault |-> 1, signal |-> 1]
All       == [hangup |-> 1, fault |-> 1, signal |-> 1]

\* An SCP that may reply anything, an unknown command too, and lets a call go when its
\* playback is finished.
AnyScript == [OFFERED |-> {"ANSWER", "PLAY", "DROP", "OTHER"},
              ANSWERED |-> {"ANSWER", "PLAY", "DROP"},
              PLAY_FINISHED |-> {"DROP"}]

=============================================================================
