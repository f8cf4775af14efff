----------------------------- MODULE MCCallFlow -----------------------------
(* Small instances of CallFlow for TLC. *)
EXTENDS CallFlow

CONSTANTS c1, c2

\* What the outside may do in a run (Limit).
OneHangup  == [hangup |-> 1, fault |-> 0, signal |-> 0]
TwoHangups == [hangup |-> 2, fault |-> 0, signal |-> 0]
All        == [hangup |-> 1, fault |-> 1, signal |-> 1]

=============================================================================
