----------------------------- MODULE ScpDialogue -----------------------------
(***************************************************************************)
(* What the SSP promises the SCP, apart from lines, calls and queues.      *)
(* Every new call of a channel is a new session and is reported at once;   *)
(* the SSP has one question open at a time, always about the newest        *)
(* session of a channel; while a question is open no session is created.   *)
(* So an answer can be applied to "the call of the channel" although it    *)
(* names the session only.  Instead of breaking a promise the SSP stops.   *)
(***************************************************************************)
EXTENDS Integers

CONSTANTS Channels, None

VARIABLES
    next,       \* the number of the next session
    owner,      \* channel of every session so far
    question,   \* the session the SCP is asked about, or None
    alive

vars == <<next, owner, question, alive>>

TypeOK ==
    /\ next \in Nat
    /\ owner \in [0..(next - 1) -> Channels]
    /\ question \in 0..(next - 1) \cup {None}
    /\ alive \in BOOLEAN

Init ==
    /\ next = 0
    /\ owner = [s \in {} |-> None]
    /\ question = None
    /\ alive = TRUE

Create(c) ==
    /\ next' = next + 1
    /\ owner' = [s \in 0..next |-> IF s = next THEN c ELSE owner[s]]

Newest(s) == \A t \in DOMAIN owner : owner[t] = owner[s] => t <= s

\* A new call is reported.
NewSession ==
    /\ alive /\ question = None
    /\ \E c \in Channels : Create(c)
    /\ question' = next
    /\ UNCHANGED alive

\* Something else about the call of a channel is reported.
AskAgain ==
    /\ alive /\ question = None
    /\ question' \in {s \in DOMAIN owner : Newest(s)}
    /\ UNCHANGED <<next, owner, alive>>

Answered ==
    /\ alive /\ question # None
    /\ question' = None
    /\ UNCHANGED <<next, owner, alive>>

Stop ==
    /\ alive /\ alive' = FALSE
    /\ question' \in {question, None}
    /\ UNCHANGED <<next, owner>> \/ \E c \in Channels : Create(c)

Next == NewSession \/ AskAgain \/ Answered \/ Stop

Spec == Init /\ [][Next]_vars

\* An open question is about the newest session of its channel: the answer
\* cannot reach a call that came later.
QuestionIsNewest == (alive /\ question # None) => Newest(question)
=============================================================================
