---------------------------- MODULE RequestReply ----------------------------
(***************************************************************************)
(* What a requester may expect of UDPRequest: a request is open from the   *)
(* moment it is sent until it is reported, once, as answered or as timed   *)
(* out; what is reported is the request that is open.                      *)
(***************************************************************************)
EXTENDS Naturals

CONSTANTS
    Id, Tag,            \* request numbers, and what tells requests apart
    None, NoReport

VARIABLES
    open,       \* the open request of each number, or None
    report      \* the last report, or NoReport

vars == <<open, report>>

Report == [id : Id, tag : Tag, kind : {"reply", "timeout"}]

TypeOK ==
    /\ open \in [Id -> Tag \cup {None}]
    /\ report \in Report \cup {NoReport}

Init ==
    /\ open = [i \in Id |-> None]
    /\ report = NoReport

Ask(i, t) ==
    /\ open[i] = None
    /\ open' = [open EXCEPT ![i] = t]
    /\ UNCHANGED report

Close(i, kind) ==
    /\ open[i] # None
    /\ open' = [open EXCEPT ![i] = None]
    /\ report' = [id |-> i, tag |-> open[i], kind |-> kind]

Next ==
    \E i \in Id :
        \/ \E t \in Tag : Ask(i, t)
        \/ \E kind \in {"reply", "timeout"} : Close(i, kind)

Spec == Init /\ [][Next]_vars
=============================================================================
