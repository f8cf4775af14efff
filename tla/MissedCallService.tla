--------------------------- MODULE MissedCallService ---------------------------
(***************************************************************************)
(* The missed-call service behind UDPRequest: one process takes a datagram *)
(* at a time (plugin_manager calls udp_server's update, which waits for    *)
(* one), replies, and records a missed call in the database, which it does *)
(* not leave before it is done:                                            *)
(*     sendResponse(DROP); checkService; addToHistory; getNotifAddresses;  *)
(*     saveSMSHistory                                                      *)
(* It has no memory of requests: one that is sent again is handled again.  *)
(***************************************************************************)
EXTENDS UdpRequest

CONSTANTS
    Missed,         \* the requests that are OFFERED events; others are echoed
    MaxErrors       \* bound: database calls that fail

ASSUME ServiceAssumption == Missed \subseteq 1..MaxSends /\ MaxErrors \in Nat

VARIABLES
    serving,        \* the missed call in hand and what is written next
    history,        \* entries made for each request
    sms,            \* notices saved for each request
    errors,         \* database calls that failed so far
    failed          \* (history) the requests in whose recording one failed

databaseVars == <<serving, history, sms, errors, failed>>
serviceVars  == <<vars, databaseVars>>

Stage == {"addToHistory", "saveSMSHistory"}
Idle  == [tag |-> NoTag, next |-> "none"]

\* The service is idle or at a stage of a missed call.
ServiceTypeOK ==
    /\ TypeOK
    /\ serving \in [tag : Missed, next : Stage] \cup {Idle}
    /\ history \in [Tag -> Nat]
    /\ sms \in [Tag -> Nat]
    /\ errors \in 0..MaxErrors
    /\ failed \subseteq Missed

ServiceInit ==
    /\ Init
    /\ serving = Idle
    /\ history = [t \in Tag |-> 0]
    /\ sms = [t \in Tag |-> 0]
    /\ errors = 0
    /\ failed = {}

-----------------------------------------------------------------------------
(* The service. *)

\* (variant) A request is taken while another is in hand, in whose place it goes.
TakeAlways(m) ==
    /\ handle(m)
    /\ serving' = IF m.tag \in Missed
                  THEN [tag |-> m.tag, next |-> "addToHistory"] ELSE Idle
    /\ UNCHANGED <<history, sms, errors, failed>>

\* update: a request is taken and answered, by DROP or by an echo of itself.
Take(m) ==
    /\ serving = Idle
    /\ handle(m)
    /\ serving' = IF m.tag \in Missed
                  THEN [tag |-> m.tag, next |-> "addToHistory"] ELSE Idle
    /\ UNCHANGED <<history, sms, errors, failed>>

\* checkService finds the subscriber's service and the call is entered.
addToHistory ==
    /\ serving.next = "addToHistory"
    /\ serving' = [serving EXCEPT !.next = "saveSMSHistory"]
    /\ history' = [history EXCEPT ![serving.tag] = @ + 1]
    /\ UNCHANGED <<vars, sms, errors, failed>>

\* getNotifAddresses finds where to send the notice and it is saved.
saveSMSHistory ==
    /\ serving.next = "saveSMSHistory"
    /\ serving' = Idle
    /\ sms' = [sms EXCEPT ![serving.tag] = @ + 1]
    /\ UNCHANGED <<vars, history, errors, failed>>

\* One of the two calls before the next entry returns 0, or raises what
\* socketserver catches: the rest is left out, what was written stays.
DatabaseFails ==
    /\ serving # Idle
    /\ errors < MaxErrors /\ errors' = errors + 1
    /\ failed' = failed \cup {serving.tag}
    /\ serving' = Idle
    /\ UNCHANGED <<vars, history, sms>>

Record == addToHistory \/ saveSMSHistory \/ DatabaseFails

Serve == Record \/ \E m \in net : Take(m)

-----------------------------------------------------------------------------
\* UDPRequest and its owner, the network and time do not touch the database.
Outside(A) == A /\ UNCHANGED databaseVars

ServiceNext ==
    \/ \E i \in ReqID : Outside(send(i))
    \/ Outside(update)
    \/ Outside(recv)
    \/ \E m \in net : Outside(Lose(m))
    \/ Outside(Tick)
    \/ Serve

ServiceSpec == ServiceInit /\ [][ServiceNext]_serviceVars

\* Both processes go on, and so does time.
ServiceFairSpec ==
    /\ ServiceSpec
    /\ WF_serviceVars(Outside(update))
    /\ WF_serviceVars(Outside(recv))
    /\ WF_serviceVars(Outside(Tick))
    /\ WF_serviceVars(Serve)

-----------------------------------------------------------------------------
(* Properties. *)

\* A request that is sent again is recorded again, and nothing but a loss makes
\* UDPRequest send it again while answers are prompt: a missed call has at most
\* one entry more than datagrams were lost, and never more than attempts.
EntriesWithinLosses ==
    \A t \in Tag : history[t] <= lost + 1 /\ history[t] <= sendAttempts

\* DROP is sent before the call is recorded: what was answered is recorded some
\* time, and its notice saved, unless the database fails in that very call: an
\* error costs no other call its entry, and no later request takes its place.
AnsweredIsRecorded ==
    \A t \in Missed :
        (report.kind = "reply" /\ report.tag = t) ~> (sms[t] > 0 \/ t \in failed)

=============================================================================
