------------------------------ MODULE ScpWire ------------------------------
(***************************************************************************)
(* The bytes callserver and the SCP exchange: how callserver keeps and     *)
(* writes the numbers of a call, how the SCP reads them, and how callserver*)
(* reads a command.  A byte is 0..B-1 with B = 2 * MAX_NUMSIZE (256 and    *)
(* 128 in the code); the characters of a number are 1..MAX_NUMSIZE-1, that *)
(* is, ASCII.                                                              *)
(***************************************************************************)
EXTENDS Integers, Sequences, SequencesExt, FiniteSetsExt

CONSTANT MAX_NUMSIZE

B == 2 * MAX_NUMSIZE

Text == Seq(1..(MAX_NUMSIZE - 1))

-----------------------------------------------------------------------------
(* T_CHAN_INFO: char CgPN[MAX_NUMSIZE], CdPN[MAX_NUMSIZE], RdPN[MAX_NUMSIZE];  *)
(* int reasonCode; one after the other.                                    *)

\* strncpy(field, text, MAX_NUMSIZE): cut, or filled up with zeros.
strncpy(text) == [i \in 1..MAX_NUMSIZE |-> IF i <= Len(text) THEN text[i] ELSE 0]

IntBytes(n) == <<n % B, n \div B, 0, 0>>

Memory(call, RdPN, reasonCode) ==
    strncpy(call.CgPN) \o strncpy(call.CdPN) \o strncpy(RdPN) \o IntBytes(reasonCode)

\* The C string at an address: it ends before the first zero, wherever that is.
CString(memory, at) ==
    SubSeq(memory, at, SelectInSubSeq(memory, at, Len(memory), LAMBDA x : x = 0) - 1)

-----------------------------------------------------------------------------
(* callserver writes events. *)

OFFERED       == 0
ANSWERED      == 1
PLAY_FINISHED == 5

Two(n) == <<n % B, n \div B>>

\* (variant) The length counts the terminating zero.
PutWithEnd(text) == <<(Len(text) + 1) % B>> \o text

\* A text after its length, of which one byte is written.
Put(text) == <<Len(text) % B>> \o text

\* (variant) The diverting number is taken from the header, not from its field.
SSPEventOfferedUncut(call, RdPN, reason) ==
    LET m == Memory(call, RdPN, reason)
    IN  <<OFFERED>> \o Put(CString(m, 1)) \o Put(CString(m, MAX_NUMSIZE + 1))
        \o Put(RdPN) \o Two(reason)

SSPEventOffered(call, RdPN, reason) ==
    LET m == Memory(call, RdPN, reason)
    IN  <<OFFERED>> \o Put(CString(m, 1)) \o Put(CString(m, MAX_NUMSIZE + 1))
        \o Put(CString(m, 2 * MAX_NUMSIZE + 1)) \o Two(reason)

SSPEventAnswered == <<ANSWERED>>

SSPEventOnPlayFinished(result) == <<PLAY_FINISHED>> \o IntBytes(result)

-----------------------------------------------------------------------------
(* The SCP reads them: tests/scp_interface.py checks the length before each *)
(* read, services/scp_interface.py does not.                               *)

\* decode() of a byte above ASCII raises (a lone byte is no UTF-8), and nothing
\* catches it.
Decodes(text) == \A i \in 1..Len(text) : text[i] < MAX_NUMSIZE

Refusal(checked) == IF checked THEN "malformed" ELSE "raises"

\* One more text; state: what was read, and where to read on.
readStr(data, state, checked) ==
    LET at   == state.at
        last == at + data[at]
        text == SubSeq(data, at + 1, Min({last, Len(data)}))
    IN  CASE state.outcome # "ok"              -> state
          [] state.outcome = "ok" /\ at > Len(data) ->
                 [state EXCEPT !.outcome = Refusal(checked)]
          [] state.outcome = "ok" /\ at <= Len(data) /\ checked /\ last > Len(data) ->
                 [state EXCEPT !.outcome = "malformed"]
          [] state.outcome = "ok" /\ at <= Len(data) /\ ~(checked /\ last > Len(data)) ->
                 IF Decodes(text)
                 THEN [state EXCEPT !.texts = Append(@, text), !.at = last + 1]
                 ELSE [state EXCEPT !.outcome = "raises"]

\* The three numbers of an offered call, one after the other.
readNumbers(data, checked) ==
    LET start == [outcome |-> "ok", texts |-> <<>>, at |-> 1, reason |-> 0]
        CgPN  == readStr(data, start, checked)
        CdPN  == readStr(data, CgPN, checked)
    IN  readStr(data, CdPN, checked)

\* (variant) One byte of the reason is enough for the reader that checks.
unpackShort(data, checked) ==
    LET s == readNumbers(data, checked)
    IN  IF s.outcome # "ok" THEN s
        ELSE IF s.at > Len(data) \/ (~checked /\ s.at = Len(data))
        THEN [s EXCEPT !.outcome = Refusal(checked)]
        ELSE [s EXCEPT !.reason = data[s.at] + (IF s.at < Len(data) THEN B * data[s.at + 1] ELSE 0)]

\* EvOffered.unpack: three numbers and two bytes.
unpack(data, checked) ==
    LET s == readNumbers(data, checked)
    IN  IF s.outcome # "ok" THEN s
        ELSE IF s.at + 1 > Len(data) THEN [s EXCEPT !.outcome = Refusal(checked)]
        ELSE [s EXCEPT !.reason = data[s.at] + B * data[s.at + 1]]

-----------------------------------------------------------------------------
(* The SCP writes commands, and callserver reads them. *)

dropCall(reason)       == <<0>> \o Two(reason)
answerCall             == <<1>>
playFragment(fragment) == <<2>> \o Two(Len(fragment)) \o fragment

Word(data, at) == data[at] + B * data[at + 1]

\* SCPCommandFactory: the command a payload is.
Construct(payload) ==
    CASE payload[1] = 0 -> [command |-> "DROP", reason |-> Word(payload, 2), fragment |-> <<>>]
      [] payload[1] = 1 -> [command |-> "ANSWER", reason |-> 0, fragment |-> <<>>]
      [] payload[1] = 2 -> [command |-> "PLAY", reason |-> 0,
                            fragment |-> SubSeq(payload, 4, 3 + Word(payload, 2))]
=============================================================================
