---------------------------- MODULE SipDiversion ----------------------------
(***************************************************************************)
(* GetSIPRdPN: who a call was diverted from, and why, from the Diversion   *)
(* headers of the INVITE.  A header is a sequence of symbols: the          *)
(* characters of the number (positive), and the pieces of text the program *)
(* looks for or compares with, each one symbol.                            *)
(***************************************************************************)
EXTENDS Integers, Sequences, SequencesExt

CONSTANTS Unavailable, Busy     \* the SIP status codes 480 and 486

SIP         == -1       \* "sip:"
END         == -2       \* ";"
REASON      == -3       \* "reason="
UNAVAILABLE == -4       \* "unavailable"
USER_BUSY   == -5       \* "user-busy"
TEXT       == -6       \* any other text
CLOSE       == 3        \* ">": a character like those of the number

\* find(symbol, from): the first position, or 0 for npos, from which find finds
\* nothing.
find(h, symbol, from) ==
    IF from = 0 THEN 0
    ELSE SelectInSubSeq(h, from, Len(h), LAMBDA x : x = symbol)

\* The text between a start symbol and the next END; found tells whether both exist.
Between(h, start) ==
    LET from == find(h, start, 1)
        to   == find(h, END, from)
    IN  [found |-> from # 0 /\ to # 0, text |-> SubSeq(h, from + 1, to - 1)]

sipReasons(text) ==
    CASE text = <<UNAVAILABLE>> -> Unavailable
      [] text = <<USER_BUSY>>   -> Busy
      [] OTHER                 -> 0

NoDiversion == [result |-> FALSE, RdPN |-> <<>>, reasonCode |-> 0]

\* (variant) The first header with a number ends the loop.
OfHeaderFirst(found, h) ==
    IF found.result THEN found
    ELSE [result     |-> Between(h, SIP).found,
          RdPN       |-> IF Between(h, SIP).found THEN Between(h, SIP).text ELSE found.RdPN,
          reasonCode |-> IF Between(h, REASON).found THEN sipReasons(Between(h, REASON).text)
                         ELSE found.reasonCode]

\* One turn of the loop over the parameters of the event.
OfHeader(found, h) ==
    LET number == Between(h, SIP)
        reason == Between(h, REASON)
    IN  [result     |-> found.result \/ number.found,
         RdPN       |-> IF number.found THEN number.text ELSE found.RdPN,
         reasonCode |-> IF reason.found THEN sipReasons(reason.text) ELSE found.reasonCode]

GetSIPRdPN(headers) == FoldLeft(OfHeader, NoDiversion, headers)

-----------------------------------------------------------------------------
(* What callers send: <sip:number[;user=phone]>[;parameter]...             *)
(* (RFC 5806), and what is meant by it.                                    *)

Rendered(h) ==
    (IF h.sip THEN <<TEXT, SIP>> ELSE <<TEXT>>)
    \o h.number
    \o (IF h.uriParameter THEN <<END, TEXT, CLOSE>> ELSE <<CLOSE>>)
    \o FlattenSeq([i \in 1..Len(h.parameters) |->
           IF h.parameters[i] = TEXT THEN <<END, TEXT>> ELSE <<END, REASON, h.parameters[i]>>])

Reasons(h)  == {i \in 1..Len(h.parameters) : h.parameters[i] # TEXT}

\* The forms the program reads as they are meant: a sip URI with a parameter of its
\* own, and a reason that is not the last parameter.
Legible(h) ==
    /\ h.sip /\ h.uriParameter
    /\ Reasons(h) # {} /\ Len(h.parameters) \notin Reasons(h)

Meant(h) ==
    [result |-> TRUE, RdPN |-> h.number,
     reasonCode |-> LET i == CHOOSE i \in Reasons(h) : \A j \in Reasons(h) : i <= j
                    IN  sipReasons(<<h.parameters[i]>>)]
=============================================================================
