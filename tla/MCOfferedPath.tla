---------------------------- MODULE MCOfferedPath ----------------------------
(* Small instances of OfferedPath for TLC: numbers up to one character more   *)
(* than a length byte can tell, and the Diversion headers of RFC 5806.        *)
EXTENDS OfferedPath

CONSTANTS c1, c2

\* A number of n characters.
Digits(n) == [i \in 1..n |-> 1 + (i % 2)]

Header(sip, n, uriParameter, parameters) ==
    [sip |-> sip, number |-> Digits(n), uriParameter |-> uriParameter, parameters |-> parameters]

Parameters ==
    {<<>>, <<TEXT>>, <<USER_BUSY>>, <<UNAVAILABLE, TEXT>>, <<TEXT, USER_BUSY, TEXT>>}

Headers ==
    {Header(TRUE, n, u, ps) : n \in {1, 3, 4, 8}, u \in BOOLEAN, ps \in Parameters}
    \cup {Header(FALSE, 1, TRUE, <<USER_BUSY, TEXT>>)}

Undiverted == {[CgPN |-> Digits(n), CdPN |-> Digits(k), headers |-> <<>>] : n, k \in {0, 3}}

Diverted == {[CgPN |-> Digits(2), CdPN |-> Digits(3), headers |-> <<h>>] : h \in Headers}

DivertedTwice ==
    {[CgPN |-> Digits(2), CdPN |-> Digits(3), headers |-> <<h, g>>] : h, g \in
        {Header(TRUE, 1, TRUE, <<UNAVAILABLE, TEXT>>), Header(TRUE, 3, TRUE, <<USER_BUSY, TEXT>>),
         Header(TRUE, 2, FALSE, <<>>), Header(FALSE, 2, FALSE, <<USER_BUSY, TEXT>>),
         Header(TRUE, 2, TRUE, <<1, TEXT>>)}}       \* a reason sipReasons does not have

MCFragment == Digits(3)

MCCalls == Undiverted \cup Diverted \cup DivertedTwice

=============================================================================
