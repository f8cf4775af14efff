----------------------------- MODULE MCSettings -----------------------------
(* A small instance of Settings for TLC: files of a few chunks, about a     *)
(* parameter of each kind, texts that can be read and texts that cannot.    *)
EXTENDS Settings

MCNumberIn(s)  == CASE s = "3" -> 3 [] s = "-5" -> -5 [] OTHER -> NoNumber
MCHasWord(s)   == s \notin {"", " "}
MCIsAddress(s) == s = "3"       \* inet_addr reads a number as an address

=============================================================================
