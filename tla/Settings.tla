------------------------------ MODULE Settings ------------------------------
(***************************************************************************)
(* How both programs start: LoadSettings reads callserver.cfg (callserver) *)
(* or params.ini (callflow), InitDialogicLibs sizes the IPT board, and     *)
(* InitChannels opens one device per channel.                              *)
(*                                                                         *)
(* fgets cuts a line at MAXPARAMSIZE - 1 characters and the rest of it is  *)
(* read as if it were a line: the model reads such chunks.  ParamName and  *)
(* ParamValue live outside the loop and keep their text from chunk to      *)
(* chunk, which shows in a chunk that does not set both.                   *)
(***************************************************************************)
EXTENDS Integers, Sequences

CONSTANTS
    Name, Value,    \* texts left and right of '=' in the file; "" is one of each
    MaxLines,       \* bound: chunks of the file
    Garbage,        \* what ParamName and ParamValue may hold before the first chunk
    NumberIn(_),    \* sscanf "%d" of a text, or NoNumber
    HasWord(_),     \* sscanf "%s" of a text succeeds
    IsAddress(_),   \* inet_addr accepts it
    NoNumber,
    MaxOther        \* bound: channels of another instance, and FirstChannel either side of 0

ASSUME SettingsAssumption ==
    /\ "" \in Name /\ "" \in Value
    /\ MaxLines \in Nat
    /\ \A v \in Value \cup Garbage : NumberIn(v) \in Int \cup {NoNumber}
    /\ NoNumber \notin Int
    /\ MaxOther \in Nat
    /\ \A v \in Value \cup Garbage : HasWord(v) \in BOOLEAN /\ IsAddress(v) \in BOOLEAN

VARIABLES
    program,        \* which of the two programs runs
    phase,          \* of main: "loading", "loaded", "libraries", "working", "exited"
    ParamName, ParamValue,
    settings,       \* the global variables
    board,          \* calls, and so IPT devices, of the virtual board
    opened,         \* the devices opened: channel -> device
    read            \* (history) the chunks read so far

vars == <<program, phase, ParamName, ParamValue, settings, board, opened, read>>

-----------------------------------------------------------------------------
(* The tables of the two programs. *)

Numeric(p) == {"ChannelsCount", "FirstChannel", "TraceMask", "SeverityFilter", "SendCallAck",
               "SendACM", "Mode"}
              \cup IF p = "callserver" THEN {"ScpPort", "IPTDevicesCount"} ELSE {}
Kept         == {"MSCIP", "CdPN", "CgPN"}   \* unreadable: the old text is kept
Defaulted(p) == {"Fragment"} \cup IF p = "callserver" THEN {"ScpIP"} ELSE {}
Address      == {"LocalIP"}

Parameters(p) == Numeric(p) \cup Kept \cup Defaulted(p) \cup Address

Zero == {"FirstChannel", "SeverityFilter", "SendCallAck", "SendACM", "Mode"}

\* What a parameter is set to when its text cannot be read.
Default(n) ==
    CASE n = "ChannelsCount"   -> 2
      [] n = "TraceMask"       -> 255
      [] n = "ScpPort"         -> 10000
      [] n = "IPTDevicesCount" -> 120
      [] n = "Fragment"        -> "hello.wav"
      [] n = "ScpIP"           -> "127.0.0.1"
      [] n \in Kept            -> ""
      [] n \in Address         -> FALSE
      [] n \in Zero            -> 0

\* What it is before the file is read: LoadSettings sets the defaults of all but
\* the zero-initialised globals, IPTDevicesCount among them.  Of LocalIP the model
\* keeps whether it is usable (not -1).
Initial(n) ==
    CASE n = "IPTDevicesCount" -> 0
      [] n \in Address         -> TRUE
      [] OTHER                 -> Default(n)

-----------------------------------------------------------------------------
(* LoadSettings. *)

\* first: it begins a line; skipped: it is shorter than three characters, or
\* begins with ';' or '#' (its text does not matter then); eq: it contains '=';
\* name: the text before '='; value: the text after it, up to the end of the line.
\* Without '=' all of the chunk is the name, the end of the line included, so that
\* it is the name of no parameter.
Chunk == {l \in [first : BOOLEAN, skipped : BOOLEAN, name : Name, eq : BOOLEAN, value : Value] :
             /\ ~l.eq => l.value = "" /\ l.name \notin Parameters("callserver")
             /\ l.skipped => ~l.eq /\ l.name = ""
             /\ l.skipped \/ l.eq \/ l.name # ""}

Init ==
    /\ program \in {"callserver", "callflow"}
    /\ phase = "loading"
    /\ ParamName \in Garbage /\ ParamValue \in Garbage
    /\ settings = [n \in Parameters(program) |-> Initial(n)]
    /\ board = 0
    /\ opened = <<>>
    /\ read = <<>>

\* fopen fails: exit(1).
NoFile ==
    /\ phase = "loading" /\ read = <<>>
    /\ phase' = "exited"
    /\ UNCHANGED <<program, ParamName, ParamValue, settings, board, opened, read>>

\* (variant) The result of sscanf is not looked at.
InterpretedRaw(p, n, s, old) ==
    CASE n \in Numeric(p)   -> NumberIn(s)
      [] n \in Defaulted(p) -> IF HasWord(s) THEN s ELSE Default(n)
      [] n \in Address      -> HasWord(s) /\ IsAddress(s)
      [] n \in Kept         -> IF HasWord(s) THEN s ELSE old

\* What parameter n of program p becomes by the text s.
Interpreted(p, n, s, old) ==
    CASE n \in Numeric(p)   -> IF NumberIn(s) # NoNumber THEN NumberIn(s) ELSE Default(n)
      [] n \in Defaulted(p) -> IF HasWord(s) THEN s ELSE Default(n)
      [] n \in Address      -> HasWord(s) /\ IsAddress(s)
      [] n \in Kept         -> IF HasWord(s) THEN s ELSE old

NameLeft(l)  == IF l.skipped \/ l.name = "" THEN ParamName ELSE l.name
ValueLeft(l) == IF l.skipped \/ ~l.eq \/ l.value = "" THEN ParamValue ELSE l.value

\* (variant) A parameter is set only while it has its initial value.
AssignsFirst(l) ==
    /\ ~l.skipped /\ l.eq
    /\ NameLeft(l) \in Parameters(program)
    /\ settings[NameLeft(l)] = Initial(NameLeft(l))
    /\ ValueLeft(l) # ""

\* FindParam finds the name of a chunk that has its '='.
Assigns(l) ==
    /\ ~l.skipped /\ l.eq
    /\ NameLeft(l) \in Parameters(program)
    /\ ValueLeft(l) # ""

ReadLine(l) ==
    /\ phase = "loading" /\ Len(read) < MaxLines
    /\ l.first \/ read # <<>>
    /\ read' = Append(read, l)
    /\ ParamName' = NameLeft(l)
    /\ ParamValue' = ValueLeft(l)
    /\ settings' = IF Assigns(l)
                   THEN [settings EXCEPT ![NameLeft(l)] =
                            Interpreted(program, NameLeft(l), ValueLeft(l), @)]
                   ELSE settings
    /\ UNCHANGED <<program, phase, board, opened>>

EndOfFile ==
    /\ phase = "loading"
    /\ phase' = "loaded"
    /\ UNCHANGED <<program, ParamName, ParamValue, settings, board, opened, read>>

-----------------------------------------------------------------------------
(* The start of the libraries and the devices. *)

IptDefault == 120       \* external: the size of a board nobody set

InitDialogicLibs ==
    /\ phase = "loaded" /\ phase' = "libraries"
    /\ board' = IF program = "callserver" THEN settings["IPTDevicesCount"]
                ELSE IF settings["ChannelsCount"] > IptDefault THEN settings["ChannelsCount"]
                ELSE IptDefault
    /\ UNCHANGED <<program, ParamName, ParamValue, settings, opened, read>>

\* C's a / 4 and a % 4, which truncate towards zero.
Quot(a) == IF a >= 0 THEN a \div 4 ELSE -((-a) \div 4)
Rem(a)  == a - 4 * Quot(a)

\* (variants) The IPT device is offset in both programs; the voice board is
\* counted from the channel's own number.
FullDevNameOffset(i, first) ==
    [ipt   |-> first + i + 1,
     ipm   |-> first + i + 1,
     voice |-> [b |-> Quot(first + i) + 1, c |-> Rem(first + i) + 1]]

FullDevNameMixed(i, first) ==
    [ipt   |-> (IF program = "callserver" THEN i ELSE first + i) + 1,
     ipm   |-> first + i + 1,
     voice |-> [b |-> Quot(i) + 1, c |-> Rem(first + i) + 1]]

\* The name ":P_SIP:N_iptB1T%d:M_ipmB1C%d:V_dxxxB%dC%d" of channel i.  The IPT
\* device is local to the process in callserver, and offset in callflow.  Nothing
\* refuses a negative FirstChannel: the numbers of its first devices are below 1.
FullDevName(i, first) ==
    [ipt   |-> (IF program = "callserver" THEN i ELSE first + i) + 1,
     ipm   |-> first + i + 1,
     voice |-> [b |-> Quot(first + i) + 1, c |-> Rem(first + i) + 1]]

OpenAll(first) == [i \in 0..(settings["ChannelsCount"] - 1) |-> FullDevName(i, first)]

InitChannels ==
    /\ phase = "libraries" /\ phase' = "working"
    /\ opened' = OpenAll(settings["FirstChannel"])
    /\ UNCHANGED <<program, ParamName, ParamValue, settings, board, read>>

Next ==
    \/ NoFile
    \/ \E l \in Chunk : ReadLine(l)
    \/ EndOfFile
    \/ InitDialogicLibs
    \/ InitChannels

Spec == Init /\ [][Next]_vars

-----------------------------------------------------------------------------
(* Properties. *)

\* Every variable keeps its type: a number stays a number whatever the file says.
TypeOK ==
    /\ program \in {"callserver", "callflow"}
    /\ phase \in {"loading", "loaded", "libraries", "working", "exited"}
    /\ ParamName \in Name \cup Garbage /\ ParamValue \in Value \cup Garbage
    /\ DOMAIN settings = Parameters(program)
    /\ \A n \in Numeric(program) : settings[n] \in Int
    /\ \A n \in Address : settings[n] \in BOOLEAN
    /\ board \in Int /\ DOMAIN opened \subseteq Nat
    /\ read \in Seq(Chunk) /\ Len(read) <= MaxLines

\* What the file says: a line that is no comment gives a parameter a text.
Gives(l, n) == l.first /\ ~l.skipped /\ l.eq /\ l.name = n /\ l.value # ""

\* A text that leaves the parameter as it was.
Refused(n, s) == n \in Kept /\ ~HasWord(s)

\* Those of the chunks of r up to j that have a text where the name stands.
Named(r, j) == {k \in 1..j : ~r[k].skipped /\ r[k].name # ""}

\* Chunk j of r is taken for an assignment to n: the last name up to it is n, its own or
\* one left behind; or there was none yet, and ParamName holds what it held.
Touches(r, j, n) ==
    /\ ~r[j].skipped /\ r[j].eq
    /\ \/ Named(r, j) = {}
       \/ \E k \in Named(r, j) : r[k].name = n /\ \A h \in Named(r, j) : h <= k

\* Each setting is what the last line that gives it says, and what no chunk touches
\* keeps its initial value.  Only a chunk that comes after the line and is taken for
\* an assignment to the same parameter disturbs it: comments cut in two, names
\* without a text, texts without a name and rests of lines that are about another
\* parameter do not, wherever they leave ParamName and ParamValue.
LastLineWins ==
    \A n \in Parameters(program) :
        /\ \A k \in 1..Len(read) :
              (/\ Gives(read[k], n) /\ ~Refused(n, read[k].value)
               /\ \A j \in (k + 1)..Len(read) : ~Touches(read, j, n))
              => settings[n] = Interpreted(program, n, read[k].value, settings[n])
        /\ settings[n] = Initial(n) \/ \E k \in 1..Len(read) : Touches(read, k, n)

\* A line with '=' that lacks the name or the text.
Incomplete(l) == l.first /\ ~l.skipped /\ l.eq /\ (l.name = "" \/ l.value = "")

\* callserver.cpp:323: "if((strlen( ParamName ) < 1) || (strlen( ParamValue ) < 1))
\* continue; // At this point we have ParanName/ParamValue pair" (callflow.cpp:462
\* alike): a line that lacks one of the two sets no parameter.
IncompleteLinesAreSkipped ==
    [][(read' # read /\ Incomplete(read'[Len(read')])) => UNCHANGED settings]_vars

\* callserver.cfg.dist:12: FirstChannel "allows to configure different device
\* ranges for multiple application instances": channels that differ use different
\* media and voice devices, also those of another instance of the program.
RangesShareNoDevice ==
    \A i \in DOMAIN opened, first \in -MaxOther..MaxOther, j \in 0..MaxOther :
        settings["FirstChannel"] + i # first + j =>
            /\ opened[i].ipm # FullDevName(j, first).ipm
            /\ opened[i].voice # FullDevName(j, first).voice

\* callserver.cfg.dist:16: "ipt devices always start from 1": the IPT devices of
\* callserver are those of its board once IPTDevicesCount covers its channels,
\* wherever its range begins; those of callflow while the range begins at 0 or above
\* and ends within the default board.
IptWithinBoard ==
    (phase = "working" /\ (IF program = "callserver"
                          THEN settings["IPTDevicesCount"] >= settings["ChannelsCount"]
                          ELSE /\ settings["FirstChannel"] >= 0
                               /\ settings["FirstChannel"] + settings["ChannelsCount"] <= IptDefault)) =>
        /\ \A i \in DOMAIN opened : opened[i].ipt \in 1..board
        /\ \A i, j \in DOMAIN opened : i # j => opened[i].ipt # opened[j].ipt

=============================================================================
