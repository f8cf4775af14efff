--------------------------- MODULE SettingsProofs ---------------------------
(* Theorems about Settings: the settings follow the file, however long it is, and  *)
(* the devices that are opened are distinct and on the board.                      *)
EXTENDS Settings, TLAPS

\* Reading a chunk, in what it does to the settings.
LEMMA ReadLineSettings ==
    ASSUME TypeOK, NEW l \in Chunk, ReadLine(l), NEW n \in Parameters(program)
    PROVE  /\ Assigns(l) /\ n = NameLeft(l) =>
                  settings'[n] = Interpreted(program, n, ValueLeft(l), settings[n])
           /\ ~(Assigns(l) /\ n = NameLeft(l)) => settings'[n] = settings[n]
BY DEF ReadLine, TypeOK

\* What is assigned does not depend on the old value, unless the text is refused.
LEMMA InterpretedAnew ==
    ASSUME NEW p, NEW n \in Parameters(p), NEW s, ~Refused(n, s), NEW old, NEW new
    PROVE  Interpreted(p, n, s, old) = Interpreted(p, n, s, new)
<1>1. CASE n \in Numeric(p)
  BY <1>1 DEF Interpreted, Refused, Numeric, Default, Kept, Address
<1>2. CASE n \in Defaulted(p)
  BY <1>2 DEF Interpreted, Refused, Defaulted, Numeric, Default, Kept, Address
<1>3. CASE n \in Address
  BY <1>3 DEF Interpreted, Refused, Defaulted, Numeric, Address, Kept, Default
<1>4. CASE n \in Kept
  BY <1>4 DEF Interpreted, Refused, Defaulted, Numeric, Address, Kept, Default
<1> QED
  BY <1>1, <1>2, <1>3, <1>4 DEF Parameters

\* The default of a number is a number.
LEMMA DefaultNumber ==
    ASSUME NEW p, NEW n \in Numeric(p)
    PROVE  Default(n) \in Int
<1>1. n \in {"ChannelsCount", "FirstChannel", "TraceMask", "SeverityFilter", "SendCallAck",
             "SendACM", "Mode", "ScpPort", "IPTDevicesCount"}
  BY DEF Numeric
<1>2. n = "ChannelsCount" => Default(n) = 2
  BY DEF Default, Kept, Address, Zero
<1>3. n = "TraceMask" => Default(n) = 255
  BY DEF Default, Kept, Address, Zero
<1>4. n = "ScpPort" => Default(n) = 10000
  BY DEF Default, Kept, Address, Zero
<1>5. n = "IPTDevicesCount" => Default(n) = 120
  BY DEF Default, Kept, Address, Zero
<1>6. n \in Zero => Default(n) = 0
  BY DEF Default, Kept, Address, Zero
<1> QED
  BY <1>1, <1>2, <1>3, <1>4, <1>5, <1>6 DEF Zero

\* What is assigned to a number is a number, to LocalIP whether it is usable.
LEMMA InterpretedType ==
    ASSUME NEW p, NEW n \in Parameters(p), NEW s \in Value \cup Garbage, NEW old
    PROVE  /\ n \in Numeric(p) => Interpreted(p, n, s, old) \in Int
           /\ n \in Address => Interpreted(p, n, s, old) \in BOOLEAN
<1>1. CASE n \in Numeric(p)
  <2>1. Default(n) \in Int
    BY <1>1, DefaultNumber
  <2>2. Interpreted(p, n, s, old) = IF NumberIn(s) # NoNumber THEN NumberIn(s) ELSE Default(n)
    BY <1>1 DEF Interpreted, Numeric, Defaulted, Kept, Address
  <2>3. NumberIn(s) \in Int \cup {NoNumber}
    BY SettingsAssumption
  <2>4. ~(n \in Address)
    BY <1>1 DEF Numeric, Address
  <2> QED
    BY <2>1, <2>2, <2>3, <2>4
<1>2. CASE n \in Address
  BY <1>2, SettingsAssumption DEF Interpreted, Numeric, Defaulted, Address, Kept
<1> QED
  BY <1>1, <1>2

-----------------------------------------------------------------------------
\* Every variable keeps its type, whatever the file says: sscanf reads negative
\* numbers too, and a number is never left unset.
THEOREM TypeCorrect == Spec => []TypeOK
<1>1. Init => TypeOK
  <2> SUFFICES ASSUME Init PROVE TypeOK
    OBVIOUS
  <2>1. \A n \in Numeric(program) : n \in Parameters(program) /\ settings[n] \in Int
    <3>1. \A n \in Numeric(program) : n \in Parameters(program) /\ Default(n) \in Int
      BY DefaultNumber DEF Parameters
    <3>2. \A n \in Numeric(program) : n \notin Address
      BY DEF Numeric, Address
    <3>3. ASSUME NEW n \in Numeric(program) PROVE Initial(n) \in Int
      <4>1. CASE n = "IPTDevicesCount"
        BY <4>1 DEF Initial, Address
      <4>2. CASE n # "IPTDevicesCount"
        <5>1. n \notin Address
          BY <3>2
        <5>2. Initial(n) = Default(n)
          BY <4>2, <5>1 DEF Initial
        <5> QED
          BY <3>1, <5>2
      <4> QED
        BY <4>1, <4>2
    <3> QED
      BY <3>1, <3>3 DEF Init
  <2>2. \A n \in Address : settings[n] \in BOOLEAN
    BY DEF Init, Parameters, Initial, Address
  <2>3. DOMAIN settings = Parameters(program) /\ board \in Int /\ DOMAIN opened \subseteq Nat
    BY DEF Init
  <2>4. read \in Seq(Chunk) /\ Len(read) <= MaxLines
    <3>1. MaxLines \in Nat
      BY SettingsAssumption
    <3> QED
      BY <3>1 DEF Init
  <2> QED
    BY <2>1, <2>2, <2>3, <2>4 DEF Init, TypeOK
<1>2. TypeOK /\ [Next]_vars => TypeOK'
  <2> SUFFICES ASSUME TypeOK, [Next]_vars PROVE TypeOK'
    OBVIOUS
  <2>1. CASE NoFile
    BY <2>1 DEF NoFile, TypeOK
  <2>2. ASSUME NEW l \in Chunk, ReadLine(l) PROVE TypeOK'
    <3>1. NameLeft(l) \in Name \cup Garbage /\ ValueLeft(l) \in Value \cup Garbage
      BY DEF TypeOK, NameLeft, ValueLeft, Chunk
    <3>2. /\ \A n \in Numeric(program) : settings'[n] \in Int
          /\ \A n \in Address : settings'[n] \in BOOLEAN
      BY <2>2, <3>1, ReadLineSettings, InterpretedType DEF TypeOK, Parameters
    <3>3. DOMAIN settings' = Parameters(program)
      BY <2>2 DEF ReadLine, TypeOK
    <3>4. read' \in Seq(Chunk) /\ Len(read') <= MaxLines
      <4>1. read \in Seq(Chunk) /\ Len(read) < MaxLines /\ read' = Append(read, l)
        BY <2>2 DEF ReadLine, TypeOK
      <4>2. read' \in Seq(Chunk) /\ Len(read') = Len(read) + 1 /\ Len(read) \in Nat
        BY <4>1
      <4>3. MaxLines \in Nat
        BY SettingsAssumption
      <4> QED
        BY <4>1, <4>2, <4>3
    <3> QED
      BY <2>2, <3>1, <3>2, <3>3, <3>4 DEF ReadLine, TypeOK
  <2>3. CASE EndOfFile
    BY <2>3 DEF EndOfFile, TypeOK
  <2>4. CASE InitDialogicLibs
    BY <2>4 DEF InitDialogicLibs, TypeOK, IptDefault, Numeric
  <2>5. CASE InitChannels
    <3>1. settings["ChannelsCount"] \in Int
      BY DEF TypeOK, Numeric
    <3>2. DOMAIN opened' \subseteq Nat
      BY <2>5, <3>1 DEF InitChannels, OpenAll
    <3> QED
      BY <2>5, <3>2 DEF InitChannels, TypeOK
  <2>6. CASE UNCHANGED vars
    BY <2>6 DEF vars, TypeOK
  <2> QED
    BY <2>1, <2>2, <2>3, <2>4, <2>5, <2>6 DEF Next
<1> QED
  BY <1>1, <1>2, PTL DEF Spec

\* ParamName holds the last name that was read.
NameInForce ==
    Named(read, Len(read)) # {} =>
        \E k \in Named(read, Len(read)) : ParamName = read[k].name /\ \A h \in Named(read, Len(read)) : h <= k

\* Reading a chunk leaves the names of the chunks before it, and adds its own.
LEMMA NamedAppend ==
    ASSUME TypeOK, NEW l \in Chunk, ReadLine(l)
    PROVE  /\ \A j \in 0..Len(read) : Named(read', j) = Named(read, j)
           /\ Named(read', Len(read) + 1) =
                 Named(read, Len(read)) \cup IF ~l.skipped /\ l.name # "" THEN {Len(read) + 1} ELSE {}
<1> DEFINE m == Len(read)
<1>1. read \in Seq(Chunk) /\ read' = Append(read, l)
  BY DEF ReadLine, TypeOK
<1>2. m \in Nat /\ read'[m + 1] = l /\ \A k \in 1..m : read'[k] = read[k]
  BY <1>1
<1> HIDE DEF m
<1>3. ASSUME NEW j \in 0..m PROVE Named(read', j) = Named(read, j)
  <2>1. \A k \in 1..j : read'[k] = read[k]
    BY <1>2, <1>3
  <2> QED
    BY <2>1 DEF Named
<1>4. Named(read', m + 1) = Named(read, m) \cup IF ~l.skipped /\ l.name # "" THEN {m + 1} ELSE {}
  <2>1. 1..(m + 1) = (1..m) \cup {m + 1}
    BY <1>2
  <2> QED
    BY <1>2, <2>1 DEF Named
<1> QED
  BY <1>3, <1>4 DEF m

\* The name in force after a chunk is the last one up to it.
LEMMA NameStaysInForce ==
    ASSUME TypeOK, NameInForce, NEW l \in Chunk, ReadLine(l)
    PROVE  NameInForce'
<1> DEFINE m == Len(read)
<1>1. /\ read \in Seq(Chunk) /\ read' = Append(read, l)
      /\ ParamName' = NameLeft(l)
  BY DEF ReadLine, TypeOK
<1>2. m \in Nat /\ Len(read') = m + 1 /\ read'[m + 1] = l /\ \A k \in 1..m : read'[k] = read[k]
  BY <1>1
<1>3. Named(read', m + 1) = Named(read, m) \cup IF ~l.skipped /\ l.name # "" THEN {m + 1} ELSE {}
  BY NamedAppend
<1>4. Named(read, m) \subseteq 1..m
  BY DEF Named
<1>5. Named(read', Len(read')) = Named(read', m + 1)
  BY <1>2 DEF Named
<1>6. CASE ~l.skipped /\ l.name # ""
  <2>1. m + 1 \in Named(read', m + 1) /\ \A h \in Named(read', m + 1) : h <= m + 1
    <3>1. \A h \in 1..m : h <= m + 1
      BY <1>2
    <3>2. Named(read', m + 1) = Named(read, m) \cup {m + 1}
      BY <1>3, <1>6
    <3>3. m + 1 <= m + 1
      BY <1>2
    <3> HIDE DEF m
    <3> QED
      BY <1>4, <3>1, <3>2, <3>3
  <2>2. ParamName' = read'[m + 1].name
    BY <1>1, <1>2, <1>6 DEF NameLeft
  <2> HIDE DEF m
  <2> QED
    BY <1>5, <2>1, <2>2 DEF NameInForce
<1>7. CASE l.skipped \/ l.name = ""
  <2>1. Named(read', m + 1) = Named(read, m) /\ ParamName' = ParamName
    BY <1>1, <1>3, <1>7 DEF NameLeft
  <2>2. ASSUME Named(read, m) # {}
        PROVE  \E k \in Named(read, m) : ParamName' = read'[k].name /\ \A h \in Named(read, m) : h <= k
    <3>1. PICK k \in Named(read, m) : ParamName = read[k].name /\ \A h \in Named(read, m) : h <= k
      BY <2>2 DEF NameInForce
    <3>2. read'[k] = read[k]
      BY <1>2, <1>4
    <3> QED
      BY <2>1, <3>1, <3>2
  <2> HIDE DEF m
  <2> QED
    BY <1>5, <2>1, <2>2 DEF NameInForce
<1> QED
  BY <1>6, <1>7

\* A chunk that does not touch a parameter leaves it alone.
LEMMA UntouchedIsKept ==
    ASSUME TypeOK, NameInForce, NEW l \in Chunk, ReadLine(l), NEW n \in Parameters(program),
           ~Touches(read', Len(read) + 1, n)
    PROVE  settings'[n] = settings[n]
<1> DEFINE m == Len(read)
<1>1. read \in Seq(Chunk) /\ read' = Append(read, l)
  BY DEF ReadLine, TypeOK
<1>2. m \in Nat /\ read'[m + 1] = l /\ \A k \in 1..m : read'[k] = read[k]
  BY <1>1
<1>3. Named(read', m + 1) = Named(read, m) \cup IF ~l.skipped /\ l.name # "" THEN {m + 1} ELSE {}
  BY NamedAppend
<1>4. Named(read, m) \subseteq 1..m
  BY DEF Named
<1>5. ~l.skipped /\ l.eq =>
          /\ Named(read', m + 1) # {}
          /\ \A k \in Named(read', m + 1) : read'[k].name = n => ~(\A h \in Named(read', m + 1) : h <= k)
  BY <1>2 DEF Touches
<1>6. ASSUME ~l.skipped, l.eq, NameLeft(l) = n PROVE FALSE
  <2>1. CASE l.name # ""
    <3>1. m + 1 \in Named(read', m + 1) /\ (\A h \in Named(read', m + 1) : h <= m + 1) /\ read'[m + 1].name = n
      <4>1. \A h \in 1..m : h <= m + 1
        BY <1>2
      <4>2. Named(read', m + 1) = Named(read, m) \cup {m + 1} /\ l.name = n
        BY <1>3, <1>6, <2>1 DEF NameLeft
      <4> QED
        BY <1>2, <1>4, <4>1, <4>2
    <3> HIDE DEF m
    <3> QED
      BY <1>5, <1>6, <3>1
  <2>2. CASE l.name = ""
    <3>1. Named(read', m + 1) = Named(read, m) /\ ParamName = n
      BY <1>3, <1>6, <2>2 DEF NameLeft
    <3>2. PICK k \in Named(read, m) : ParamName = read[k].name /\ \A h \in Named(read, m) : h <= k
      BY <1>5, <1>6, <3>1 DEF NameInForce
    <3>3. read'[k].name = n
      BY <1>2, <1>4, <3>1, <3>2
    <3> HIDE DEF m
    <3> QED
      BY <1>5, <1>6, <3>1, <3>2, <3>3
  <2> QED
    BY <2>1, <2>2
<1>7. ~(Assigns(l) /\ n = NameLeft(l))
  BY <1>6 DEF Assigns
<1> QED
  BY <1>7, ReadLineSettings

\* What the file says reaches the settings: TLC's LastLineWins for files of any
\* length and any texts.
THEOREM FileIsFollowed == Spec => []LastLineWins
<1>1. Init => LastLineWins /\ NameInForce
  BY DEF Init, LastLineWins, NameInForce, Named
<1>2. TypeOK /\ TypeOK' /\ LastLineWins /\ NameInForce /\ [Next]_vars =>
          LastLineWins' /\ NameInForce'
  <2> SUFFICES ASSUME TypeOK, TypeOK', LastLineWins, NameInForce, [Next]_vars
               PROVE  LastLineWins' /\ NameInForce'
    OBVIOUS
  <2>1. CASE UNCHANGED <<program, settings, read, ParamName>>
    BY <2>1 DEF LastLineWins, NameInForce
  <2>2. ASSUME NEW l \in Chunk, ReadLine(l) PROVE LastLineWins'
    <3>1. program' = program /\ read \in Seq(Chunk) /\ read' = Append(read, l)
      BY <2>2 DEF ReadLine, TypeOK
    <3> DEFINE m == Len(read)
    <3>2. /\ Len(read') = m + 1 /\ m \in Nat /\ read'[m + 1] = l
          /\ \A k \in 1..m : read'[k] = read[k]
      BY <3>1
    <3>3. \A n \in Parameters(program) : ~Touches(read', m + 1, n) => settings'[n] = settings[n]
      BY <2>2, UntouchedIsKept
    <3>4. \A j \in 1..m, n \in Parameters(program) : Touches(read', j, n) = Touches(read, j, n)
      <4>1. \A j \in 1..m : Named(read', j) = Named(read, j)
        <5>1. \A j \in 0..Len(read) : Named(read', j) = Named(read, j)
          BY <2>2, NamedAppend
        <5> QED
          BY <3>2, <5>1
      <4> HIDE DEF m
      <4>2. ASSUME NEW j \in 1..m, NEW k \in Named(read, j) PROVE read'[k] = read[k]
        <5>1. k \in 1..j
          BY DEF Named
        <5>2. k \in 1..m
          BY <3>2, <5>1
        <5> QED
          BY <3>2, <5>2
      <4> QED
        BY <3>2, <4>1, <4>2 DEF Touches
    <3> HIDE DEF m
    <3>5. ASSUME NEW n \in Parameters(program), Gives(l, n), ~Refused(n, l.value)
          PROVE  settings'[n] = Interpreted(program, n, l.value, settings'[n])
      <4>1. n # ""
        BY DEF Parameters, Numeric, Kept, Defaulted, Address
      <4>2. Assigns(l) /\ n = NameLeft(l) /\ ValueLeft(l) = l.value
        BY <3>5, <4>1 DEF Gives, Assigns, NameLeft, ValueLeft, Chunk
      <4> QED
        BY <2>2, <3>1, <3>5, <4>2, ReadLineSettings, InterpretedAnew
    <3>6. ASSUME NEW n \in Parameters(program), NEW k \in 1..(m + 1),
                 Gives(read'[k], n), ~Refused(n, read'[k].value),
                 \A j \in (k + 1)..(m + 1) : ~Touches(read', j, n)
          PROVE  settings'[n] = Interpreted(program, n, read'[k].value, settings'[n])
      <4>1. CASE k = m + 1
        BY <3>2, <3>5, <3>6, <4>1
      <4>2. CASE k \in 1..m
        <5>1. \A j \in (k + 1)..m : ~Touches(read, j, n)
          BY <3>2, <3>4, <3>6, <4>2
        <5>2. read'[k] = read[k]
          BY <3>2, <4>2
        <5>3. settings[n] = Interpreted(program, n, read[k].value, settings[n])
          BY <3>6, <4>2, <5>1, <5>2 DEF LastLineWins, m
        <5>4. settings'[n] = settings[n]
          BY <3>2, <3>3, <3>6, <4>2
        <5> QED
          BY <5>2, <5>3, <5>4
      <4> QED
        BY <3>2, <4>1, <4>2
    <3>7. ASSUME NEW n \in Parameters(program), \A k \in 1..(m + 1) : ~Touches(read', k, n)
          PROVE  settings'[n] = Initial(n)
      <4>1. \A k \in 1..m : ~Touches(read, k, n)
        BY <3>2, <3>4, <3>7
      <4>2. settings[n] = Initial(n)
        BY <4>1 DEF LastLineWins, m
      <4> QED
        BY <3>2, <3>3, <3>7, <4>2
    <3> QED
      BY <3>1, <3>2, <3>6, <3>7 DEF LastLineWins
  <2>3. ASSUME NEW l \in Chunk, ReadLine(l) PROVE NameInForce'
    BY <2>3, NameStaysInForce
  <2> QED
    BY <2>1, <2>2, <2>3 DEF Next, NoFile, EndOfFile, InitDialogicLibs, InitChannels, vars
<1> QED
  BY <1>1, <1>2, TypeCorrect, PTL DEF Spec

-----------------------------------------------------------------------------
\* A channel number is its board and its place on the board.
LEMMA VoiceIsChannel ==
    ASSUME NEW a \in Int, NEW b \in Int, Quot(a) = Quot(b), Rem(a) = Rem(b)
    PROVE  a = b
<1>1. Quot(a) \in Int /\ Quot(b) \in Int
  BY DEF Quot
<1>2. a - 4 * Quot(a) = b - 4 * Quot(b)
  BY DEF Rem
<1> QED
  BY <1>1, <1>2

\* Instances whose channels differ use different devices, wherever their ranges
\* begin, below 0 too, and however many channels they have.
THEOREM DevicesAreDistinct == Spec => []RangesShareNoDevice
<1> DEFINE Open == /\ phase # "working" => opened = <<>>
                   /\ phase = "working" => opened = OpenAll(settings["FirstChannel"])
<1>1. Init => Open
  BY DEF Init
<1>2. Open /\ [Next]_vars => Open'
  BY DEF Next, NoFile, ReadLine, EndOfFile, InitDialogicLibs, InitChannels, vars, OpenAll, FullDevName
<1>3. TypeOK /\ Open => RangesShareNoDevice
  <2> SUFFICES ASSUME TypeOK, Open,
                      NEW i \in DOMAIN opened, NEW first \in -MaxOther..MaxOther, NEW j \in 0..MaxOther,
                      settings["FirstChannel"] + i # first + j
               PROVE  /\ opened[i].ipm # FullDevName(j, first).ipm
                      /\ opened[i].voice # FullDevName(j, first).voice
    BY DEF RangesShareNoDevice
  <2> DEFINE f == settings["FirstChannel"]
  <2>1. f \in Int
    BY DEF TypeOK, Numeric
  <2>2. MaxOther \in Nat
    BY SettingsAssumption
  <2>3. i \in Nat /\ opened[i] = FullDevName(i, f)
    <3>1. settings["ChannelsCount"] \in Int
      BY DEF TypeOK, Numeric
    <3>2. opened = OpenAll(f)
      BY DEF TypeOK
    <3> QED
      BY <3>1, <3>2 DEF OpenAll
  <2>4. f + i \in Int /\ first + j \in Int
    BY <2>1, <2>2, <2>3
  <2>5. ~(Quot(f + i) = Quot(first + j) /\ Rem(f + i) = Rem(first + j))
    BY <2>4, VoiceIsChannel
  <2> HIDE DEF f
  <2>6. opened[i].ipm # FullDevName(j, first).ipm
    <3>1. f + i + 1 # first + j + 1
      BY <2>1, <2>2, <2>3 DEF f
    <3> QED
      BY <2>3, <3>1 DEF FullDevName
  <2>7. opened[i].voice # FullDevName(j, first).voice
    <3>1. /\ Quot(f + i) \in Int /\ Quot(first + j) \in Int
          /\ Rem(f + i) \in Int /\ Rem(first + j) \in Int
      BY <2>4 DEF Quot, Rem
    <3>2. Quot(f + i) + 1 # Quot(first + j) + 1 \/ Rem(f + i) + 1 # Rem(first + j) + 1
      BY <2>5, <3>1
    <3> QED
      BY <2>3, <3>2 DEF FullDevName
  <2> QED
    BY <2>6, <2>7
<1> QED
  BY <1>1, <1>2, <1>3, TypeCorrect, PTL DEF Spec

\* The IPT devices callserver opens are those of its board, each once, if the board was
\* configured for its channels; so are callflow's, while its range begins at 0 or above
\* and ends within the default board.  For any range, a negative one too, and not only
\* for the numbers a file was tried with.
THEOREM BoardCoversChannels == Spec => []IptWithinBoard
<1> DEFINE Sized == phase \in {"libraries", "working"} =>
                        board = IF program = "callserver" THEN settings["IPTDevicesCount"]
                                ELSE IF settings["ChannelsCount"] > IptDefault
                                     THEN settings["ChannelsCount"] ELSE IptDefault
           Open == phase = "working" => opened = OpenAll(settings["FirstChannel"])
<1>1. Init => Sized /\ Open
  BY DEF Init
<1>2. Sized /\ Open /\ [Next]_vars => (Sized /\ Open)'
  <2> SUFFICES ASSUME Sized, Open, [Next]_vars PROVE (Sized /\ Open)'
    OBVIOUS
  <2>1. CASE phase' = "loading" \/ phase' = "loaded" \/ phase' = "exited"
    BY <2>1
  <2>2. CASE InitDialogicLibs
    BY <2>2 DEF InitDialogicLibs
  <2>3. CASE InitChannels
    BY <2>3 DEF InitChannels, OpenAll, FullDevName
  <2>4. CASE UNCHANGED vars
    BY <2>4 DEF vars, OpenAll, FullDevName
  <2>5. QED
    BY <2>1, <2>2, <2>3, <2>4 DEF Next, NoFile, ReadLine, EndOfFile
<1>3. TypeOK /\ Sized /\ Open => IptWithinBoard
  <2> DEFINE n == settings["ChannelsCount"]
             f == settings["FirstChannel"]
             Covered == IF program = "callserver" THEN settings["IPTDevicesCount"] >= n
                        ELSE f >= 0 /\ f + n <= IptDefault
  <2> SUFFICES ASSUME TypeOK, Sized, Open, phase = "working", Covered
               PROVE  /\ \A i \in DOMAIN opened : opened[i].ipt \in 1..board
                      /\ \A i, j \in DOMAIN opened : i # j => opened[i].ipt # opened[j].ipt
    BY DEF IptWithinBoard
  <2>1. n \in Int /\ f \in Int
    BY DEF TypeOK, Numeric
  <2>2. program = "callserver" => settings["IPTDevicesCount"] \in Int
    BY DEF TypeOK, Numeric
  <2>3. /\ DOMAIN opened = 0..(n - 1)
        /\ \A i \in 0..(n - 1) :
              opened[i].ipt = (IF program = "callserver" THEN i ELSE f + i) + 1
    BY DEF OpenAll, FullDevName
  <2>4. board \in Int /\ IF program = "callserver" THEN board >= n ELSE f >= 0 /\ f + n <= board
    BY <2>1, <2>2 DEF IptDefault
  <2> HIDE DEF n, f
  <2>5. \A i \in 0..(n - 1) :
            (IF program = "callserver" THEN i ELSE f + i) + 1 \in 1..board
    BY <2>1, <2>4
  <2>6. \A i, j \in 0..(n - 1) : i # j =>
            (IF program = "callserver" THEN i ELSE f + i) + 1
                # (IF program = "callserver" THEN j ELSE f + j) + 1
    BY <2>1
  <2>7. QED
    BY <2>3, <2>5, <2>6
<1>4. QED
  BY <1>1, <1>2, <1>3, TypeCorrect, PTL DEF Spec

=============================================================================
