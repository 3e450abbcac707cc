---------------------------- MODULE DeviceProofs ----------------------------
(***************************************************************************)
(* What class Eeprom, class PicoSW, the sensors and the drivers under      *)
(* src/uart promise, for every page size, every delay, every number of     *)
(* buttons, every width of a register and every capacity, FIFO depth and   *)
(* trigger level.  The parts share nothing but this module.                *)
(***************************************************************************)
EXTENDS PicoSW, Eeprom, Sensors, RingBuffer, PicoUart, SequenceTheorems,
        FiniteSetTheorems, TLAPS

-----------------------------------------------------------------------------
(* The sensors.  A reading is fresh from the step that reads it on; the    *)
(* high half is or-ed into a member that the low half has just cleared.    *)

\* The registers an update() has read before its step k: all four when the
\* next update() begins.
ReadBefore(k) ==
  IF k = 1 THEN Registers ELSE {Order[i] : i \in 1..(k - 1)}

SensorTypeOK ==
  /\ device \in [Registers -> Values] /\ member \in [Registers -> Values]
  /\ held \in [Registers -> SUBSET Values]
  /\ step \in 1..4 /\ ring \in {"clean", "late"} /\ trusted \in BOOLEAN

SensorInv ==
  /\ SensorTypeOK
  /\ \A r \in Registers : device[r] \in held[r]
  /\ trusted => \A r \in ReadBefore(step) : member[r] \in held[r] \cup {{}}
  /\ step = 2 => member[<<1, "high">>] = {}
  /\ step = 4 => member[<<2, "high">>] = {}

\* The four registers, in the order update() reads them.
LEMMA FourRegisters ==
  /\ Registers = {<<1, "low">>, <<1, "high">>, <<2, "low">>, <<2, "high">>}
  /\ Order[1] = <<1, "low">> /\ Order[2] = <<1, "high">>
  /\ Order[3] = <<2, "low">> /\ Order[4] = <<2, "high">>
  /\ \A r \in Registers : <<r[1], "high">> \in Registers
<1>1. 1..4 = {1, 2, 3, 4}
  OBVIOUS
<1>2. /\ Order[1] = <<1, "low">> /\ Order[2] = <<1, "high">>
      /\ Order[3] = <<2, "low">> /\ Order[4] = <<2, "high">>
  BY DEF Order
<1>3. Registers = {<<1, "low">>, <<1, "high">>, <<2, "low">>, <<2, "high">>}
  BY <1>1, <1>2 DEF Registers
<1> QED
  BY <1>2, <1>3

\* What update() has read before each of its four steps.
LEMMA ReadSoFar ==
  /\ ReadBefore(1) = Registers
  /\ ReadBefore(2) = {<<1, "low">>}
  /\ ReadBefore(3) = {<<1, "low">>, <<1, "high">>}
  /\ ReadBefore(4) = {<<1, "low">>, <<1, "high">>, <<2, "low">>}
<1>1. 1..1 = {1} /\ 1..2 = {1, 2} /\ 1..3 = {1, 2, 3}
  OBVIOUS
<1>2. ReadBefore(2) = {Order[1]}
  BY <1>1 DEF ReadBefore
<1>3. ReadBefore(3) = {Order[1], Order[2]}
  BY <1>1 DEF ReadBefore
<1>4. ReadBefore(4) = {Order[1], Order[2], Order[3]}
  BY <1>1 DEF ReadBefore
<1> QED
  BY <1>2, <1>3, <1>4, FourRegisters DEF ReadBefore

\* The values update() starts with are the empty ones of the device.
LEMMA SensorInvInit == SensorInit => SensorInv
<1> SUFFICES ASSUME SensorInit PROVE SensorInv
  OBVIOUS
<1>1. {} \in Values
  BY DEF Values
<1>2. SensorTypeOK
  BY <1>1 DEF SensorInit, SensorTypeOK
<1>3. ReadBefore(step) = Registers
  BY ReadSoFar DEF SensorInit
<1> QED
  BY <1>2, <1>3 DEF SensorInit, SensorInv

\* A transaction that is trusted stores what the register holds, or nothing.
LEMMA SensorTransaction ==
  ASSUME SensorInv, NEW v \in Values, NEW trust \in BOOLEAN,
         Transaction(v, trust), ring' \in {"clean", "late"},
         trust => v \in {device[Order[step]], {}}
  PROVE  SensorInv'
<1> USE DEF SensorInv
<1>1. member' \in [Registers -> Values]
  BY FourRegisters DEF Transaction, Stored, SensorTypeOK, Values
<1>2. SensorTypeOK'
  BY <1>1, FourRegisters DEF SensorTypeOK, Transaction, NextStep
<1>3. \A r \in Registers : (device[r] \in held[r])'
  BY DEF Transaction, SensorTypeOK
<1>4. CASE step = 1
  <2>1. step' = 2 /\ member'[<<1, "low">>] = v /\ member'[<<1, "high">>] = {}
    BY <1>4, FourRegisters
    DEF SensorTypeOK, Transaction, NextStep, Stored
  <2>2. (trusted' => trust) /\ held'[<<1, "low">>] = {device[<<1, "low">>]}
    BY <1>4, FourRegisters DEF Transaction
  <2> QED
    BY <1>2, <1>3, <1>4, <2>1, <2>2, FourRegisters, ReadSoFar
<1>a. step # 1 => held' = held
  BY DEF Transaction
<1>b. {} \cup v = v /\ Order[step] \in Registers
  BY FourRegisters DEF SensorTypeOK
<1>c. step # 1 /\ trusted' =>
        \A r \in ReadBefore(step) : member[r] \in held[r] \cup {{}}
  BY DEF Transaction
<1>d. trusted' => v \in held[Order[step]] \cup {{}}
  BY <1>b DEF Transaction
<1> HIDE DEF SensorInv
<1>5. CASE step = 2
  <2>1. /\ step' = 3 /\ member'[<<1, "high">>] = v
        /\ member'[<<1, "low">>] = member[<<1, "low">>]
    BY <1>5, <1>b, FourRegisters
    DEF SensorTypeOK, SensorInv, Transaction, NextStep, Stored
  <2>2. held' = held /\ (trusted' => v \in held[<<1, "high">>] \cup {{}})
    BY <1>5, <1>a, <1>d, FourRegisters
  <2>3. trusted' => member[<<1, "low">>] \in held[<<1, "low">>] \cup {{}}
    BY <1>5, <1>c, ReadSoFar
  <2>4. ReadBefore(step') = {<<1, "low">>, <<1, "high">>}
    BY <2>1, ReadSoFar
  <2> QED
    BY <1>2, <1>3, <2>1, <2>2, <2>3, <2>4 DEF SensorInv
<1>6. CASE step = 3
  <2>1. /\ step' = 4 /\ member'[<<2, "low">>] = v
        /\ member'[<<2, "high">>] = {}
        /\ member'[<<1, "low">>] = member[<<1, "low">>]
        /\ member'[<<1, "high">>] = member[<<1, "high">>]
    BY <1>6, FourRegisters
    DEF SensorTypeOK, SensorInv, Transaction, NextStep, Stored
  <2>2. held' = held /\ (trusted' => v \in held[<<2, "low">>] \cup {{}})
    BY <1>6, <1>a, <1>d, FourRegisters
  <2>3. trusted' =>
          /\ member[<<1, "low">>] \in held[<<1, "low">>] \cup {{}}
          /\ member[<<1, "high">>] \in held[<<1, "high">>] \cup {{}}
    BY <1>6, <1>c, ReadSoFar
  <2>4. ReadBefore(step') = {<<1, "low">>, <<1, "high">>, <<2, "low">>}
    BY <2>1, ReadSoFar
  <2> QED
    BY <1>2, <1>3, <2>1, <2>2, <2>3, <2>4 DEF SensorInv
<1>7. CASE step = 4
  <2>1. /\ step' = 1 /\ member'[<<2, "high">>] = v
        /\ member'[<<1, "low">>] = member[<<1, "low">>]
        /\ member'[<<1, "high">>] = member[<<1, "high">>]
        /\ member'[<<2, "low">>] = member[<<2, "low">>]
    BY <1>7, <1>b, FourRegisters
    DEF SensorTypeOK, SensorInv, Transaction, NextStep, Stored
  <2>2. held' = held /\ (trusted' => v \in held[<<2, "high">>] \cup {{}})
    BY <1>7, <1>a, <1>d, FourRegisters
  <2>3. trusted' =>
          /\ member[<<1, "low">>] \in held[<<1, "low">>] \cup {{}}
          /\ member[<<1, "high">>] \in held[<<1, "high">>] \cup {{}}
          /\ member[<<2, "low">>] \in held[<<2, "low">>] \cup {{}}
    BY <1>7, <1>c, ReadSoFar
  <2>4. ReadBefore(step') =
          {<<1, "low">>, <<1, "high">>, <<2, "low">>, <<2, "high">>}
    BY <2>1, ReadSoFar, FourRegisters
  <2> QED
    BY <1>2, <1>3, <2>1, <2>2, <2>3, <2>4 DEF SensorInv
<1> QED
  BY <1>4, <1>5, <1>6, <1>7 DEF SensorTypeOK, SensorInv

\* Measuring adds to what a register has held; the rest are transactions.
LEMMA SensorInvStep == SensorInv /\ [SensorNext]_sensorVars => SensorInv'
<1> SUFFICES ASSUME SensorInv, [SensorNext]_sensorVars PROVE SensorInv'
  OBVIOUS
<1>0. /\ {} \in Values /\ Order[step] \in Registers
      /\ device[Order[step]] \in Values
  BY FourRegisters DEF Values, SensorInv, SensorTypeOK
<1>1. CASE Measure
  <2>1. device' \in [Registers -> Values]
    BY <1>1 DEF Measure, SensorInv, SensorTypeOK
  <2>2. \A r \in Registers : held'[r] = held[r] \cup {device'[r]}
    BY <1>1 DEF Measure
  <2>3. SensorTypeOK'
    BY <1>1, <2>1 DEF Measure, SensorInv, SensorTypeOK
  <2>4. ReadBefore(step) \subseteq Registers
    BY FourRegisters, ReadSoFar DEF SensorInv, SensorTypeOK
  <2> QED
    BY <1>1, <2>2, <2>3, <2>4 DEF Measure, SensorInv
<1>2. CASE Answered
  BY <1>0, <1>2, SensorTransaction DEF Answered, SensorInv, SensorTypeOK
<1>3. CASE TimedOut
  <2>1. ring' \in {"clean", "late"}
    BY <1>3 DEF TimedOut, SensorInv, SensorTypeOK
  <2> QED
    BY <1>0, <1>3, <2>1, SensorTransaction DEF TimedOut
<1>4. CASE Damaged
  <2>1. ring' \in {"clean", "late"}
    BY <1>4 DEF Damaged, SensorInv, SensorTypeOK
  <2> QED
    BY <1>4, <2>1, SensorTransaction DEF Damaged
<1>5. CASE Shifted
  BY <1>5, SensorTransaction DEF Shifted
<1>6. CASE UNCHANGED sensorVars
  BY <1>6 DEF sensorVars, SensorInv, SensorTypeOK
<1> QED
  BY <1>1, <1>2, <1>3, <1>4, <1>5, <1>6 DEF SensorNext

\* The halves update() leaves behind were in their registers while it ran, or
\* are 0: the or-ed high half never keeps a bit of an earlier reading.
THEOREM SensorsAreFresh == SensorSpec => []ReadingIsFresh
<1>1. SensorInv => ReadingIsFresh
  BY ReadSoFar DEF SensorInv, ReadingIsFresh
<1> QED
  BY <1>1, SensorInvInit, SensorInvStep, PTL DEF SensorSpec
-----------------------------------------------------------------------------
(* The EEPROM.  Holds(image, table) says that the strings of table stand   *)
(* in image, each ended by a NUL in its own page.  Between two steps the   *)
(* device holds the table before the latest write() while its cycle lasts  *)
(* and the table after it once the cycle is over, and a transfer finds     *)
(* the device ready and the address bytes set for the call it serves.      *)

\* The strings a handler writes: they leave room for their NUL.
Texts == {s \in Seq(Chars) : Len(s) <= PageSize - 3}
EepromCalls == [op : {"write", "read"}, addr : Addresses, s : Texts]

StandsAt(image, a, s) ==
  \/ s = NoString /\ \A n \in 0..(PageSize - 3) : image[a + n] # NUL
  \/ /\ s \in Texts /\ image[a + Len(s)] = NUL
     /\ \A i \in 1..Len(s) : image[a + i - 1] = s[i]
Holds(image, table) == \A a \in Addresses : StandsAt(image, a, table[a])

CallUnderWay ==
  /\ stage \in {"wait", "transfer"} =>
       todo # <<>> /\ Address = Head(todo).addr
  /\ stage = "transfer" => ~busy

DeviceHolds ==
  /\ Holds(cycle, after)
  /\ IF busy THEN Holds(mem, before) ELSE mem = cycle

EepromInv ==
  /\ EepromTypeOK /\ todo \in Seq(EepromCalls)
  /\ got \in [addr : Addresses, s : Strings]
  /\ CallUnderWay /\ DeviceHolds /\ ReadsBack

\* The six registers of the program.
LEMMA SixAddresses ==
  /\ Addresses = {0, PageSize, 2 * PageSize, 3 * PageSize, 4 * PageSize,
                  5 * PageSize}
  /\ \A a \in Addresses : a \in Nat /\ a + PageSize <= 6 * PageSize
  /\ \A a, b \in Addresses :
       a # b => a + PageSize <= b \/ b + PageSize <= a
<1>1. 0..5 = {0, 1, 2, 3, 4, 5}
  OBVIOUS
<1>2. PageSize \in Nat
  BY EepromAssumption
<1>3. Addresses = {0 * PageSize, 1 * PageSize, 2 * PageSize, 3 * PageSize,
                   4 * PageSize, 5 * PageSize}
  BY <1>1 DEF Addresses
<1> QED
  BY <1>2, <1>3

\* A byte of a page has its place in the device.
LEMMA PageCells ==
  ASSUME NEW a \in Addresses, NEW n \in 0..(PageSize - 1)
  PROVE  a + n \in Cells
BY SixAddresses, EepromAssumption DEF Cells

\* The page of a register begins at the register, and offsets in it do not
\* wrap.
LEMMA PageOf ==
  ASSUME NEW a \in Addresses
  PROVE  /\ (a \div PageSize) * PageSize = a
         /\ \A n \in 0..(PageSize - 1) : n % PageSize = n
<1>1. PageSize \in Nat \ {0}
  BY EepromAssumption
<1>2. PICK i \in 0..5 : a = i * PageSize
  BY DEF Addresses
<1>3. (i * PageSize) \div PageSize = i
  BY <1>1
<1>4. \A n \in 0..(PageSize - 1) : n % PageSize = n
  BY <1>1
<1> QED
  BY <1>2, <1>3, <1>4

\* The two bytes of an address give it back.
LEMMA AddressBytes ==
  ASSUME NEW a \in Addresses
  PROVE  /\ a \div ByteBase \in 0..(ByteBase - 1)
         /\ LowByte(a) \in 0..(ByteBase - 1)
         /\ (a \div ByteBase) * ByteBase + LowByte(a) = a
<1>1. ByteBase \in Nat \ {0} /\ PageSize \in Nat \ {0}
  BY EepromAssumption
<1>2. a \in Nat /\ a < ByteBase * ByteBase
  BY <1>1, SixAddresses, EepromAssumption
<1> DEFINE q == a \div ByteBase
           r == a % ByteBase
<1>3. q \in Int /\ r \in 0..(ByteBase - 1) /\ a = q * ByteBase + r
  BY <1>1, <1>2
<1>4. q >= 0
  BY <1>1, <1>2
<1>5. q < ByteBase
  BY <1>1, <1>2, <1>3
<1>6. q \in 0..(ByteBase - 1)
  BY <1>1, <1>3, <1>4, <1>5
<1>7. LowByte(a) = r
  BY DEF LowByte
<1> QED
  BY <1>3, <1>6, <1>7, Zenon

\* Strings of characters are never the mark of a missing string.
LEMMA TextIsString ==
  /\ Texts \subseteq Strings /\ NoString \in Strings /\ NoString \notin Texts
  /\ <<>> \in Texts /\ Modes \cup Targets \subseteq Texts
<1>1. NoString \notin Seq(Chars)
  <2> SUFFICES ASSUME NoString \in Seq(Chars) PROVE FALSE
    OBVIOUS
  <2>1. Len(NoString) = 1 /\ NoString[1] = NUL
    BY DEF NoString
  <2> QED
    BY <2>1, EepromAssumption
<1> QED
  BY <1>1, EepromAssumption DEF Texts, Strings

\* read() finds the string that stands at an address.
LEMMA StringStands ==
  ASSUME mem \in [Cells -> EepromBytes], NEW a \in Addresses, NEW s,
         StandsAt(mem, a, s)
  PROVE  StringAt(a) = s
<1>0. PageSize \in Nat \ {0, 1, 2} /\ NUL \notin Chars
  BY EepromAssumption
<1>1. CASE s = NoString /\ \A n \in 0..(PageSize - 3) : mem[a + n] # NUL
  BY <1>1 DEF StringAt, Ends
<1>2. CASE /\ s \in Texts /\ mem[a + Len(s)] = NUL
           /\ \A i \in 1..Len(s) : mem[a + i - 1] = s[i]
  <2> DEFINE n == CHOOSE n \in Ends(a) : \A k \in Ends(a) : n <= k
  <2>1. s \in Seq(Chars) /\ Len(s) \in 0..(PageSize - 3)
    BY <1>0, <1>2 DEF Texts
  <2>2. Len(s) \in Ends(a)
    BY <1>2, <2>1 DEF Ends
  <2>3. \A k \in Ends(a) : Len(s) <= k
    <3> SUFFICES ASSUME NEW k \in Ends(a), k < Len(s) PROVE FALSE
      BY <2>1, <1>0 DEF Ends
    <3>0. k \in 0..(PageSize - 3) /\ a \in Nat
      BY SixAddresses DEF Ends
    <3>1. k + 1 \in 1..Len(s) /\ a + (k + 1) - 1 = a + k
      BY <2>1, <3>0, <1>0
    <3>2. mem[a + k] = s[k + 1]
      BY <1>2, <3>1
    <3>3. s[k + 1] \in Chars
      BY <2>1, <3>1
    <3> QED
      BY <3>2, <3>3, <1>0 DEF Ends
  <2>4. n \in Ends(a) /\ \A k \in Ends(a) : n <= k
    BY <2>2, <2>3
  <2>5. n = Len(s)
    BY <2>1, <2>2, <2>3, <2>4, <1>0 DEF Ends
  <2>6. StringAt(a) = [i \in 1..n |-> mem[a + i - 1]]
    BY <2>2 DEF StringAt
  <2>7. StringAt(a) = [i \in 1..Len(s) |-> s[i]]
    BY <1>2, <2>5, <2>6
  <2> QED
    BY <2>1, <2>7
<1> QED
  BY <1>1, <1>2 DEF StandsAt

\* A write leaves its string at its register and touches no other page.
LEMMA WriteStands ==
  ASSUME NEW image \in [Cells -> EepromBytes], NEW table, Holds(image, table),
         table \in [Addresses -> Strings],
         NEW a \in Addresses, NEW s \in Texts
  PROVE  /\ PageWrite(image, a, Terminated(s)) \in [Cells -> EepromBytes]
         /\ Holds(PageWrite(image, a, Terminated(s)), [table EXCEPT ![a] = s])
<1> DEFINE bytes == Terminated(s)
           new == PageWrite(image, a, bytes)
<1>0. PageSize \in Nat \ {0, 1, 2}
  BY EepromAssumption
<1>1. s \in Seq(Chars) /\ Len(s) \in 0..(PageSize - 3)
  BY <1>0 DEF Texts
<1>2. /\ bytes \in Seq(EepromBytes) /\ Len(bytes) = Len(s) + 1
      /\ \A i \in 1..Len(s) : bytes[i] = s[i]
      /\ bytes[Len(s) + 1] = NUL
  BY <1>1 DEF Terminated, EepromBytes
<1>3. new = [c \in Cells |->
               IF c \in a..(a + PageSize - 1) /\ (c - a) % PageSize < Len(bytes)
               THEN bytes[((c - a) % PageSize) + 1] ELSE image[c]]
  BY PageOf DEF PageWrite
<1>4. \A n \in 0..(PageSize - 1) :
        new[a + n] = IF n <= Len(s) THEN bytes[n + 1] ELSE image[a + n]
  <2> SUFFICES ASSUME NEW n \in 0..(PageSize - 1)
               PROVE  new[a + n] =
                        IF n <= Len(s) THEN bytes[n + 1] ELSE image[a + n]
    OBVIOUS
  <2>1. a \in Nat /\ (a + n) - a = n /\ a + n \in a..(a + PageSize - 1)
    BY SixAddresses, <1>0
  <2>2. n % PageSize = n /\ a + n \in Cells
    BY PageOf, PageCells
  <2> QED
    BY <1>1, <1>2, <1>3, <2>1, <2>2
<1>5. \A c \in Cells : c \notin a..(a + PageSize - 1) => new[c] = image[c]
  BY <1>3
<1>6. new \in [Cells -> EepromBytes]
  <2>1. ASSUME NEW c \in Cells PROVE new[c] \in EepromBytes
    <3>1. CASE c \in a..(a + PageSize - 1)
      <4>1. a \in Nat /\ c - a \in 0..(PageSize - 1) /\ c = a + (c - a)
        BY <3>1, SixAddresses, <1>0 DEF Cells
      <4>2. new[c] = IF c - a <= Len(s) THEN bytes[(c - a) + 1] ELSE image[c]
        BY <1>4, <4>1
      <4> QED
        BY <4>1, <4>2, <1>1, <1>2
    <3> QED
      BY <3>1, <1>5
  <2> QED
    BY <1>3, <2>1
<1>7. StandsAt(new, a, s)
  <2>1. new[a + Len(s)] = NUL
    BY <1>0, <1>1, <1>2, <1>4
  <2>2. ASSUME NEW i \in 1..Len(s) PROVE new[a + i - 1] = s[i]
    <3>1. i - 1 \in 0..(PageSize - 1) /\ a + i - 1 = a + (i - 1)
          /\ i - 1 <= Len(s) /\ (i - 1) + 1 = i
      BY <1>0, <1>1, SixAddresses
    <3>2. new[a + (i - 1)] = bytes[i]
      BY <1>4, <3>1
    <3> QED
      BY <1>2, <3>1, <3>2
  <2> QED
    BY <2>1, <2>2 DEF StandsAt
<1>8. ASSUME NEW b \in Addresses, b # a
      PROVE  StandsAt(new, b, table[b])
  <2>1. \A n \in 0..(PageSize - 3) : new[b + n] = image[b + n]
    <3> SUFFICES ASSUME NEW n \in 0..(PageSize - 3)
                 PROVE  new[b + n] = image[b + n]
      OBVIOUS
    <3>1. n \in 0..(PageSize - 1)
      BY <1>0
    <3>2. b + n \in Cells
      BY <3>1, PageCells
    <3>3. b + n \notin a..(a + PageSize - 1)
      BY <1>0, <1>8, <3>1, SixAddresses
    <3> QED
      BY <1>5, <3>2, <3>3
  <2>2. StandsAt(image, b, table[b])
    BY DEF Holds
  <2>3. CASE table[b] = NoString /\ \A n \in 0..(PageSize - 3) : image[b + n] # NUL
    BY <2>1, <2>3 DEF StandsAt
  <2>4. CASE /\ table[b] \in Texts /\ image[b + Len(table[b])] = NUL
             /\ \A i \in 1..Len(table[b]) : image[b + i - 1] = table[b][i]
    <3> DEFINE t == table[b]
    <3>1. Len(t) \in 0..(PageSize - 3)
      BY <1>0, <2>4 DEF Texts
    <3>2. new[b + Len(t)] = NUL
      BY <2>1, <2>4, <3>1
    <3>3. ASSUME NEW i \in 1..Len(t) PROVE new[b + i - 1] = t[i]
      <4>1. i - 1 \in 0..(PageSize - 3) /\ b + i - 1 = b + (i - 1)
        BY <1>0, <3>1, SixAddresses
      <4> QED
        BY <2>1, <2>4, <4>1
    <3> QED
      BY <2>4, <3>2, <3>3 DEF StandsAt
  <2> QED
    BY <2>2, <2>3, <2>4 DEF StandsAt
<1> QED
  BY <1>6, <1>7, <1>8 DEF Holds

\* Every list of calls a handler or the constructor makes is one of calls.
LEMMA CallsOfHandlers ==
  /\ Restore \in Seq(EepromCalls)
  /\ \A calls \in Saves : calls \in Seq(EepromCalls)
<1>1. \A a \in Addresses : ReadAt(a) \in EepromCalls
  BY TextIsString DEF ReadAt, EepromCalls
<1>2. \A a \in Addresses, s \in Texts : WriteAt(a, s) \in EepromCalls
  BY DEF WriteAt, EepromCalls
<1>3. /\ EEPROM_REG_NETWORK_ID \in Addresses /\ EEPROM_REG_NETWORK_PW \in Addresses
      /\ EEPROM_REG_BROKER_IP \in Addresses /\ EEPROM_REG_MODE \in Addresses
      /\ EEPROM_REG_TAR_PRES \in Addresses /\ EEPROM_REG_TAR_FAN \in Addresses
  BY SixAddresses
  DEF EEPROM_REG_NETWORK_ID, EEPROM_REG_NETWORK_PW, EEPROM_REG_BROKER_IP,
      EEPROM_REG_MODE, EEPROM_REG_TAR_PRES, EEPROM_REG_TAR_FAN
<1>4. Restore \in Seq(EepromCalls)
  BY <1>1, <1>3 DEF Restore
<1>5. SaveNetwork \in Seq(EepromCalls)
  BY <1>2, <1>3, TextIsString DEF SaveNetwork
<1>6. \A m, p, f \in Texts : SaveSettings(m, p, f) \in Seq(EepromCalls)
  BY <1>2, <1>3 DEF SaveSettings
<1>7. \A m, f \in Texts : SaveToggle(m, f) \in Seq(EepromCalls)
  BY <1>2, <1>3 DEF SaveToggle
<1>8. \A p \in Texts : /\ SavePressure(p) \in Seq(EepromCalls)
                       /\ SaveFan(p) \in Seq(EepromCalls)
  BY <1>2, <1>3 DEF SavePressure, SaveFan
<1> QED
  BY <1>4, <1>5, <1>6, <1>7, <1>8, TextIsString DEF Saves

\* An erased device holds no string.
LEMMA EepromInvInit == EepromInit => EepromInv
<1> SUFFICES ASSUME EepromInit PROVE EepromInv
  OBVIOUS
<1> USE DEF EepromInit
<1>0. /\ PageSize \in Nat \ {0, 1, 2} /\ ByteBase \in Nat \ {0}
      /\ MaxLosses \in Nat /\ Blank # NUL
  BY EepromAssumption
<1>1. mem \in [Cells -> EepromBytes] /\ cycle = mem
  BY DEF EepromBytes
<1>2. after \in [Addresses -> Strings] /\ before = after
  BY TextIsString
<1>3. EepromTypeOK
  <2>1. 0 \in 0..(ByteBase - 1) /\ 0 \in 0..MaxLosses
    <3> HIDE DEF EepromInit
    <3> QED
      BY <1>0
  <2> QED
    BY <1>1, <1>2, <2>1 DEF EepromTypeOK
<1>4. todo \in Seq(EepromCalls) /\ stage = "call"
  BY CallsOfHandlers
<1>5. 0 \in Addresses
  BY SixAddresses
<1>6. got \in [addr : Addresses, s : Strings] /\ ReadsBack
  BY <1>5, TextIsString DEF Nothing, ReadsBack
<1>7. Holds(mem, after)
  <2> SUFFICES ASSUME NEW a \in Addresses, NEW n \in 0..(PageSize - 3)
               PROVE  mem[a + n] # NUL /\ after[a] = NoString
    BY DEF Holds, StandsAt
  <2>1. a + n \in Cells
    BY <1>0, PageCells
  <2> QED
    BY <1>0, <2>1
<1> QED
  BY <1>1, <1>2, <1>3, <1>4, <1>6, <1>7
  DEF EepromInv, CallUnderWay, DeviceHolds

\* write(): the device is ready, so that the cycle it starts holds the new
\* table while the device still holds the old one.
LEMMA EepromWrite == EepromInv /\ write => EepromInv'
<1> SUFFICES ASSUME EepromInv, write PROVE EepromInv'
  OBVIOUS
<1> DEFINE call == Head(todo)
<1> USE DEF EepromInv, EepromTypeOK
<1>1. /\ stage = "transfer" /\ call.op = "write" /\ todo' = Tail(todo)
      /\ stage' = "call" /\ busy' = TRUE
      /\ cycle' = IF busy THEN cycle
                  ELSE PageWrite(mem, Address, Terminated(call.s))
      /\ before' = after /\ after' = [after EXCEPT ![call.addr] = call.s]
      /\ got' = Nothing /\ UNCHANGED <<mem, hi, lo, losses>>
  BY DEF write, Return
<1>2. ~busy /\ todo # <<>> /\ Address = call.addr
  BY <1>1 DEF CallUnderWay
<1>3. call \in EepromCalls /\ Tail(todo) \in Seq(EepromCalls)
  BY <1>2
<1>4. call.addr \in Addresses /\ call.s \in Texts
  BY <1>3 DEF EepromCalls
<1>5. mem = cycle /\ Holds(mem, after) /\ mem \in [Cells -> EepromBytes]
      /\ after \in [Addresses -> Strings]
  BY <1>2 DEF DeviceHolds
<1>6. cycle' = PageWrite(mem, call.addr, Terminated(call.s))
  BY <1>1, <1>2
<1>7. cycle' \in [Cells -> EepromBytes] /\ Holds(cycle', after')
  <2> HIDE DEF EepromInv, EepromTypeOK
  <2>1. /\ PageWrite(mem, call.addr, Terminated(call.s)) \in [Cells -> EepromBytes]
        /\ Holds(PageWrite(mem, call.addr, Terminated(call.s)),
                 [after EXCEPT ![call.addr] = call.s])
    BY <1>4, <1>5, WriteStands
  <2> QED
    BY <1>1, <1>6, <2>1
<1>8. after' \in [Addresses -> Strings]
  BY <1>1, <1>4, <1>5, TextIsString
<1>9. got' \in [addr : Addresses, s : Strings]
  BY <1>1, SixAddresses, TextIsString DEF Nothing
<1>10. EepromTypeOK'
  BY <1>1, <1>5, <1>7, <1>8
<1>11. DeviceHolds'
  BY <1>1, <1>5, <1>7 DEF DeviceHolds
<1> QED
  BY <1>1, <1>3, <1>9, <1>10, <1>11 DEF CallUnderWay, ReadsBack

\* read(): the device is ready and holds what has been written.
LEMMA EepromRead == EepromInv /\ read => EepromInv'
<1> SUFFICES ASSUME EepromInv, read PROVE EepromInv'
  OBVIOUS
<1> DEFINE call == Head(todo)
<1> USE DEF EepromInv, EepromTypeOK
<1>1. /\ stage = "transfer" /\ todo' = Tail(todo) /\ stage' = "call"
      /\ got' = [addr |-> call.addr,
                 s |-> IF busy THEN NoString ELSE StringAt(Address)]
      /\ UNCHANGED <<mem, cycle, busy, hi, lo, losses, before, after>>
  BY DEF read, Return, deviceVars, askedVars
<1>2. ~busy /\ todo # <<>> /\ Address = call.addr
  BY <1>1 DEF CallUnderWay
<1>3. call \in EepromCalls /\ Tail(todo) \in Seq(EepromCalls)
  BY <1>2
<1>4. call.addr \in Addresses
  BY <1>3 DEF EepromCalls
<1>5. Holds(mem, after) /\ mem \in [Cells -> EepromBytes]
  BY <1>2 DEF DeviceHolds
<1>6. StringAt(call.addr) = after[call.addr]
  BY <1>4, <1>5, StringStands DEF Holds
<1>7. got' = [addr |-> call.addr, s |-> after[call.addr]]
  BY <1>1, <1>2, <1>6
<1>8. got' \in [addr : Addresses, s : Strings] /\ ReadsBack'
  BY <1>1, <1>4, <1>7 DEF ReadsBack
<1>9. EepromTypeOK'
  BY <1>1
<1>10. DeviceHolds'
  BY <1>1 DEF DeviceHolds
<1> QED
  BY <1>1, <1>3, <1>8, <1>9, <1>10 DEF CallUnderWay

\* The power fails: the page of the cycle is the old one, and so is the table,
\* or the new one, and so is the table.
LEMMA EepromPowerLoss == EepromInv /\ PowerLoss => EepromInv'
<1> SUFFICES ASSUME EepromInv, PowerLoss PROVE EepromInv'
  OBVIOUS
<1> USE DEF EepromInv, EepromTypeOK
<1>0. ByteBase \in Nat \ {0} /\ MaxLosses \in Nat
  BY EepromAssumption
<1>1. /\ losses < MaxLosses /\ losses' = losses + 1 /\ busy' = FALSE
      /\ todo' = Restore /\ stage' = "call" /\ hi' = 0 /\ lo' = 0
      /\ got' = Nothing /\ cycle' = mem' /\ before' = after'
  BY DEF PowerLoss
<1>2. \/ mem' = mem /\ after' = IF busy THEN before ELSE after
      \/ mem' = cycle /\ after' = after
  BY DEF PowerLoss
<1>3. mem' \in [Cells -> EepromBytes] /\ after' \in [Addresses -> Strings]
  BY <1>2
<1>4. Holds(mem', after')
  BY <1>2 DEF DeviceHolds
<1>5. got' \in [addr : Addresses, s : Strings]
  BY <1>1, SixAddresses, TextIsString DEF Nothing
<1>6. EepromTypeOK'
  <2>1. losses' \in 0..MaxLosses /\ 0 \in 0..(ByteBase - 1)
    BY <1>0, <1>1
  <2> QED
    BY <1>1, <1>3, <2>1
<1>7. DeviceHolds'
  BY <1>1, <1>4 DEF DeviceHolds
<1> QED
  BY <1>1, <1>5, <1>6, <1>7, CallsOfHandlers DEF CallUnderWay, ReadsBack

\* The other steps: a handler begins, an address is set, the device answers
\* or not, its write cycle ends.
LEMMA EepromInvStep == EepromInv /\ [EepromNext]_eepromVars => EepromInv'
<1> SUFFICES ASSUME EepromInv, [EepromNext]_eepromVars PROVE EepromInv'
  OBVIOUS
<1> USE DEF EepromInv, EepromTypeOK
<1>1. ASSUME NEW calls \in Saves, Handler(calls) PROVE EepromInv'
  <2>1. /\ todo = <<>> /\ todo' = calls
        /\ UNCHANGED <<mem, cycle, busy, hi, lo, stage, got, losses, before,
                       after>>
    BY <1>1 DEF Handler, deviceVars, askedVars
  <2>2. stage' = "call"
    BY <2>1 DEF CallUnderWay
  <2> QED
    BY <2>1, <2>2, CallsOfHandlers DEF CallUnderWay, DeviceHolds, ReadsBack
<1>2. CASE mSetReadWriteAddress
  <2>1. /\ todo # <<>> /\ stage' = "wait"
        /\ hi' = Head(todo).addr \div ByteBase
        /\ lo' = LowByte(Head(todo).addr)
        /\ UNCHANGED <<mem, cycle, busy, todo, got, losses, before, after>>
    BY <1>2 DEF mSetReadWriteAddress, deviceVars, askedVars
  <2>2. Head(todo).addr \in Addresses
    <3>1. Head(todo) \in EepromCalls
      BY <2>1
    <3> QED
      BY <3>1 DEF EepromCalls
  <2>3. /\ hi' \in 0..(ByteBase - 1) /\ lo' \in 0..(ByteBase - 1)
        /\ hi' * ByteBase + lo' = Head(todo).addr
    BY <2>1, <2>2, AddressBytes
  <2>4. Address' = Head(todo').addr
    BY <2>1, <2>3 DEF Address
  <2>5. CallUnderWay'
    BY <2>1, <2>4 DEF CallUnderWay
  <2> QED
    BY <2>1, <2>3, <2>5 DEF DeviceHolds, ReadsBack
<1>3. CASE mWaitUntilReady
  <2>1. /\ stage = "wait" /\ stage' \in {"wait", "transfer"}
        /\ stage' = "transfer" => ~busy
        /\ UNCHANGED <<mem, cycle, busy, hi, lo, todo, got, losses, before,
                       after>>
    BY <1>3 DEF mWaitUntilReady, Ready, deviceVars, askedVars
  <2>2. CallUnderWay'
    BY <2>1 DEF CallUnderWay, Address
  <2> QED
    BY <2>1, <2>2 DEF DeviceHolds, ReadsBack
<1>4. CASE CycleEnds
  <2>1. /\ busy /\ busy' = FALSE /\ mem' = cycle
        /\ UNCHANGED <<cycle, hi, lo, todo, stage, got, losses, before, after>>
    BY <1>4 DEF CycleEnds, askedVars
  <2>2. CallUnderWay'
    BY <2>1 DEF CallUnderWay, Address
  <2> QED
    BY <2>1, <2>2 DEF DeviceHolds, ReadsBack
<1>5. CASE UNCHANGED eepromVars
  BY <1>5
  DEF eepromVars, deviceVars, askedVars, CallUnderWay, Address, DeviceHolds,
      ReadsBack
<1> QED
  BY <1>1, <1>2, <1>3, <1>4, <1>5, EepromWrite, EepromRead, EepromPowerLoss
  DEF EepromNext, Calls

\* What a power loss finds is what was written up to some write(), and what
\* is read back is what is held.
LEMMA EepromInvHolds == EepromInv => SavesHold
<1> SUFFICES ASSUME EepromInv PROVE SavesHold
  OBVIOUS
<1> USE DEF EepromInv, EepromTypeOK
<1>1. ASSUME NEW table \in {before, after}, Holds(mem, table)
      PROVE  Held = table
  <2>1. \A a \in Addresses : StringAt(a) = table[a]
    BY <1>1, StringStands DEF Holds
  <2> QED
    BY <2>1 DEF Held
<1>2. PrefixSaved
  BY <1>1 DEF PrefixSaved, DeviceHolds
<1> QED
  BY <1>2 DEF SavesHold

\* The settings survive power losses at any moment, as what all the write()s
\* so far asked for or all but the latest, and read() returns what is held.
THEOREM SettingsSurvive == EepromSpec => []SavesHold
<1> QED
  BY EepromInvInit, EepromInvStep, EepromInvHolds, PTL DEF EepromSpec

-----------------------------------------------------------------------------
(* The buttons and the knob.  The invariant numbers and orders the events  *)
(* between the interrupt routine and main(), and follows the edges of a    *)
(* contact, which alternate, from the level of the contact through the     *)
(* GPIO block and the queue back to the press that was reported last.      *)

\* The pins that wait for the interrupt routine; each took an edge.
Pending == {p \in Pins : pend[p] # {}}
Counted ==
  /\ edges \in 0..MaxEdges /\ queued \in Nat
  /\ IsFiniteSet(Pending) /\ queued + Cardinality(Pending) <= edges

\* The members and ghosts that SwTypeOK leaves out.
GhostTypes ==
  /\ now \in 0..MaxTime /\ turned \in {"none", "clockwise", "counter_clockwise"}
  /\ late \in BOOLEAN /\ rise \in Nat
  /\ event \in [name : Buttons \cup {"NO_EVENT", "clockwise",
                                     "counter_clockwise"},
                of : Events \cup {NoEvent}]
  /\ pressAt \in [Buttons -> Int] /\ merged \subseteq Buttons

\* The queue: numbered without a gap after the event taken last, in the order
\* of time, each stamped with the timer; front is a copy of its first event.
Queued ==
  /\ event.of.n = queued - Len(mEvents)
  /\ \A i \in 1..Len(mEvents) :
       /\ mEvents[i].n = queued - Len(mEvents) + i
       /\ mEvents[i].time = mEvents[i].at % TimerWrap
       /\ event.of.at <= mEvents[i].at /\ mEvents[i].at <= now
       /\ \A j \in 1..i : mEvents[j].at <= mEvents[i].at
  /\ place \in {"front", "pop"} => mEvents # <<>>
  /\ place = "pop" => front = mEvents[1]

\* The release remembered and the presses reported are in the past.
Past ==
  /\ mPrev_SW_Rise = rise % TimerWrap
  /\ rise <= event.of.at /\ event.of.at <= now
  /\ \A b \in Buttons : pressAt[b] <= event.of.at

\* A turn of the knob and the phase it ends in, and an event of it.
Knob ==
  ~late =>
    /\ pend["A"] = {"rise"} => \/ phase = 2 /\ turned = "clockwise"
                               \/ phase = 3 /\ turned = "counter_clockwise"
    /\ pend["A"] = {"fall"} => \/ phase = 0 /\ turned = "clockwise"
                               \/ phase = 1 /\ turned = "counter_clockwise"
TurnOf(e) ==
  e.gpio \in {"A", "B"} /\ e.mask \in {{"rise"}, {"fall"}} /\ ~e.late =>
    e.dir = IF (e.gpio = "A") = (e.mask = {"rise"})
            THEN "clockwise" ELSE "counter_clockwise"

\* The edges of a contact alternate.  Closed(b, i): b was closed when the
\* first i events of the queue had been queued, so that no fall comes before
\* a rise in the rest, in what the GPIO block holds, and in its level.
Fall(b, i) == mEvents[i].gpio = b /\ mEvents[i].mask = {"fall"}
Rise(b, i) == mEvents[i].gpio = b /\ "rise" \in mEvents[i].mask
RoseIn(b, i, j) == \E k \in (i + 1)..j : Rise(b, k)
Closed(b, i) ==
  /\ \A j \in (i + 1)..Len(mEvents) : Fall(b, j) => RoseIn(b, i, j - 1)
  /\ pend[b] = {"fall"} => RoseIn(b, i, Len(mEvents))
  /\ pend[b] = {} => b \in down \/ RoseIn(b, i, Len(mEvents))
Contacts ==
  \A b \in Buttons :
    /\ pend[b] = {"fall"} => b \in down
    /\ pend[b] = {"rise"} => b \notin down
    /\ \A i \in 1..Len(mEvents) : Fall(b, i) => Closed(b, i)
    /\ b \notin merged => pressAt[b] <= rise \/ Closed(b, 0)
Turns == \A i \in 1..Len(mEvents) : TurnOf(mEvents[i])

SwInv ==
  /\ SwTypeOK /\ GhostTypes /\ Counted /\ Queued /\ Past /\ Knob /\ Turns
  /\ Contacts /\ DebounceHolds /\ DirectionHolds

\* A difference of two times read from the timer is never more than the time
\* that has passed.
LEMMA TimerDifference ==
  ASSUME NEW a \in Nat, NEW b \in Nat, b <= a
  PROVE  ((a % TimerWrap) - (b % TimerWrap)) % TimerWrap <= a - b
<1> DEFINE W == TimerWrap
           p == a \div W
           q == b \div W
           r == a % W
           s == b % W
<1>0. W \in Nat /\ W > 0
  BY SwAssumption
<1>1. /\ p \in Int /\ r \in 0..(W - 1) /\ a = W * p + r
      /\ q \in Int /\ s \in 0..(W - 1) /\ b = W * q + s
  BY <1>0
<1> HIDE DEF W, p, q, r, s
<1>2. W * p - W * q = W * (p - q)
  BY <1>0, <1>1
<1>3. a - b = W * (p - q) + (r - s)
  BY <1>0, <1>1, <1>2
<1>4. p - q >= 0
  <2> SUFFICES ASSUME p - q <= -1 PROVE FALSE
    BY <1>1
  <2>1. W * (p - q) <= -W
    BY <1>0, <1>1
  <2> QED
    BY <1>0, <1>1, <1>3, <2>1
<1>5. CASE r >= s
  <2>1. W * (p - q) >= 0
    BY <1>0, <1>1, <1>4
  <2>2. (r - s) % W = r - s
    BY <1>0, <1>1, <1>5
  <2>3. (r - s) % W <= a - b
    BY <1>0, <1>1, <1>3, <2>1, <2>2
  <2> QED
    BY <2>3 DEF W, r, s
<1>6. CASE r < s
  <2>1. p - q >= 1
    <3> SUFFICES ASSUME p - q = 0 PROVE FALSE
      BY <1>1, <1>4
    <3>1. W * (p - q) = 0
      BY <1>0
    <3> QED
      BY <1>1, <1>3, <1>6, <3>1
  <2>2. W * (p - q) >= W
    BY <1>0, <1>1, <2>1
  <2>3. (r - s) % W = r - s + W
    BY <1>0, <1>1, <1>6
  <2>4. (r - s) % W <= a - b
    BY <1>0, <1>1, <1>3, <2>2, <2>3
  <2> QED
    BY <2>4 DEF W, r, s
<1> QED
  BY <1>1, <1>5, <1>6

\* What getEvent() may make of an event.
LEMMA DecodeMeans ==
  ASSUME NEW e
  PROVE  /\ Decode(e) \in Buttons \cup {"NO_EVENT", "clockwise",
                                        "counter_clockwise"}
         /\ \A b \in Buttons : Decode(e) = b => e.gpio = b /\ e.mask = {"fall"}
         /\ Decode(e) # "NO_EVENT" => Debounced(e.time)
         /\ e.gpio \in {"A", "B"} /\ Decode(e) # "NO_EVENT" =>
              /\ e.mask \in {{"rise"}, {"fall"}}
              /\ Decode(e) = IF (e.gpio = "A") = (e.mask = {"rise"})
                             THEN "clockwise" ELSE "counter_clockwise"
         /\ Released(e) => Decode(e) = "NO_EVENT"
BY SwAssumption DEF Decode, Released

\* Nothing has happened yet.
LEMMA SwInvInit == SwInit => SwInv
<1> SUFFICES ASSUME SwInit PROVE SwInv
  OBVIOUS
<1>0. /\ PRESS_DEBOUNCE_DELAY_US \in Nat /\ TimerWrap \in Nat /\ TimerWrap > 0
      /\ MaxEdges \in Nat /\ MaxTime \in Nat
  BY SwAssumption
<1>1. Len(mEvents) = 0 /\ mEvents \in Seq(Events)
  BY DEF SwInit
<1>2. SwTypeOK
  BY <1>0, <1>1 DEF SwInit, SwTypeOK
<1> DEFINE d == -PRESS_DEBOUNCE_DELAY_US
<1>a. d \in Int /\ d <= 0
  BY <1>0
<1>b. pressAt = [b \in Buttons |-> d] /\ rise = 0 /\ now = 0 /\ merged = {}
      /\ event = [name |-> "NO_EVENT", of |-> NoEvent]
      /\ turned = "none" /\ late = FALSE
  BY DEF SwInit
<1> HIDE DEF d
<1>3. GhostTypes
  <2>1. now \in 0..MaxTime /\ rise \in Nat
    BY <1>0, <1>b
  <2>2. pressAt \in [Buttons -> Int]
    BY <1>a, <1>b
  <2>3. event \in [name : Buttons \cup {"NO_EVENT", "clockwise",
                                       "counter_clockwise"},
                  of : Events \cup {NoEvent}]
    BY <1>b
  <2> QED
    BY <1>b, <2>1, <2>2, <2>3 DEF GhostTypes
<1>4. Pending = {}
  BY DEF SwInit, Pending
<1>5. Counted
  BY <1>0, <1>4, FS_EmptySet DEF SwInit, Counted
<1>6. Queued
  BY <1>1 DEF SwInit, Queued, NoEvent
<1>7. 0 % TimerWrap = 0
  BY <1>0
<1>8. Past
  BY <1>0, <1>7 DEF SwInit, Past, NoEvent
<1>9. Knob /\ Turns
  BY <1>1 DEF SwInit, Knob, Turns, Pins
<1>10. Contacts
  <2>1. \A b \in Buttons : pend[b] = {} /\ {} \notin {{"fall"}, {"rise"}}
    BY DEF SwInit, Pins
  <2>2. \A b \in Buttons : pressAt[b] <= rise
    BY <1>a, <1>b
  <2>3. \A i \in 1..Len(mEvents) : FALSE
    BY <1>1
  <2> QED
    BY <2>1, <2>2, <2>3 DEF Contacts
<1> QED
  BY <1>2, <1>3, <1>5, <1>6, <1>8, <1>9, <1>10
  DEF SwInv, SwInit, DebounceHolds, DirectionHolds, NoEvent

\* Times and numbers of events are numbers.
LEMMA EventTypes ==
  ASSUME SwTypeOK, GhostTypes
  PROVE  /\ event.of.at \in 0..MaxTime /\ event.of.n \in 0..MaxEdges
         /\ mEvents \in Seq(Events) /\ Len(mEvents) \in Nat
         /\ \A i \in 1..Len(mEvents) :
              mEvents[i] \in Events /\ mEvents[i].at \in 0..MaxTime
<1>1. \A e \in Events : e.at \in 0..MaxTime /\ e.n \in 1..MaxEdges
  BY DEF Events
<1>2. NoEvent.at = 0 /\ NoEvent.n = 0
  BY DEF NoEvent
<1>3. mEvents \in Seq(Events)
  BY DEF SwTypeOK
<1>4. \A i \in 1..Len(mEvents) : mEvents[i] \in Events
  BY <1>3
<1>5. event.of \in Events \cup {NoEvent}
  BY DEF GhostTypes
<1>6. 0 \in 0..MaxTime /\ 0 \in 0..MaxEdges /\ 1..MaxEdges \subseteq 0..MaxEdges
  BY SwAssumption
<1> QED
  BY <1>1, <1>2, <1>3, <1>4, <1>5, <1>6

\* The steps of the hardware disturb neither the queue nor what main() knows.
LEMMA MainIsLeftAlone ==
  ASSUME SwInv, UNCHANGED <<mEvents, loopVars, queued>>,
         now' \in 0..MaxTime, now <= now'
  PROVE  Queued' /\ Past' /\ Turns' /\ DebounceHolds' /\ DirectionHolds'
<1>0. UNCHANGED <<mEvents, mPrev_SW_Rise, place, front, event, rise, pressAt,
                  merged, queued>>
  BY DEF loopVars, swGhosts
<1>1. /\ event.of.at \in Int /\ now \in Int /\ now' \in Int
      /\ \A i \in 1..Len(mEvents) : mEvents[i].at \in Int
  BY EventTypes, SwAssumption DEF SwInv, GhostTypes
<1>2. Queued'
  BY <1>0, <1>1 DEF SwInv, Queued
<1>3. Past'
  BY <1>0, <1>1 DEF SwInv, Past
<1>4. Turns' /\ DebounceHolds' /\ DirectionHolds'
  BY <1>0 DEF SwInv, Turns, TurnOf, DebounceHolds, DirectionHolds
<1> QED
  BY <1>2, <1>3, <1>4

\* An edge that comes on a pin adds at most one to what is pending.
LEMMA PinPends ==
  ASSUME Counted, NEW p \in Pins, edges < MaxEdges, edges' = edges + 1,
         queued' = queued, NEW m, pend' = [pend EXCEPT ![p] = @ \cup {m}],
         pend \in [Pins -> Masks \cup {{}}]
  PROVE  Counted'
<1>1. Pending' = Pending \cup {p}
  BY DEF Pending
<1>2. IsFiniteSet(Pending') /\ Cardinality(Pending) \in Nat
      /\ Cardinality(Pending') \in Nat
      /\ Cardinality(Pending') <= Cardinality(Pending) + 1
  <2>1. IsFiniteSet(Pending)
    BY DEF Counted
  <2>2. IsFiniteSet(Pending \cup {p}) /\ Cardinality(Pending) \in Nat
    BY <2>1, FS_AddElement, FS_CardinalityType
  <2>3. Cardinality(Pending \cup {p}) =
          IF p \in Pending THEN Cardinality(Pending) ELSE Cardinality(Pending) + 1
    BY <2>1, FS_AddElement
  <2> HIDE DEF Pending
  <2> QED
    BY <1>1, <2>2, <2>3
<1> QED
  BY <1>2, SwAssumption DEF Counted

\* The edge that comes is the one that follows from the level.
LEMMA SwContact ==
  ASSUME SwInv, NEW b \in Buttons, Contact(b)
  PROVE  SwInv'
<1> DEFINE m == IF b \in down THEN "rise" ELSE "fall"
<1>0. /\ edges < MaxEdges /\ edges' = edges + 1
      /\ down' = (down \ {b}) \cup ({b} \ down)
      /\ pend' = [pend EXCEPT ![b] = @ \cup {m}]
      /\ UNCHANGED <<now, phase, turned, late, mEvents, loopVars, queued>>
  BY DEF Contact
<1>00. UNCHANGED <<mPrev_SW_Rise, place, front, event, rise, pressAt, merged>>
  BY <1>0 DEF loopVars, swGhosts
<1>1. b \in Pins /\ "A" # b /\ "A" \in Pins
      /\ pend \in [Pins -> Masks \cup {{}}] /\ down \subseteq Buttons
  BY SwAssumption DEF Pins, SwInv, SwTypeOK
<1>2. m \in {"rise", "fall"}
  OBVIOUS
<1>3. pend' \in [Pins -> Masks \cup {{}}]
  BY <1>0, <1>1, <1>2 DEF Masks
<1>4. SwTypeOK'
  BY <1>0, <1>00, <1>1, <1>3 DEF SwInv, SwTypeOK
<1>5. GhostTypes'
  BY <1>0, <1>00 DEF SwInv, GhostTypes
<1>6. Counted'
  BY <1>0, <1>1, PinPends DEF SwInv
<1>7. now' \in 0..MaxTime /\ now <= now'
  BY <1>0, SwAssumption DEF SwInv, GhostTypes
<1>8. Queued' /\ Past' /\ Turns' /\ DebounceHolds' /\ DirectionHolds'
  BY <1>0, <1>7, MainIsLeftAlone
<1>9. Knob'
  BY <1>0, <1>1 DEF SwInv, Knob
<1>10. Contacts'
  <2> SUFFICES ASSUME NEW c \in Buttons
               PROVE  /\ pend'[c] = {"fall"} => c \in down'
                      /\ pend'[c] = {"rise"} => c \notin down'
                      /\ \A i \in 1..Len(mEvents) : Fall(c, i) => Closed(c, i)'
                      /\ c \notin merged => pressAt[c] <= rise \/ Closed(c, 0)'
    BY <1>0, <1>00 DEF Contacts, Fall
  <2>1. /\ pend[c] = {"fall"} => c \in down
        /\ pend[c] = {"rise"} => c \notin down
        /\ \A i \in 1..Len(mEvents) : Fall(c, i) => Closed(c, i)
        /\ c \notin merged => pressAt[c] <= rise \/ Closed(c, 0)
    BY DEF SwInv, Contacts
  <2>2. c \in Pins /\ pend[c] \in Masks \cup {{}}
    BY <1>1 DEF Pins
  <2>3. CASE c # b
    <3>1. pend'[c] = pend[c] /\ (c \in down' <=> c \in down)
      BY <1>0, <1>1, <2>2, <2>3
    <3>2. \A i \in Nat : Closed(c, i) => Closed(c, i)'
      BY <1>0, <3>1 DEF Closed, Fall, RoseIn, Rise
    <3> QED
      BY <2>1, <3>1, <3>2
  <2>4. CASE c = b
    <3>1. pend'[c] = pend[c] \cup {m} /\ (c \in down' <=> c \notin down)
      BY <1>0, <1>1, <2>2, <2>4
    <3>2. pend'[c] # {} /\ (pend'[c] = {"fall"} => c \in down')
          /\ (pend'[c] = {"rise"} => c \notin down')
      BY <2>4, <3>1
    <3>3. pend'[c] = {"fall"} => pend[c] = {} /\ c \notin down
      <4> SUFFICES ASSUME pend'[c] = {"fall"}
                   PROVE  pend[c] = {} /\ c \notin down
        OBVIOUS
      <4>1. m = "fall" /\ c \notin down
        BY <2>4, <3>1
      <4>2. pend[c] # {"fall"} /\ pend[c] \subseteq {"fall"}
        BY <2>1, <3>1, <4>1
      <4> QED
        BY <4>1, <4>2
    <3>4. \A i \in Nat : Closed(c, i) => Closed(c, i)'
      BY <1>0, <3>2, <3>3 DEF Closed, Fall, RoseIn, Rise
    <3> QED
      BY <2>1, <3>2, <3>4
  <2> QED
    BY <2>3, <2>4
<1> QED
  BY <1>4, <1>5, <1>6, <1>8, <1>9, <1>10 DEF SwInv

\* The contacts of the knob say nothing of a button.
LEMMA ContactsStay ==
  ASSUME Contacts, UNCHANGED <<mEvents, rise, pressAt, merged, down>>,
         \A b \in Buttons : pend'[b] = pend[b]
  PROVE  Contacts'
<1>1. \A b \in Buttons : \A i \in Nat : Closed(b, i) => Closed(b, i)'
  BY DEF Closed, Fall, RoseIn, Rise
<1> QED
  BY <1>1 DEF Contacts, Fall

\* A turn that moves A fixes the phase until the shaft moves on.
LEMMA SwTurn ==
  ASSUME SwInv, NEW dir \in {"clockwise", "counter_clockwise"}, Turn(dir)
  PROVE  SwInv'
<1> DEFINE ph == (phase + (IF dir = "clockwise" THEN 1 ELSE 3)) % 4
<1>0. /\ edges < MaxEdges /\ edges' = edges + 1 /\ phase' = ph
      /\ late' = (pend["A"] # {})
      /\ UNCHANGED <<now, down, mEvents, loopVars, queued>>
  BY DEF Turn
<1>00. UNCHANGED <<mPrev_SW_Rise, place, front, event, rise, pressAt, merged>>
  BY <1>0 DEF loopVars, swGhosts
<1>1. "A" \in Pins /\ "A" \notin Buttons /\ phase \in 0..3
      /\ pend \in [Pins -> Masks \cup {{}}]
  BY SwAssumption DEF Pins, SwInv, SwTypeOK
<1>2. ph = IF dir = "clockwise" THEN IF phase = 3 THEN 0 ELSE phase + 1
           ELSE IF phase = 0 THEN 3 ELSE phase - 1
  BY <1>1
<1>3. phase' \in 0..3
  BY <1>0, <1>1, <1>2
<1>4. CASE AHigh(ph) = AHigh(phase)
  <2>1. UNCHANGED <<turned, pend>>
    BY <1>4 DEF Turn
  <2>2. Counted'
    <3>1. Pending' = Pending /\ IsFiniteSet(Pending)
      BY <2>1 DEF Pending, SwInv, Counted
    <3>2. Cardinality(Pending) \in Nat
      BY <3>1, FS_CardinalityType
    <3> QED
      BY <1>0, <3>1, <3>2, SwAssumption DEF SwInv, Counted
  <2>3. Knob'
    BY <1>0, <1>1, <2>1 DEF Knob
  <2>4. Contacts'
    BY <1>0, <1>00, <2>1, ContactsStay DEF SwInv
  <2>5. SwTypeOK' /\ GhostTypes'
    BY <1>0, <1>00, <1>3, <2>1 DEF SwInv, SwTypeOK, GhostTypes
  <2>6. now' \in 0..MaxTime /\ now <= now'
    BY <1>0, SwAssumption DEF SwInv, GhostTypes
  <2> QED
    BY <1>0, <2>2, <2>3, <2>4, <2>5, <2>6, MainIsLeftAlone DEF SwInv
<1>5. CASE AHigh(ph) # AHigh(phase)
  <2> DEFINE m == IF AHigh(ph) THEN "rise" ELSE "fall"
  <2>1. turned' = dir /\ pend' = [pend EXCEPT !["A"] = @ \cup {m}]
    BY <1>5 DEF Turn
  <2>2. Counted'
    BY <1>0, <1>1, <2>1, PinPends DEF SwInv
  <2>3. Knob'
    <3> SUFFICES ASSUME ~late' PROVE Knob'
      BY DEF Knob
    <3>1. pend'["A"] = {m}
      BY <1>0, <1>1, <2>1
    <3>2. \/ dir = "clockwise" /\ phase' = 2 /\ m = "rise"
          \/ dir = "clockwise" /\ phase' = 0 /\ m = "fall"
          \/ dir = "counter_clockwise" /\ phase' = 3 /\ m = "rise"
          \/ dir = "counter_clockwise" /\ phase' = 1 /\ m = "fall"
      BY <1>0, <1>1, <1>2, <1>5 DEF AHigh
    <3> QED
      BY <2>1, <3>1, <3>2 DEF Knob
  <2>4. Contacts'
    <3>1. \A b \in Buttons : pend'[b] = pend[b]
      BY <1>1, <2>1 DEF Pins
    <3> QED
      BY <1>0, <1>00, <3>1, ContactsStay DEF SwInv
  <2>5. pend' \in [Pins -> Masks \cup {{}}]
    BY <1>1, <2>1 DEF Masks
  <2>6. SwTypeOK' /\ GhostTypes'
    BY <1>0, <1>00, <1>3, <2>1, <2>5 DEF SwInv, SwTypeOK, GhostTypes
  <2>7. now' \in 0..MaxTime /\ now <= now'
    BY <1>0, SwAssumption DEF SwInv, GhostTypes
  <2> QED
    BY <1>0, <2>2, <2>3, <2>4, <2>6, <2>7, MainIsLeftAlone DEF SwInv
<1> QED
  BY <1>4, <1>5

\* What the interrupt routine queues.
HandlerEvent(pin) ==
  [gpio |-> Direction(pin), mask |-> pend[pin], time |-> time_us_32,
   at |-> now, dir |-> IF pin = "A" THEN turned ELSE "none",
   late |-> pin = "A" /\ late, n |-> queued + 1]

\* An event is queued for a pin that was pending: the numbers do not run out.
LEMMA EventIsQueued ==
  ASSUME SwInv, NEW p \in Pins, interruptHandler(p)
  PROVE  /\ HandlerEvent(p) \in Events /\ Counted'
         /\ mEvents' = Append(mEvents, HandlerEvent(p))
         /\ mEvents' \in Seq(Events) /\ Len(mEvents') = Len(mEvents) + 1
         /\ \A i \in 1..Len(mEvents) : mEvents'[i] = mEvents[i]
         /\ mEvents'[Len(mEvents')] = HandlerEvent(p)
<1>0. /\ pend[p] # {} /\ pend' = [pend EXCEPT ![p] = {}]
      /\ mEvents' = Append(mEvents, HandlerEvent(p))
      /\ queued' = queued + 1 /\ edges' = edges
  BY DEF interruptHandler, HandlerEvent
<1>1. pend \in [Pins -> Masks \cup {{}}] /\ pend[p] \in Masks
  BY <1>0 DEF SwInv, SwTypeOK
<1>2. Pending' = Pending \ {p} /\ p \in Pending
  BY <1>0, <1>1 DEF Pending
<1>3. IsFiniteSet(Pending)
  BY DEF SwInv, Counted
<1>4. IsFiniteSet(Pending \ {p}) /\ Cardinality(Pending) \in Nat
      /\ Cardinality(Pending \ {p}) \in Nat
  BY <1>3, FS_RemoveElement, FS_CardinalityType
<1>5. Cardinality(Pending \ {p}) =
        IF p \in Pending THEN Cardinality(Pending) - 1 ELSE Cardinality(Pending)
  BY <1>3, FS_RemoveElement
<1>6. queued' \in 1..MaxEdges /\ Counted'
  <2> HIDE DEF Pending
  <2>1. /\ edges \in 0..MaxEdges /\ queued \in Nat
        /\ queued + Cardinality(Pending) <= edges
    BY DEF SwInv, Counted
  <2>2. Cardinality(Pending') = Cardinality(Pending) - 1
    BY <1>2, <1>5
  <2>3. Cardinality(Pending') \in Nat /\ IsFiniteSet(Pending')
    BY <1>2, <1>4
  <2>4. queued' \in Nat /\ queued' + Cardinality(Pending') <= edges'
    BY <1>0, <1>4, <2>1, <2>2, SwAssumption
  <2> QED
    BY <1>0, <2>1, <2>3, <2>4, SwAssumption DEF Counted
<1>7. Direction(p) \in Buttons \cup {"A", "B"}
  BY DEF Direction, Pins
<1>8. time_us_32 \in 0..(TimerWrap - 1) /\ now \in 0..MaxTime
  <2>1. now \in Nat
    BY SwAssumption DEF SwInv, GhostTypes
  <2> QED
    BY <2>1, SwAssumption DEF time_us_32, SwInv, GhostTypes
<1>9. late \in BOOLEAN /\ turned \in {"none", "clockwise", "counter_clockwise"}
  BY DEF SwInv, GhostTypes
<1>10. HandlerEvent(p) \in Events
  BY <1>0, <1>1, <1>6, <1>7, <1>8, <1>9 DEF HandlerEvent, Events
<1>11. mEvents \in Seq(Events)
  BY DEF SwInv, SwTypeOK
<1> QED
  BY <1>0, <1>6, <1>10, <1>11

\* The event of a turn is decoded in the direction of the turn, if B still is
\* where A left it.
LEMMA TurnIsSeen ==
  ASSUME SwInv, interruptHandler("A")
  PROVE  TurnOf(HandlerEvent("A"))
<1> DEFINE e == HandlerEvent("A")
<1> SUFFICES ASSUME e.mask \in {{"rise"}, {"fall"}}, ~e.late
             PROVE  e.dir = IF (e.gpio = "A") = (e.mask = {"rise"})
                            THEN "clockwise" ELSE "counter_clockwise"
  BY DEF TurnOf
<1>1. /\ e.mask = pend["A"] /\ e.dir = turned /\ ~late
      /\ e.gpio = IF BHigh(phase) THEN "A" ELSE "B"
  BY DEF HandlerEvent, Direction
<1>2. {"rise"} # {"fall"}
  OBVIOUS
<1> HIDE DEF e
<1>3. CASE e.mask = {"rise"}
  <2>1. \/ phase = 2 /\ turned = "clockwise"
        \/ phase = 3 /\ turned = "counter_clockwise"
    BY <1>1, <1>3 DEF SwInv, Knob
  <2> QED
    BY <1>1, <1>3, <2>1 DEF BHigh
<1>4. CASE e.mask = {"fall"}
  <2>1. \/ phase = 0 /\ turned = "clockwise"
        \/ phase = 1 /\ turned = "counter_clockwise"
    BY <1>1, <1>4 DEF SwInv, Knob
  <2> QED
    BY <1>1, <1>2, <1>4, <2>1 DEF BHigh
<1> QED
  BY <1>3, <1>4

\* An event joins the queue behind all others; its edges join those of its
\* contact.
LEMMA SwInterrupt ==
  ASSUME SwInv, NEW p \in Pins, interruptHandler(p)
  PROVE  SwInv'
<1> DEFINE e == HandlerEvent(p)
<1>n. PICK n \in Nat : n = Len(mEvents)
  BY EventTypes DEF SwInv
<1>0. /\ pend[p] # {} /\ pend' = [pend EXCEPT ![p] = {}]
      /\ queued' = queued + 1 /\ (late' => late)
      /\ late' \in BOOLEAN
      /\ UNCHANGED <<now, down, phase, turned, loopVars, edges>>
  BY DEF interruptHandler, SwInv, GhostTypes
<1>00. UNCHANGED <<mPrev_SW_Rise, place, front, event, rise, pressAt, merged>>
  BY <1>0 DEF loopVars, swGhosts
<1>1. /\ e \in Events /\ Counted' /\ mEvents' \in Seq(Events)
      /\ Len(mEvents') = n + 1 /\ mEvents'[n + 1] = e
      /\ \A i \in 1..n : mEvents'[i] = mEvents[i]
  BY <1>n, EventIsQueued
<1>2. /\ e.gpio = Direction(p) /\ e.mask = pend[p] /\ e.n = queued + 1
      /\ e.time = now % TimerWrap /\ e.at = now
  BY DEF HandlerEvent, time_us_32
<1> HIDE DEF e
<1>3. pend \in [Pins -> Masks \cup {{}}]
  BY DEF SwInv, SwTypeOK
<1>4. SwTypeOK' /\ GhostTypes'
  BY <1>0, <1>00, <1>1, <1>3 DEF SwInv, SwTypeOK, GhostTypes
<1>5. Queued'
  <2>1. /\ event.of.at \in Nat /\ now \in Nat /\ event.of.n \in Nat
        /\ queued \in Nat
        /\ \A i \in 1..n : mEvents[i].at \in Nat
    <3>1. now \in 0..MaxTime /\ queued \in Nat
      BY DEF SwInv, GhostTypes, Counted
    <3>2. /\ event.of.at \in 0..MaxTime /\ event.of.n \in 0..MaxEdges
          /\ \A i \in 1..n : mEvents[i].at \in 0..MaxTime
      BY <1>n, EventTypes DEF SwInv
    <3>3. 0..MaxTime \subseteq Nat /\ 0..MaxEdges \subseteq Nat
      BY SwAssumption
    <3> QED
      BY <3>1, <3>2, <3>3
  <2>2. /\ event.of.n = queued - n
        /\ \A i \in 1..n :
             /\ mEvents[i].n = queued - n + i
             /\ mEvents[i].time = mEvents[i].at % TimerWrap
             /\ event.of.at <= mEvents[i].at /\ mEvents[i].at <= now
             /\ \A j \in 1..i : mEvents[j].at <= mEvents[i].at
        /\ event.of.at <= now
    BY <1>n DEF SwInv, Queued, Past
  <2>3. ASSUME NEW i \in 1..(n + 1)
        PROVE  /\ mEvents'[i].n = queued' - Len(mEvents') + i
               /\ mEvents'[i].time = mEvents'[i].at % TimerWrap
               /\ event.of.at <= mEvents'[i].at /\ mEvents'[i].at <= now
               /\ \A j \in 1..i : mEvents'[j].at <= mEvents'[i].at
    <3>1. CASE i \in 1..n
      <4>1. \A j \in 1..i : mEvents'[j] = mEvents[j]
        BY <1>1, <3>1
      <4>2. queued' - Len(mEvents') + i = queued - n + i
        <5>1. queued' = queued + 1 /\ Len(mEvents') = n + 1
          BY <1>0, <1>1
        <5> QED
          BY <5>1, <2>1, <3>1
      <4> QED
        BY <1>1, <2>2, <3>1, <4>1, <4>2
    <3>2. CASE i = n + 1
      <4>1. mEvents'[i] = e /\ queued' - Len(mEvents') + i = queued + 1
        BY <1>0, <1>1, <2>1, <3>2
      <4>2. \A j \in 1..i : mEvents'[j].at <= now
        <5>1. \A j \in 1..i : j \in 1..n \/ j = i
          BY <3>2
        <5>2. mEvents'[i].at <= now
          BY <1>2, <2>1, <4>1
        <5> QED
          BY <1>1, <2>2, <5>1, <5>2
      <4> QED
        BY <1>2, <2>2, <4>1, <4>2
    <3> QED
      BY <1>1, <3>1, <3>2
  <2>4. event.of.n = queued' - Len(mEvents')
    BY <1>0, <1>1, <2>1, <2>2
  <2>5. place \in {"front", "pop"} => n # 0 /\ mEvents'[1] = mEvents[1]
    BY <1>n, <1>1, EventTypes DEF SwInv, Queued
  <2>6. mEvents' # <<>>
    BY <1>1
  <2>7. place = "pop" => front = mEvents'[1]
    BY <2>5 DEF SwInv, Queued
  <2> QED
    BY <1>0, <1>00, <1>1, <2>3, <2>4, <2>6, <2>7 DEF Queued
<1>6. Past' /\ DebounceHolds' /\ DirectionHolds'
  BY <1>0, <1>00 DEF SwInv, Past, DebounceHolds, DirectionHolds
<1>7. Knob'
  <2>1. "A" \in Pins
    BY DEF Pins
  <2>2. pend'["A"] \in {pend["A"], {}}
    BY <1>0, <1>3, <2>1
  <2>3. {} \notin {{"rise"}, {"fall"}}
    OBVIOUS
  <2>4. CASE p = "A"
    <3>1. pend'["A"] = {}
      BY <1>0, <1>3, <2>1, <2>4
    <3> QED
      BY <2>3, <3>1 DEF Knob
  <2>5. CASE p # "A"
    <3>1. late' = late /\ UNCHANGED <<phase, turned>>
      BY <2>5 DEF interruptHandler
    <3> QED
      BY <2>2, <2>3, <3>1 DEF SwInv, Knob
  <2> QED
    BY <2>4, <2>5
<1>8. Turns'
  <2>1. TurnOf(e)
    <3>1. CASE p = "A"
      BY <3>1, TurnIsSeen DEF e
    <3>2. CASE p # "A"
      <4>1. e.gpio \in Buttons
        BY <1>2, <3>2 DEF Direction, Pins
      <4> QED
        BY <4>1, SwAssumption DEF TurnOf
    <3> QED
      BY <3>1, <3>2
  <2>2. \A i \in 1..(n + 1) : i \in 1..n \/ i = n + 1
    BY <1>1
  <2>3. \A i \in 1..n : TurnOf(mEvents[i])
    BY <1>n DEF SwInv, Turns
  <2>4. \A i \in 1..(n + 1) : TurnOf(mEvents'[i])
    BY <1>1, <2>1, <2>2, <2>3
  <2> QED
    BY <1>1, <2>4 DEF Turns, TurnOf
<1>9. Contacts'
  <2> SUFFICES ASSUME NEW b \in Buttons
               PROVE  /\ pend'[b] = {"fall"} => b \in down
                      /\ pend'[b] = {"rise"} => b \notin down
                      /\ \A i \in 1..(n + 1) : Fall(b, i)' => Closed(b, i)'
                      /\ b \notin merged => pressAt[b] <= rise \/ Closed(b, 0)'
    BY <1>0, <1>00, <1>1 DEF Contacts
  <2>1. /\ pend[b] = {"fall"} => b \in down
        /\ pend[b] = {"rise"} => b \notin down
        /\ \A i \in 1..n : Fall(b, i) => Closed(b, i)
        /\ b \notin merged => pressAt[b] <= rise \/ Closed(b, 0)
    BY <1>n DEF SwInv, Contacts
  <2>2. b \in Pins /\ pend[b] \in Masks \cup {{}}
    BY <1>3 DEF Pins
  <2>3. pend'[b] = IF b = p THEN {} ELSE pend[b]
    BY <1>0, <1>3, <2>2
  <2>4. pend'[b] \in {{"fall"}, {"rise"}} => pend'[b] = pend[b]
    BY <2>3
  <2>5. \A k \in 1..n : /\ Fall(b, k)' <=> Fall(b, k)
                        /\ Rise(b, k)' <=> Rise(b, k)
    BY <1>1 DEF Fall, Rise
  <2>6. /\ Fall(b, n + 1)' <=> b = p /\ pend[b] = {"fall"}
        /\ Rise(b, n + 1)' <=> b = p /\ "rise" \in pend[b]
    <3>1. b = e.gpio <=> b = p
      BY <1>2, SwAssumption DEF Direction, Pins
    <3> QED
      BY <1>1, <1>2, <3>1 DEF Fall, Rise
  <2>7. ASSUME NEW i \in 0..n, Closed(b, i) PROVE Closed(b, i)'
    <3>1. \A j \in 0..n : RoseIn(b, i, j)' <=> RoseIn(b, i, j)
      BY <1>1, <2>5 DEF RoseIn
    <3>2. RoseIn(b, i, n)' => RoseIn(b, i, n + 1)'
      BY <1>1 DEF RoseIn
    <3>3. Rise(b, n + 1)' => RoseIn(b, i, n + 1)'
      BY <1>1 DEF RoseIn
    <3>4. \A j \in (i + 1)..(n + 1) : Fall(b, j)' => RoseIn(b, i, j - 1)'
      <4> SUFFICES ASSUME NEW j \in (i + 1)..(n + 1), Fall(b, j)'
                   PROVE  RoseIn(b, i, j - 1)'
        OBVIOUS
      <4>1. CASE j \in (i + 1)..n
        <5>1. Fall(b, j) /\ j - 1 \in 0..n
          BY <1>1, <2>5, <4>1
        <5>2. RoseIn(b, i, j - 1)
          BY <1>n, <2>7, <4>1, <5>1 DEF Closed
        <5> QED
          BY <3>1, <5>1, <5>2
      <4>2. CASE j = n + 1
        <5>1. pend[b] = {"fall"}
          BY <2>6, <4>2
        <5>2. RoseIn(b, i, n)
          BY <1>n, <2>7, <5>1 DEF Closed
        <5>3. j - 1 = n /\ n \in 0..n
          BY <1>1, <4>2
        <5> QED
          BY <3>1, <5>2, <5>3
      <4> QED
        BY <1>1, <4>1, <4>2
    <3>5. CASE b = p
      <4>1. pend'[b] = {} /\ pend[b] # {}
        BY <1>0, <2>3, <3>5
      <4>2. b \in down \/ RoseIn(b, i, n + 1)'
        <5>1. CASE "rise" \in pend[b]
          BY <2>6, <3>3, <3>5, <5>1
        <5>2. CASE "rise" \notin pend[b]
          <6>1. pend[b] = {"fall"}
            BY <2>2, <4>1, <5>2 DEF Masks
          <6>2. b \in down
            BY <2>1, <6>1
          <6> QED
            BY <6>2
        <5> QED
          BY <5>1, <5>2
      <4>3. {} # {"fall"}
        OBVIOUS
      <4> QED
        BY <1>0, <1>1, <3>4, <4>1, <4>2, <4>3 DEF Closed
    <3>6. CASE b # p
      <4>1. pend'[b] = pend[b] /\ n \in 0..n
        BY <1>1, <2>3, <3>6
      <4>2. /\ pend'[b] = {"fall"} => RoseIn(b, i, n + 1)'
            /\ pend'[b] = {} => b \in down \/ RoseIn(b, i, n + 1)'
        BY <1>n, <2>7, <3>1, <3>2, <4>1 DEF Closed
      <4> QED
        BY <1>0, <1>1, <3>4, <4>2 DEF Closed
    <3> QED
      BY <3>5, <3>6
  <2>8. Fall(b, n + 1)' => Closed(b, n + 1)'
    <3> SUFFICES ASSUME Fall(b, n + 1)' PROVE Closed(b, n + 1)'
      OBVIOUS
    <3>1. b \in down /\ pend'[b] = {} /\ {} # {"fall"}
      BY <2>1, <2>3, <2>6
    <3>2. \A j \in (n + 1 + 1)..(n + 1) : FALSE
      BY <1>1
    <3> QED
      BY <1>0, <1>1, <3>1, <3>2 DEF Closed
  <2>9. \A i \in 1..(n + 1) : Fall(b, i)' => Closed(b, i)'
    <3>1. \A i \in 1..(n + 1) : i = n + 1 \/ (i \in 1..n /\ i \in 0..n)
      BY <1>1
    <3> QED
      BY <2>1, <2>5, <2>7, <2>8, <3>1
  <2>10. 0 \in 0..n
    BY <1>1
  <2> QED
    BY <2>1, <2>4, <2>7, <2>9, <2>10
<1> QED
  BY <1>1, <1>4, <1>5, <1>6, <1>7, <1>8, <1>9 DEF SwInv

\* Time passes, main() comes to its loop, tests the queue, copies its front.
LEMMA SwQuietSteps ==
  SwInv /\ (Tick \/ Loop \/ Test \/ Front \/ UNCHANGED swVars) => SwInv'
<1> SUFFICES ASSUME SwInv, Tick \/ Loop \/ Test \/ Front \/ UNCHANGED swVars
             PROVE  SwInv'
  OBVIOUS
<1>0. UNCHANGED <<down, phase, turned, late, pend, mEvents, mPrev_SW_Rise,
                  event, rise, pressAt, merged, edges, queued>>
  BY DEF Tick, Loop, Test, Front, swVars, inputVars, loopVars, swGhosts
<1>1. now' \in 0..MaxTime /\ now <= now'
  BY SwAssumption
  DEF Tick, Loop, Test, Front, swVars, inputVars, SwInv, GhostTypes
<1>2. /\ place' \in {"front", "pop"} => mEvents # <<>>
      /\ place' = "pop" => front' = mEvents[1]
      /\ place' \in {"loop", "test", "front", "pop"}
      /\ front' \in Events \cup {NoEvent}
  <2>1. CASE Tick \/ Loop \/ UNCHANGED swVars
    BY <2>1
    DEF Tick, Loop, swVars, loopVars, SwInv, SwTypeOK, Queued
  <2>2. CASE Test
    BY <2>2 DEF Test, SwInv, SwTypeOK, Queued
  <2>3. CASE Front
    <3>1. /\ place = "front" /\ front' = mEvents[1] /\ place' = "pop"
      BY <2>3 DEF Front
    <3>2. mEvents # <<>> /\ mEvents \in Seq(Events)
      BY <3>1 DEF SwInv, SwTypeOK, Queued
    <3>3. mEvents[1] \in Events
      BY <3>2
    <3> QED
      BY <3>1, <3>2, <3>3
  <2> QED
    BY <2>1, <2>2, <2>3
<1>3. SwTypeOK' /\ GhostTypes'
  BY <1>0, <1>1, <1>2 DEF SwInv, SwTypeOK, GhostTypes
<1>4. Counted'
  <2>1. Pending' = Pending
    BY <1>0 DEF Pending
  <2> QED
    BY <1>0, <2>1 DEF SwInv, Counted
<1>5. /\ event.of.at \in Int /\ now \in Int /\ now' \in Int
      /\ \A i \in 1..Len(mEvents) : mEvents[i].at \in Int
  BY <1>1, EventTypes, SwAssumption DEF SwInv, GhostTypes
<1>6. Queued' /\ Past'
  BY <1>0, <1>1, <1>2, <1>5 DEF SwInv, Queued, Past
<1>7. Turns' /\ DebounceHolds' /\ DirectionHolds' /\ Knob'
  BY <1>0 DEF SwInv, Turns, TurnOf, DebounceHolds, DirectionHolds, Knob
<1>8. Contacts'
  BY <1>0, ContactsStay DEF SwInv
<1> QED
  BY <1>3, <1>4, <1>6, <1>7, <1>8 DEF SwInv

\* What getEvent() takes: the first event, which is later than anything main()
\* knows of, and which is debounced by the time that really has passed.
LEMMA FrontIsNext ==
  ASSUME SwInv, place = "pop"
  PROVE  /\ front = mEvents[1] /\ mEvents # <<>> /\ front \in Events
         /\ front.n = event.of.n + 1
         /\ event.of.at <= front.at /\ front.at <= now
         /\ front.time = front.at % TimerWrap
         /\ TurnOf(front)
         /\ Debounced(front.time) =>
              front.at - rise >= PRESS_DEBOUNCE_DELAY_US
<1>1. front = mEvents[1] /\ mEvents # <<>> /\ mEvents \in Seq(Events)
  BY DEF SwInv, Queued, SwTypeOK
<1>2. 1 \in 1..Len(mEvents) /\ front \in Events
  BY <1>1
<1>3. /\ mEvents[1].n = queued - Len(mEvents) + 1
      /\ mEvents[1].time = mEvents[1].at % TimerWrap
      /\ event.of.at <= mEvents[1].at /\ mEvents[1].at <= now
  BY <1>2 DEF SwInv, Queued
<1>4. front.n = event.of.n + 1
  BY <1>1, <1>3 DEF SwInv, Queued
<1>5. TurnOf(front)
  BY <1>1, <1>2 DEF SwInv, Turns
<1>6. front.at \in Nat /\ rise \in Nat /\ rise <= front.at
      /\ event.of.at \in Nat
  BY <1>1, <1>2, <1>3, EventTypes, SwAssumption DEF SwInv, GhostTypes, Past
<1>7. ASSUME Debounced(front.time)
      PROVE  front.at - rise >= PRESS_DEBOUNCE_DELAY_US
  <2> DEFINE x == ((front.at % TimerWrap) - (rise % TimerWrap)) % TimerWrap
  <2>1. x >= PRESS_DEBOUNCE_DELAY_US
    BY <1>1, <1>3, <1>7 DEF Debounced, SwInv, Past
  <2>2. x <= front.at - rise
    BY <1>6, TimerDifference
  <2>3. x \in Int
    BY <1>6, SwAssumption
  <2> HIDE DEF x
  <2> QED
    BY <1>6, <2>1, <2>2, <2>3, SwAssumption
<1> QED
  BY <1>1, <1>2, <1>3, <1>4, <1>5, <1>7

\* A button that main() is told of twice was released in between, unless one
\* event held both edges.
LEMMA PressAfterRelease ==
  ASSUME SwInv, place = "pop", NEW b \in Buttons \ merged, Decode(front) = b
  PROVE  pressAt[b] <= rise
<1>1. front = mEvents[1] /\ 1 \in 1..Len(mEvents)
  BY FrontIsNext, EventTypes DEF SwInv
<1>2. Fall(b, 1)
  BY <1>1, DecodeMeans DEF Fall
<1>3. ~RoseIn(b, 0, 0)
  BY DEF RoseIn
<1>4. ~Closed(b, 0)
  BY <1>1, <1>2, <1>3 DEF Closed
<1> QED
  BY <1>4 DEF SwInv, Contacts

\* getEvent() takes an event: every index of the queue moves down by one.
LEMMA SwPop == SwInv /\ Pop => SwInv'
<1> SUFFICES ASSUME SwInv, Pop PROVE SwInv'
  OBVIOUS
<1>0. /\ place = "pop" /\ mEvents' = Tail(mEvents)
      /\ event' = [name |-> Decode(front), of |-> front]
      /\ mPrev_SW_Rise' = IF Released(front) THEN front.time ELSE mPrev_SW_Rise
      /\ place' = IF Decode(front) = "NO_EVENT" THEN "loop" ELSE "test"
      /\ rise' = IF Released(front) THEN front.at ELSE rise
      /\ pressAt' = [b \in Buttons |->
                       IF b = Decode(front) THEN front.at ELSE pressAt[b]]
      /\ merged' = IF front.gpio \in Buttons /\ front.mask = {"rise", "fall"}
                   THEN merged \cup {front.gpio} ELSE merged \ {Decode(front)}
      /\ UNCHANGED <<now, down, phase, turned, late, pend, front, edges, queued>>
  BY DEF Pop, Taken, inputVars
<1>n. PICK n \in Nat : n + 1 = Len(mEvents)
  <2>1. Len(mEvents) \in Nat /\ Len(mEvents) # 0
    BY <1>0, FrontIsNext, EventTypes DEF SwInv
  <2> QED
    BY <2>1
<1>1. /\ mEvents' \in Seq(Events) /\ Len(mEvents') = n
      /\ \A i \in 1..n : mEvents'[i] = mEvents[i + 1]
      /\ mEvents[1] = front
  BY <1>0, <1>n, FrontIsNext DEF SwInv, SwTypeOK
<1>2. /\ front \in Events /\ front.n = event.of.n + 1
      /\ event.of.at <= front.at /\ front.at <= now
      /\ front.time = front.at % TimerWrap /\ TurnOf(front)
  BY <1>0, FrontIsNext
<1>3. /\ front.at \in 0..MaxTime /\ front.time \in 0..(TimerWrap - 1)
      /\ front.at \in Nat /\ event.of.at \in Nat /\ now \in Nat /\ rise \in Nat
      /\ event.of.n \in Nat /\ queued \in Nat
  BY <1>2, EventTypes, SwAssumption DEF Events, SwInv, GhostTypes, Counted
<1>4. SwTypeOK' /\ GhostTypes'
  <2>1. event' \in [name : Buttons \cup {"NO_EVENT", "clockwise",
                                         "counter_clockwise"},
                    of : Events \cup {NoEvent}]
    BY <1>0, <1>2, DecodeMeans
  <2>2. pressAt' \in [Buttons -> Int] /\ merged' \subseteq Buttons
    BY <1>0, <1>3 DEF SwInv, GhostTypes
  <2>3. rise' \in Nat /\ mPrev_SW_Rise' \in 0..(TimerWrap - 1)
    BY <1>0, <1>3 DEF SwInv, SwTypeOK
  <2>4. place' \in {"loop", "test", "front", "pop"}
    BY <1>0
  <2> QED
    BY <1>0, <1>1, <1>2, <2>1, <2>2, <2>3, <2>4 DEF SwInv, SwTypeOK, GhostTypes
<1>5. Counted'
  <2>1. Pending' = Pending
    BY <1>0 DEF Pending
  <2> QED
    BY <1>0, <2>1 DEF SwInv, Counted
<1>6. Queued'
  <2>1. event.of.n = queued - (n + 1)
    BY <1>n DEF SwInv, Queued
  <2>2. event'.of.n = queued' - Len(mEvents') /\ event'.of.at = front.at
    BY <1>0, <1>1, <1>2, <1>3, <2>1
  <2>3. ASSUME NEW i \in 1..n
        PROVE  /\ mEvents'[i].n = queued' - Len(mEvents') + i
               /\ mEvents'[i].time = mEvents'[i].at % TimerWrap
               /\ front.at <= mEvents'[i].at /\ mEvents'[i].at <= now
               /\ \A j \in 1..i : mEvents'[j].at <= mEvents'[i].at
    <3>1. i + 1 \in 1..(n + 1) /\ mEvents'[i] = mEvents[i + 1]
          /\ 1 \in 1..(i + 1)
      BY <1>1
    <3>2. /\ mEvents[i + 1].n = queued - (n + 1) + (i + 1)
          /\ mEvents[i + 1].time = mEvents[i + 1].at % TimerWrap
          /\ mEvents[i + 1].at <= now
          /\ \A j \in 1..(i + 1) : mEvents[j].at <= mEvents[i + 1].at
      BY <1>n, <3>1 DEF SwInv, Queued
    <3>3. front.at <= mEvents[i + 1].at
      BY <1>1, <3>1, <3>2
    <3>4. \A j \in 1..i : mEvents'[j] = mEvents[j + 1] /\ j + 1 \in 1..(i + 1)
      BY <1>1
    <3>5. \A j \in 1..i : mEvents'[j].at <= mEvents'[i].at
      BY <3>1, <3>2, <3>4
    <3>6. queued - (n + 1) + (i + 1) = queued' - Len(mEvents') + i
      <4>1. queued' = queued /\ Len(mEvents') = n /\ queued \in Nat
        BY <1>0, <1>1, <1>3
      <4>2. queued - (n + 1) + (i + 1) = queued - n + i
        BY <4>1
      <4> QED
        BY <4>1, <4>2, Zenon
    <3> QED
      BY <3>1, <3>2, <3>3, <3>5, <3>6
  <2>4. place' \notin {"front", "pop"}
    BY <1>0
  <2> QED
    BY <1>0, <1>1, <2>2, <2>3, <2>4 DEF Queued
<1>7. Past'
  <2>1. mPrev_SW_Rise' = rise' % TimerWrap
    BY <1>0, <1>2 DEF SwInv, Past
  <2>2. rise' <= front.at /\ event'.of = front
    BY <1>0, <1>2, <1>3 DEF SwInv, Past
  <2>3. \A b \in Buttons : pressAt'[b] <= front.at
    <3> SUFFICES ASSUME NEW b \in Buttons PROVE pressAt'[b] <= front.at
      OBVIOUS
    <3>1. pressAt[b] <= event.of.at /\ pressAt[b] \in Int
      BY DEF SwInv, Past, GhostTypes
    <3> QED
      BY <1>0, <1>2, <1>3, <3>1
  <2> QED
    BY <1>0, <1>2, <2>1, <2>2, <2>3 DEF Past
<1>8. Knob' /\ Turns'
  <2>1. Knob'
    BY <1>0 DEF SwInv, Knob
  <2>2. \A i \in 1..n : i + 1 \in 1..(n + 1)
    OBVIOUS
  <2>3. \A i \in 1..n : TurnOf(mEvents'[i])
    BY <1>n, <1>1, <2>2 DEF SwInv, Turns
  <2> QED
    BY <1>1, <2>1, <2>3 DEF Turns, TurnOf
<1>9. DebounceHolds'
  <2> SUFFICES ASSUME Decode(front) # "NO_EVENT"
               PROVE  front.at - rise' >= PRESS_DEBOUNCE_DELAY_US
    BY <1>0 DEF DebounceHolds
  <2>1. ~Released(front) /\ Debounced(front.time)
    BY DecodeMeans
  <2>2. rise' = rise
    BY <1>0, <2>1
  <2> QED
    BY <1>0, <2>1, <2>2, FrontIsNext
<1>10. DirectionHolds'
  BY <1>0, <1>2, DecodeMeans DEF DirectionHolds, TurnOf
<1>11. Contacts'
  <2> SUFFICES ASSUME NEW b \in Buttons
               PROVE  /\ pend[b] = {"fall"} => b \in down
                      /\ pend[b] = {"rise"} => b \notin down
                      /\ \A i \in 1..n : Fall(b, i)' => Closed(b, i)'
                      /\ b \notin merged' => pressAt'[b] <= rise' \/ Closed(b, 0)'
    BY <1>0, <1>1 DEF Contacts
  <2>1. /\ pend[b] = {"fall"} => b \in down
        /\ pend[b] = {"rise"} => b \notin down
        /\ \A i \in 1..(n + 1) : Fall(b, i) => Closed(b, i)
        /\ b \notin merged => pressAt[b] <= rise \/ Closed(b, 0)
    BY <1>n DEF SwInv, Contacts
  <2>2. \A k \in 1..n : /\ Fall(b, k)' <=> Fall(b, k + 1)
                        /\ Rise(b, k)' <=> Rise(b, k + 1)
    BY <1>1 DEF Fall, Rise
  <2>3. ASSUME NEW i \in 0..n, NEW j \in 0..n
        PROVE  RoseIn(b, i + 1, j + 1) => RoseIn(b, i, j)'
    <3> SUFFICES ASSUME NEW k \in (i + 1 + 1)..(j + 1), Rise(b, k)
                 PROVE  \E m \in (i + 1)..j : Rise(b, m)'
      BY DEF RoseIn
    <3>1. k - 1 \in (i + 1)..j /\ k - 1 \in 1..n /\ (k - 1) + 1 = k
      OBVIOUS
    <3>2. Rise(b, (k - 1) + 1)
      BY <3>1
    <3> QED
      BY <2>2, <3>1, <3>2
  <2>4. ASSUME NEW i \in 0..n, Closed(b, i + 1) PROVE Closed(b, i)'
    <3>1. \A j \in (i + 1)..n : Fall(b, j)' => RoseIn(b, i, j - 1)'
      <4> SUFFICES ASSUME NEW j \in (i + 1)..n, Fall(b, j)'
                   PROVE  RoseIn(b, i, j - 1)'
        OBVIOUS
      <4>1. j \in 1..n /\ j + 1 \in (i + 1 + 1)..(n + 1) /\ j - 1 \in 0..n
            /\ (j + 1) - 1 = (j - 1) + 1
        OBVIOUS
      <4>2. Fall(b, j + 1)
        BY <2>2, <4>1
      <4>3. RoseIn(b, i + 1, (j + 1) - 1)
        BY <1>n, <2>4, <4>1, <4>2 DEF Closed
      <4> QED
        BY <2>3, <4>1, <4>3
    <3>2. RoseIn(b, i + 1, n + 1) => RoseIn(b, i, n)'
      BY <2>3
    <3> QED
      BY <1>0, <1>n, <1>1, <2>4, <3>1, <3>2 DEF Closed
  <2>5. ASSUME NEW i \in 1..n, Fall(b, i)' PROVE Closed(b, i)'
    <3>1. i + 1 \in 1..(n + 1) /\ i \in 0..n
      OBVIOUS
    <3>2. Fall(b, i + 1)
      BY <2>2, <2>5
    <3> QED
      BY <2>1, <2>4, <3>1, <3>2
  <2>6. Fall(b, 1) => Closed(b, 0)'
    <3>1. 1 \in 1..(n + 1) /\ 0 \in 0..n /\ 0 + 1 = 1
      OBVIOUS
    <3> QED
      BY <2>1, <2>4, <3>1
  <2>7. ASSUME b \notin merged' PROVE pressAt'[b] <= rise' \/ Closed(b, 0)'
    <3>1. CASE Decode(front) = b
      <4>1. Fall(b, 1)
        BY <1>1, <3>1, DecodeMeans DEF Fall
      <4> QED
        BY <2>6, <4>1
    <3>2. CASE Decode(front) # b
      <4>1. b \notin merged /\ pressAt'[b] = pressAt[b]
        BY <1>0, <2>7, <3>2
      <4>2. /\ pressAt[b] \in Int /\ pressAt[b] <= front.at
            /\ rise <= front.at /\ rise' \in {rise, front.at}
        <5>1. pressAt[b] <= event.of.at /\ pressAt[b] \in Int
              /\ rise <= event.of.at
          BY DEF SwInv, Past, GhostTypes
        <5> QED
          BY <1>0, <1>2, <1>3, <5>1
      <4>3. CASE pressAt[b] <= rise
        BY <1>3, <4>1, <4>2, <4>3
      <4>4. CASE Closed(b, 0)
        <5>1. ~Fall(b, 1)
          BY <1>n, <4>4 DEF Closed, RoseIn
        <5>2. CASE Rise(b, 1)
          <6>1. front.gpio = b /\ "rise" \in front.mask /\ front.mask \in Masks
            BY <1>1, <1>2, <5>2 DEF Rise, Events
          <6>2. front.mask = {"rise"}
            BY <1>0, <2>7, <6>1 DEF Masks
          <6>3. rise' = front.at
            BY <1>0, <6>1, <6>2 DEF Released
          <6> QED
            BY <4>1, <4>2, <6>3
        <5>3. CASE ~Rise(b, 1)
          <6>1. \A j \in 0..(n + 1) : RoseIn(b, 0, j) => RoseIn(b, 1, j)
            <7> SUFFICES ASSUME NEW j \in 0..(n + 1), NEW k \in (0 + 1)..j,
                                Rise(b, k)
                         PROVE  \E m \in (1 + 1)..j : Rise(b, m)
              BY DEF RoseIn
            <7>1. k # 1
              BY <5>3
            <7>2. k \in (1 + 1)..j
              BY <7>1
            <7> QED
              BY <7>2
          <6>2. \A j \in (1 + 1)..(n + 1) : Fall(b, j) => RoseIn(b, 1, j - 1)
            <7> SUFFICES ASSUME NEW j \in (1 + 1)..(n + 1), Fall(b, j)
                         PROVE  RoseIn(b, 1, j - 1)
              OBVIOUS
            <7>1. j \in (0 + 1)..(n + 1) /\ j - 1 \in 0..(n + 1)
              OBVIOUS
            <7>2. RoseIn(b, 0, j - 1)
              BY <1>n, <4>4, <7>1 DEF Closed
            <7> QED
              BY <6>1, <7>1, <7>2
          <6>3. n + 1 \in 0..(n + 1)
            OBVIOUS
          <6>4. Closed(b, 1)
            BY <1>n, <4>4, <6>1, <6>2, <6>3 DEF Closed
          <6>5. 0 \in 0..n /\ 0 + 1 = 1
            OBVIOUS
          <6> QED
            BY <2>4, <6>4, <6>5
        <5> QED
          BY <5>2, <5>3
      <4> QED
        BY <2>1, <4>1, <4>3, <4>4
    <3> QED
      BY <3>1, <3>2
  <2> QED
    BY <2>1, <2>5, <2>7
<1> QED
  BY <1>4, <1>5, <1>6, <1>7, <1>8, <1>9, <1>10, <1>11 DEF SwInv

\* Every step keeps the invariant.
LEMMA SwInvStep == SwInv /\ [SwNext]_swVars => SwInv'
BY SwContact, SwTurn, SwInterrupt, SwQuietSteps, SwPop DEF SwNext, MainSteps

\* Only getEvent() reports, and reports the event it takes.
LEMMA OnlyPopReports ==
  ASSUME SwInv, [SwNext]_swVars, event' # event
  PROVE  /\ place = "pop" /\ event' = [name |-> Decode(front), of |-> front]
BY DEF SwNext, MainSteps, Tick, Contact, Turn, interruptHandler, Loop, Test,
       Front, Pop, loopVars, swVars

\* What main() is told of the buttons and the knob is what happened: events in
\* their order and none lost, presses apart, turns in their direction, and
\* every release remembered at the time it really had.
THEOREM ReportsAreTrue == SwSpec => ReportsHold
<1>1. SwInv => SwTypeOK /\ DebounceHolds /\ DirectionHolds
  BY DEF SwInv
<1>2. SwInv /\ [SwNext]_swVars =>
        (event' # event => event'.of.n = event.of.n + 1)
  BY OnlyPopReports, FrontIsNext
<1>3. SwInv /\ [SwNext]_swVars =>
        \A b \in Buttons \ merged :
          event'.name = b /\ event' # event
            => event'.of.at - pressAt[b] >= PRESS_DEBOUNCE_DELAY_US
  <2> SUFFICES ASSUME SwInv, [SwNext]_swVars, NEW b \in Buttons \ merged,
                      event'.name = b, event' # event
               PROVE  event'.of.at - pressAt[b] >= PRESS_DEBOUNCE_DELAY_US
    OBVIOUS
  <2>1. place = "pop" /\ Decode(front) = b /\ event'.of = front
    BY OnlyPopReports
  <2>2. front.at - rise >= PRESS_DEBOUNCE_DELAY_US /\ front \in Events
    BY <2>1, FrontIsNext, DecodeMeans, SwAssumption
  <2>3. pressAt[b] <= rise
    BY <2>1, PressAfterRelease
  <2>4. front.at \in Int /\ rise \in Int /\ pressAt[b] \in Int
    BY <2>2, SwAssumption DEF Events, SwInv, GhostTypes
  <2> QED
    BY <2>1, <2>2, <2>3, <2>4, SwAssumption
<1>4. SwSpec => []SwInv
  BY SwInvInit, SwInvStep, PTL DEF SwSpec
<1>5. SwSpec => [](SwTypeOK /\ DebounceHolds /\ DirectionHolds)
  BY <1>1, <1>4, PTL
<1>6. SwSpec => PressesApart
  BY <1>3, <1>4, PTL DEF SwSpec, PressesApart
<1>7. SwSpec => EventsInOrder
  BY <1>2, <1>4, PTL DEF SwSpec, EventsInOrder
<1> QED
  BY <1>5, <1>6, <1>7 DEF ReportsHold

-----------------------------------------------------------------------------
(***************************************************************************)
(* The ring of RingBuffer.cpp is a queue for every size and every alphabet *)
(* of bytes.  RingInv is inductive: the indices are in range and neither   *)
(* side's slot is disturbed.  The refinement then reduces to arithmetic on *)
(* the indices: publishing a byte extends Contents by the slot at head,    *)
(* releasing one drops the slot at tail, and no other step touches a slot  *)
(* that Contents shows.                                                    *)
(***************************************************************************)
RingInv == RingTypeOK /\ SlotsOwned

\* The index after i in RingBuffer.cpp, without the modulus.
LEMMA SuccWraps ==
  ASSUME NEW i \in Index
  PROVE  /\ Succ(i) = IF i + 1 = Size THEN 0 ELSE i + 1
         /\ Succ(i) \in Index
BY RingAssumption DEF Succ, Index

\* A new ring: put() and get() are idle and the indices are equal.
LEMMA RingInvInit == RingInit => RingInv
BY RingAssumption DEF RingInit, RingInv, RingTypeOK, SlotsOwned, Index

\* Every step of put() and get() keeps the indices in range.
LEMMA RingTypeStep == RingTypeOK /\ [RingNext]_ringVars => RingTypeOK'
<1> SUFFICES ASSUME RingTypeOK, [RingNext]_ringVars PROVE RingTypeOK'
  OBVIOUS
<1> USE DEF RingTypeOK
<1>1. ASSUME NEW d \in Bytes, PutBegin(d) PROVE RingTypeOK'
  BY <1>1 DEF PutBegin
<1>2. CASE PutStore
  BY <1>2 DEF PutStore
<1>3. CASE PutPublish
  BY <1>3, SuccWraps DEF PutPublish
<1>4. CASE GetRead
  BY <1>4 DEF GetRead
<1>5. CASE GetAdvance
  BY <1>5, SuccWraps DEF GetAdvance
<1>6. CASE UNCHANGED ringVars
  BY <1>6 DEF ringVars
<1> QED
  BY <1>1, <1>2, <1>3, <1>4, <1>5, <1>6 DEF RingNext

\* No step of one side disturbs the slot the other side is working on.
LEMMA SlotsStep == RingInv /\ [RingNext]_ringVars => SlotsOwned'
<1> SUFFICES ASSUME RingTypeOK, SlotsOwned, [RingNext]_ringVars
             PROVE  SlotsOwned'
  BY DEF RingInv
<1>a. Succ(head) = IF head + 1 = Size THEN 0 ELSE head + 1
  BY SuccWraps DEF RingTypeOK
<1>b. Succ(tail) = IF tail + 1 = Size THEN 0 ELSE tail + 1
  BY SuccWraps DEF RingTypeOK
<1>c. head \in Index /\ tail \in Index /\ Size \in Nat \ {0}
  BY RingAssumption DEF RingTypeOK
<1>1. ASSUME NEW d \in Bytes, PutBegin(d) PROVE SlotsOwned'
  BY <1>1 DEF PutBegin, SlotsOwned, full, empty, RingTypeOK
<1>2. CASE PutStore
  <2>1. head # tail \/ getting # "advance"
    BY DEF SlotsOwned, empty
  <2> QED
    BY <1>2, <1>c, <2>1
    DEF PutStore, SlotsOwned, full, empty, RingTypeOK
<1>3. CASE PutPublish
  <2>1. ~full
    BY <1>3 DEF PutPublish, SlotsOwned
  <2>2. Succ(head) # tail
    BY <2>1 DEF full
  <2> QED
    BY <1>3, <2>2, <1>c DEF PutPublish, SlotsOwned, full, empty, RingTypeOK
<1>4. CASE GetRead
  BY <1>4 DEF GetRead, SlotsOwned, full, empty, RingTypeOK
<1>5. CASE GetAdvance
  <2>1. head # tail /\ tail' = Succ(tail)
    BY <1>5 DEF GetAdvance, SlotsOwned, empty
  <2>2. Succ(head) # Succ(tail)
    BY <2>1, <1>a, <1>b, <1>c DEF Index
  <2>3. head' = head /\ putting' = putting /\ buffer' = buffer /\ data' = data
        /\ getting' = "idle"
    BY <1>5 DEF GetAdvance
  <2>4. ~full'
    BY <2>1, <2>2, <2>3 DEF full, Succ
  <2> QED
    BY <2>3, <2>4 DEF SlotsOwned
<1>6. CASE UNCHANGED ringVars
  BY <1>6 DEF ringVars, SlotsOwned, full, empty, Succ
<1> QED
  BY <1>1, <1>2, <1>3, <1>4, <1>5, <1>6 DEF RingNext

\* put() and get() never index outside the buffer.
THEOREM RingTypeCorrect == RingSpec => []RingTypeOK
<1>1. RingInit => RingTypeOK
  BY RingInvInit DEF RingInv
<1> QED
  BY <1>1, RingTypeStep, PTL DEF RingSpec

\* The inductive invariant.
LEMMA RingInvariant == RingSpec => []RingInv
<1>1. RingInv /\ [RingNext]_ringVars => RingInv'
  BY RingTypeStep, SlotsStep DEF RingInv
<1> QED
  BY <1>1, RingInvInit, PTL DEF RingSpec

\* Whatever the interleaving, the producer stores into a free slot and the
\* consumer reads a slot that stays as it read it.
THEOREM SlotsAreOwned == RingSpec => []SlotsOwned
<1>1. RingInv => SlotsOwned
  BY DEF RingInv
<1> QED
  BY <1>1, RingInvariant, PTL

\* How many bytes the ring holds, and which slots they are in.
LEMMA CountType ==
  ASSUME RingTypeOK
  PROVE  Count \in 0..(Size - 1) /\ (Count = 0 <=> empty)
BY RingAssumption DEF RingTypeOK, Count, Index, empty

LEMMA SlotType ==
  ASSUME RingTypeOK, NEW i \in 1..Count
  PROVE  Wrap(tail + i - 1) \in Index /\ Wrap(tail + i - 1) # head
BY RingAssumption DEF RingTypeOK, Count, Index, Wrap

ContentsOK == Contents \in Seq(Bytes) /\ Len(Contents) = Count

LEMMA ContentsType == RingTypeOK => ContentsOK
<1> SUFFICES ASSUME RingTypeOK PROVE ContentsOK
  OBVIOUS
<1>1. \A i \in 1..Count : buffer[Wrap(tail + i - 1)] \in Bytes
  BY SlotType DEF RingTypeOK
<1>2. Count \in Nat
  BY CountType, RingAssumption
<1> QED
  BY <1>1, <1>2 DEF Contents, ContentsOK

\* The same of the state after a step.
LEMMA ContentsTypeNext == RingTypeOK' => ContentsOK'
BY ContentsType, PTL

\* Publishing appends the byte in the slot at head.
LEMMA PublishAppends ==
  ASSUME RingInv, PutPublish
  PROVE  /\ Len(Contents) < Size - 1
         /\ Contents' = Append(Contents, data)
<1>1. RingTypeOK /\ RingTypeOK' /\ SlotsOwned
  BY RingTypeStep DEF RingInv, RingNext
<1>2. Succ(head) # tail /\ buffer[head] = data
  BY <1>1 DEF PutPublish, SlotsOwned, full
<1>3. head' = Succ(head) /\ tail' = tail /\ buffer' = buffer
  BY DEF PutPublish
<1>4. head \in Index /\ tail \in Index /\ Size \in Nat \ {0}
  BY <1>1, RingAssumption DEF RingTypeOK
<1>5. Succ(head) = IF head + 1 = Size THEN 0 ELSE head + 1
  BY <1>4, SuccWraps
<1>6. Count < Size - 1 /\ Count' = Count + 1
  BY <1>2, <1>3, <1>4, <1>5 DEF Count, Index
<1>7. Wrap(tail + (Count + 1) - 1) = head
  BY <1>4 DEF Count, Index, Wrap
<1>8. Count \in Nat
  BY <1>1, <1>4, CountType
<1>9. Contents \in Seq(Bytes) /\ Contents' \in Seq(Bytes) /\ data \in Bytes
      /\ Len(Contents) = Count /\ Len(Contents') = Count + 1
  BY <1>1, <1>6, ContentsType, ContentsTypeNext DEF RingTypeOK, ContentsOK
<1>10. ASSUME NEW i \in 1..(Count + 1)
       PROVE  Contents'[i] = Append(Contents, data)[i]
  <2>1. Contents'[i] = buffer[Wrap(tail + i - 1)]
    BY <1>3, <1>6 DEF Contents, Wrap
  <2>a. /\ \A j \in 1..Count : Append(Contents, data)[j] = Contents[j]
        /\ Append(Contents, data)[Count + 1] = data
    BY <1>9, AppendProperties
  <2>2. CASE i \in 1..Count
    <3>1. Contents[i] = buffer[Wrap(tail + i - 1)]
      BY <2>2 DEF Contents
    <3> QED
      BY <2>1, <2>2, <2>a, <3>1
  <2>3. CASE i = Count + 1
    <3>1. Contents'[i] = buffer[head]
      BY <2>1, <2>3, <1>7, Zenon
    <3> QED
      BY <3>1, <2>3, <2>a, <1>2, Zenon
  <2>4. i \in 1..Count \/ i = Count + 1
    BY <1>8
  <2> QED
    BY <2>2, <2>3, <2>4
<1>11. Contents' = Append(Contents, data)
  BY <1>9, <1>10, SeqEqual, AppendProperties
<1> QED
  BY <1>6, <1>9, <1>11

\* Releasing removes the byte in the slot at tail, the one get() read.
LEMMA AdvanceRemoves ==
  ASSUME RingInv, GetAdvance
  PROVE  /\ Contents # <<>>
         /\ last' = Head(Contents)
         /\ Contents' = Tail(Contents)
<1>1. RingTypeOK /\ RingTypeOK' /\ SlotsOwned
  BY RingTypeStep DEF RingInv, RingNext
<1>2. head # tail /\ value = buffer[tail]
  BY <1>1 DEF GetAdvance, SlotsOwned, empty
<1>3. head' = head /\ tail' = Succ(tail) /\ buffer' = buffer /\ last' = value
  BY <1>2 DEF GetAdvance, empty
<1>4. head \in Index /\ tail \in Index /\ Size \in Nat \ {0}
  BY <1>1, RingAssumption DEF RingTypeOK
<1>5. Succ(tail) = IF tail + 1 = Size THEN 0 ELSE tail + 1
  BY <1>4, SuccWraps
<1>6. Count \in Nat \ {0} /\ Count' = Count - 1
  BY <1>2, <1>3, <1>4, <1>5 DEF Count, Index
<1>7. Contents \in Seq(Bytes) /\ Contents' \in Seq(Bytes)
      /\ Len(Contents) = Count /\ Len(Contents') = Count - 1
  BY <1>1, <1>6, ContentsType, ContentsTypeNext DEF ContentsOK
<1>8. Contents # <<>>
  BY <1>6, <1>7
<1>9. /\ Tail(Contents) \in Seq(Bytes) /\ Len(Tail(Contents)) = Count - 1
      /\ \A i \in 1..(Count - 1) : Tail(Contents)[i] = Contents[i + 1]
  BY <1>7, <1>8, HeadTailProperties
<1>10. ASSUME NEW i \in 1..(Count - 1)
       PROVE  Contents'[i] = Tail(Contents)[i]
  <2>1. i + 1 \in 1..Count
    BY <1>6
  <2>2. Contents[i + 1] = buffer[Wrap(tail + (i + 1) - 1)]
    BY <2>1 DEF Contents
  <2>3. Contents'[i] = buffer[Wrap(Succ(tail) + i - 1)]
    BY <1>3, <1>6 DEF Contents, Wrap
  <2>4. Wrap(tail + (i + 1) - 1) = Wrap(Succ(tail) + i - 1)
    BY <1>4, <1>5, <1>6 DEF Wrap, Index, Count
  <2> QED
    BY <1>9, <2>2, <2>3, <2>4
<1>11. Contents' = Tail(Contents)
  BY <1>7, <1>9, <1>10, SeqEqual
<1>12. Wrap(tail + 1 - 1) = tail
  BY <1>4 DEF Wrap, Index
<1>13. Head(Contents) = Contents[1] /\ Contents # <<>>
  BY <1>7, <1>8
<1>14. 1 \in 1..Count
  BY <1>6
<1>15. Contents[1] = buffer[tail]
  BY <1>12, <1>14 DEF Contents
<1> QED
  BY <1>2, <1>3, <1>11, <1>13, <1>15

\* Storing writes to a slot that Contents does not show.
LEMMA StoreIsHidden ==
  ASSUME RingInv, PutStore
  PROVE  Contents' = Contents
<1>1. RingTypeOK
  BY DEF RingInv
<1>2. Count' = Count /\ tail' = tail /\ head' = head
  BY DEF PutStore, Count
<1>3. ASSUME NEW i \in 1..Count
      PROVE  buffer'[Wrap(tail + i - 1)] = buffer[Wrap(tail + i - 1)]
  BY <1>1, SlotType DEF PutStore, RingTypeOK
<1> QED
  BY <1>2, <1>3 DEF Contents, Wrap

\* The lock-free ring of RingBuffer.cpp implements a bounded queue, whatever
\* its size and however put() and get() interleave.
THEOREM RingIsQueue == RingSpec => ImplementsQueue
<1>1. RingInit => Queue!QueueInit
  <2> SUFFICES ASSUME RingInit PROVE Queue!QueueInit
    OBVIOUS
  <2>1. RingTypeOK /\ empty
    BY RingInvInit DEF RingInv, RingInit, empty
  <2>2. Contents \in Seq(Bytes) /\ Len(Contents) = 0
    BY <2>1, ContentsType, CountType DEF ContentsOK
  <2> QED
    BY <2>2, RingAssumption DEF Queue!QueueInit, RingInit
<1>2. RingInv /\ [RingNext]_ringVars => [Queue!QueueNext]_<<Contents, last>>
  <2> SUFFICES ASSUME RingInv, [RingNext]_ringVars
               PROVE  [Queue!QueueNext]_<<Contents, last>>
    OBVIOUS
  <2>1. ASSUME NEW d \in Bytes, PutBegin(d) PROVE UNCHANGED <<Contents, last>>
    BY <2>1 DEF PutBegin, Contents, Count, Wrap
  <2>2. CASE PutStore
    BY <2>2, StoreIsHidden DEF PutStore
  <2>3. CASE PutPublish
    <3>1. data \in Bytes
      BY DEF RingInv, RingTypeOK
    <3>2. Queue!Enqueue(data)
      BY <2>3, PublishAppends DEF Queue!Enqueue, PutPublish
    <3> QED
      BY <3>1, <3>2 DEF Queue!QueueNext
  <2>4. CASE GetRead
    BY <2>4 DEF GetRead, Contents, Count, Wrap
  <2>5. CASE GetAdvance
    BY <2>5, AdvanceRemoves DEF Queue!Dequeue, Queue!QueueNext
  <2>6. CASE UNCHANGED ringVars
    BY <2>6 DEF ringVars, Contents, Count, Wrap
  <2> QED
    BY <2>1, <2>2, <2>3, <2>4, <2>5, <2>6 DEF RingNext
<1> QED
  BY <1>1, <1>2, RingInvariant, PTL DEF RingSpec, ImplementsQueue, Queue!QueueSpec

-----------------------------------------------------------------------------
(***************************************************************************)
(* The interrupt-driven transmitter and receiver of PicoUart.cpp, for      *)
(* every capacity, FIFO depth and trigger level.  UartInv is inductive;    *)
(* each of its parts is shown to survive every step in a lemma of its own. *)
(***************************************************************************)
\* What Append and Tail do to a queue of numbered bytes.
LEMMA AppendFacts ==
  ASSUME NEW s \in Seq(Nat), NEW b \in Nat
  PROVE  /\ Append(s, b) \in Seq(Nat)
         /\ Len(Append(s, b)) = Len(s) + 1
         /\ \A i \in 1..Len(s) : Append(s, b)[i] = s[i]
         /\ Append(s, b)[Len(s) + 1] = b
BY AppendProperties

LEMMA TailFacts ==
  ASSUME NEW s \in Seq(Nat), s # <<>>
  PROVE  /\ Head(s) \in Nat /\ Head(s) = s[1]
         /\ Tail(s) \in Seq(Nat)
         /\ Len(s) \in Nat \ {0}
         /\ Len(Tail(s)) = Len(s) - 1
         /\ \A i \in 1..(Len(s) - 1) : Tail(s)[i] = s[i + 1]
<1>1. Head(s) = s[1] /\ Len(s) \in Nat \ {0}
  OBVIOUS
<1> QED
  BY <1>1, HeadTailProperties

LEMMA LenFacts == \A s \in Seq(Nat) : Len(s) \in Nat
OBVIOUS

\* The constructor leaves the UART quiet.
LEMMA UartInvInit == UartInit => UartInv
<1> SUFFICES ASSUME UartInit PROVE UartInv
  OBVIOUS
<1> USE UartAssumption DEF UartInit
<1>1. UartTypeOK
  <2>1. \A s : s = <<>> => s \in Seq(Nat) /\ Len(s) = 0
    OBVIOUS
  <2>2. nvic \in BOOLEAN /\ txim \in BOOLEAN /\ ris \in BOOLEAN
        /\ overrun \in BOOLEAN
    BY Zenon
  <2> QED
    BY <2>1, <2>2 DEF UartTypeOK
<1>2. TxInOrder /\ RxInOrder
  BY DEF TxInOrder, RxInOrder
<1>3. Masked
  BY DEF Masked
<1>4. Armed /\ Covered
  BY DEF Armed, Covered
<1> QED
  BY <1>1, <1>2, <1>3, <1>4 DEF UartInv

\* No step overfills a ring or a FIFO.
LEMMA UartTypeStep == UartTypeOK /\ [UartNext]_uartVars => UartTypeOK'
<1> SUFFICES ASSUME UartTypeOK, [UartNext]_uartVars PROVE UartTypeOK'
  OBVIOUS
<1> USE UartAssumption DEF UartTypeOK, Main, mainVars, txVars, rxVars
<1>1. ASSUME NEW n \in 0..MaxWrite, Write(n) PROVE UartTypeOK'
  BY <1>1 DEF Write
<1>2. CASE FillByte
  BY <1>2, AppendFacts DEF FillByte
<1>3. CASE FillDone
  BY <1>3 DEF FillDone
<1>4. CASE Mask
  BY <1>4 DEF Mask
<1>5. CASE LeaveToHandler
  BY <1>5 DEF LeaveToHandler
<1>6. CASE Kick
  BY <1>6 DEF Kick
<1>7. CASE Unmask
  BY <1>7 DEF Unmask
<1>8. CASE Push
  BY <1>8, AppendFacts, TailFacts DEF Push, Writable
<1>9. CASE IrqTxEnd
  BY <1>9 DEF IrqTxEnd, IrqTxReturn
<1>10. CASE IrqEnter
  BY <1>10 DEF IrqEnter
<1>11. CASE IrqRxByte
  BY <1>11, AppendFacts, TailFacts DEF IrqRxByte
<1>12. CASE IrqRxEnd
  BY <1>12 DEF IrqRxEnd
<1>13. CASE TakeByte
  BY <1>13, TailFacts DEF TakeByte
<1>14. CASE HwSend
  BY <1>14, TailFacts DEF HwSend
<1>15. CASE HwReceive
  BY <1>15, AppendFacts DEF HwReceive
<1>16. CASE UNCHANGED uartVars
  BY <1>16 DEF uartVars
<1> QED
  BY <1>1, <1>2, <1>3, <1>4, <1>5, <1>6, <1>7, <1>8, <1>9, <1>10, <1>11,
     <1>12, <1>13, <1>14, <1>15, <1>16 DEF UartNext, WriteStep, IrqStep

\* write() shuts the handler out for as long as it handles TXIM.
LEMMA MaskedStep ==
  UartTypeOK /\ Masked /\ [UartNext]_uartVars => Masked'
<1> SUFFICES ASSUME UartTypeOK, Masked, [UartNext]_uartVars PROVE Masked'
  OBVIOUS
<1> USE DEF Masked, Main, mainVars, txVars, rxVars
<1>1. CASE \E n \in 0..MaxWrite : Write(n)
  BY <1>1 DEF Write
<1>2. CASE WriteStep
  BY <1>2
  DEF WriteStep, FillByte, FillDone, Mask, LeaveToHandler, Kick, Unmask
<1>3. CASE Push
  BY <1>3 DEF Push
<1>4. CASE IrqTxEnd
  BY <1>4 DEF IrqTxEnd, IrqTxReturn, InIrqTx, UartTypeOK
<1>5. CASE IrqEnter
  BY <1>5 DEF IrqEnter
<1>6. CASE IrqStep
  BY <1>6 DEF IrqStep, IrqRxByte, IrqRxEnd
<1>7. CASE TakeByte \/ HwSend \/ HwReceive
  BY <1>7 DEF TakeByte, HwSend, HwReceive
<1>8. CASE UNCHANGED uartVars
  BY <1>8 DEF uartVars
<1> QED
  BY <1>1, <1>2, <1>3, <1>4, <1>5, <1>6, <1>7, <1>8 DEF UartNext

\* Outside uart_irq_tx() an enabled interrupt is pending or will be.
LEMMA ArmedStep ==
  UartTypeOK /\ Masked /\ Armed /\ [UartNext]_uartVars => Armed'
<1> SUFFICES ASSUME UartTypeOK, Masked, Armed, [UartNext]_uartVars
             PROVE  Armed'
  OBVIOUS
<1> USE DEF Armed, Main, mainVars, txVars, rxVars
<1>1. CASE \E n \in 0..MaxWrite : Write(n)
  BY <1>1 DEF Write
<1>2. CASE WriteStep
  BY <1>2
  DEF WriteStep, FillByte, FillDone, Mask, LeaveToHandler, Kick, Unmask
<1>3. CASE Push
  BY <1>3 DEF Push, InIrqTx
<1>4. CASE IrqTxEnd
  <2>1. txim' => ~Writable /\ hwTx' = hwTx
    BY <1>4, Zenon DEF IrqTxEnd, IrqTxReturn
  <2>2. ~Writable => Len(hwTx) > Trigger
    BY UartAssumption, LenFacts DEF Writable, UartTypeOK
  <2> QED
    BY <2>1, <2>2
<1>5. CASE IrqEnter
  BY <1>5 DEF IrqEnter
<1>6. CASE IrqStep
  BY <1>6 DEF IrqStep, IrqRxByte, IrqRxEnd
<1>7. CASE TakeByte \/ HwReceive
  BY <1>7 DEF TakeByte, HwReceive
<1>8. CASE HwSend
  <2>1. txim' = txim /\ pc' = pc /\ isr' = isr
    BY <1>8 DEF HwSend
  <2>2. ris \/ Len(hwTx) > Trigger => ris' \/ Len(hwTx') > Trigger
    <3>1. ris \/ Len(hwTx) = Trigger + 1 => ris'
      BY <1>8, Zenon DEF HwSend
    <3>2. Len(hwTx) > Trigger => Len(hwTx) = Trigger + 1 \/ Len(hwTx') > Trigger
      BY <1>8, TailFacts, UartAssumption DEF HwSend, UartTypeOK
    <3> QED
      BY <3>1, <3>2
  <2> QED
    BY <2>1, <2>2
<1>9. CASE UNCHANGED uartVars
  BY <1>9 DEF uartVars
<1> QED
  BY <1>1, <1>2, <1>3, <1>4, <1>5, <1>6, <1>7, <1>8, <1>9 DEF UartNext

\* Outside write() a disabled interrupt means an empty ring.
LEMMA CoveredStep ==
  UartTypeOK /\ Masked /\ Covered /\ [UartNext]_uartVars => Covered'
<1> SUFFICES ASSUME UartTypeOK, Masked, Covered, [UartNext]_uartVars
             PROVE  Covered'
  OBVIOUS
<1> USE DEF Covered, Main, mainVars, txVars, rxVars
<1>1. CASE \E n \in 0..MaxWrite : Write(n)
  BY <1>1 DEF Write
<1>2. CASE WriteStep
  BY <1>2
  DEF WriteStep, FillByte, FillDone, Mask, LeaveToHandler, Kick, Unmask
<1>3. CASE Push
  BY <1>3 DEF Push, InIrqTx
<1>4. CASE IrqTxEnd
  BY <1>4 DEF IrqTxEnd, IrqTxReturn, InIrqTx, Masked, UartTypeOK
<1>5. CASE IrqEnter
  BY <1>5 DEF IrqEnter
<1>6. CASE IrqStep
  BY <1>6 DEF IrqStep, IrqRxByte, IrqRxEnd
<1>7. CASE TakeByte \/ HwReceive \/ HwSend
  BY <1>7 DEF TakeByte, HwReceive, HwSend
<1>8. CASE UNCHANGED uartVars
  BY <1>8 DEF uartVars
<1> QED
  BY <1>1, <1>2, <1>3, <1>4, <1>5, <1>6, <1>7, <1>8 DEF UartNext

\* The transmit queues carry consecutive bytes through every step.
LEMMA TxStep ==
  UartTypeOK /\ TxInOrder /\ [UartNext]_uartVars => TxInOrder'
<1> SUFFICES ASSUME UartTypeOK, TxInOrder, [UartNext]_uartVars
             PROVE  TxInOrder'
  OBVIOUS
<1>a. /\ tx \in Seq(Nat) /\ hwTx \in Seq(Nat)
      /\ Len(tx) \in Nat /\ Len(hwTx) \in Nat
      /\ written \in Nat /\ sent \in Nat
  BY LenFacts DEF UartTypeOK
<1>1. CASE FillByte
  <2>1. tx' = Append(tx, written + 1) /\ written' = written + 1
        /\ hwTx' = hwTx /\ sent' = sent
    BY <1>1 DEF FillByte
  <2>2. written + 1 = sent + Len(hwTx) + Len(tx) + 1 /\ written + 1 \in Nat
    BY <1>a DEF TxInOrder
  <2>3. /\ Len(tx') = Len(tx) + 1
        /\ \A i \in 1..Len(tx) : tx'[i] = tx[i]
        /\ tx'[Len(tx) + 1] = written + 1
    BY <1>a, <2>1, <2>2, AppendFacts
  <2>4. \A i \in 1..Len(tx') : i \in 1..Len(tx) \/ i = Len(tx) + 1
    BY <1>a, <2>3
  <2> QED
    BY <1>a, <2>1, <2>2, <2>3, <2>4 DEF TxInOrder
<1>2. CASE Push
  <2>1. /\ hwTx' = Append(hwTx, Head(tx)) /\ tx' = Tail(tx) /\ tx # <<>>
        /\ written' = written /\ sent' = sent
    BY <1>2 DEF Push
  <2>2. /\ Head(tx) = sent + Len(hwTx) + 1 /\ Head(tx) \in Nat
        /\ Len(tx) \in Nat \ {0} /\ Len(tx') = Len(tx) - 1
        /\ \A i \in 1..(Len(tx) - 1) : tx'[i] = tx[i + 1]
    BY <1>a, <2>1, TailFacts DEF TxInOrder
  <2>3. /\ Len(hwTx') = Len(hwTx) + 1
        /\ \A i \in 1..Len(hwTx) : hwTx'[i] = hwTx[i]
        /\ hwTx'[Len(hwTx) + 1] = Head(tx)
    BY <1>a, <2>1, <2>2, AppendFacts
  <2>4. ASSUME NEW i \in 1..Len(hwTx') PROVE hwTx'[i] = sent' + i
    <3>1. CASE i \in 1..Len(hwTx)
      BY <2>1, <2>3, <3>1 DEF TxInOrder
    <3>2. CASE i = Len(hwTx) + 1
      BY <1>a, <2>1, <2>2, <2>3, <3>2
    <3> QED
      BY <1>a, <2>3, <3>1, <3>2
  <2>5. ASSUME NEW i \in 1..Len(tx') PROVE tx'[i] = sent' + Len(hwTx') + i
    <3>1. i + 1 \in 1..Len(tx) /\ tx'[i] = tx[i + 1]
      BY <2>2
    <3>2. tx[i + 1] = sent + Len(hwTx) + (i + 1)
      BY <3>1 DEF TxInOrder
    <3> QED
      BY <1>a, <2>1, <2>3, <3>1, <3>2
  <2>6. Len(hwTx') + Len(tx') = written' - sent'
    <3>1. Len(hwTx) + Len(tx) = written - sent
      BY DEF TxInOrder
    <3>2. Len(tx') = Len(tx) - 1 /\ Len(hwTx') = Len(hwTx) + 1
      BY <2>2, <2>3
    <3>3. written' = written /\ sent' = sent
      BY <2>1
    <3> QED
      BY SMTT(30), <1>a, <3>1, <3>2, <3>3
  <2> QED
    BY <2>4, <2>5, <2>6 DEF TxInOrder
<1>3. CASE HwSend
  <2>1. /\ sent' = Head(hwTx) /\ hwTx' = Tail(hwTx) /\ hwTx # <<>>
        /\ written' = written /\ tx' = tx
    BY <1>3 DEF HwSend
  <2>2. /\ sent' = sent + 1
        /\ Len(hwTx) \in Nat \ {0} /\ Len(hwTx') = Len(hwTx) - 1
        /\ \A i \in 1..(Len(hwTx) - 1) : hwTx'[i] = hwTx[i + 1]
    BY <1>a, <2>1, TailFacts DEF TxInOrder
  <2>3. ASSUME NEW i \in 1..Len(hwTx') PROVE hwTx'[i] = sent' + i
    <3>1. i + 1 \in 1..Len(hwTx) /\ hwTx'[i] = hwTx[i + 1]
      BY <2>2
    <3>2. hwTx[i + 1] = sent + (i + 1)
      BY <3>1 DEF TxInOrder
    <3> QED
      BY <1>a, <2>2, <3>1, <3>2
  <2>4. ASSUME NEW i \in 1..Len(tx') PROVE tx'[i] = sent' + Len(hwTx') + i
    BY <1>a, <2>1, <2>2 DEF TxInOrder
  <2>5. Len(hwTx') + Len(tx') = written' - sent'
    <3>1. Len(hwTx) + Len(tx) = written - sent
      BY DEF TxInOrder
    <3>2. Len(tx') = Len(tx) /\ written' = written
      BY <2>1
    <3>3. Len(hwTx') = Len(hwTx) - 1 /\ sent' = sent + 1
      BY <2>2
    <3> QED
      BY <1>a, <3>1, <3>2, <3>3
  <2> QED
    BY <2>3, <2>4, <2>5 DEF TxInOrder
<1>4. CASE UNCHANGED txVars
  BY <1>4 DEF txVars, TxInOrder
<1>5. CASE IrqTxEnd \/ Kick
  BY <1>5 DEF IrqTxEnd, IrqTxReturn, Kick, TxInOrder
<1> QED
  BY <1>1, <1>2, <1>3, <1>4, <1>5
  DEF UartNext, WriteStep, IrqStep, Write, FillDone, Mask, LeaveToHandler,
      Unmask, IrqEnter, IrqRxByte, IrqRxEnd, TakeByte, HwReceive, uartVars

\* The receive queues carry consecutive bytes through every step, until one
\* overflows.
LEMMA RxStep ==
  UartTypeOK /\ RxInOrder /\ [UartNext]_uartVars => RxInOrder'
<1> SUFFICES ASSUME UartTypeOK, RxInOrder, [UartNext]_uartVars, ~overrun'
             PROVE  RxInOrder'
  BY DEF RxInOrder
<1>a. /\ rx \in Seq(Nat) /\ hwRx \in Seq(Nat)
      /\ Len(rx) \in Nat /\ Len(hwRx) \in Nat
      /\ arrived \in Nat /\ taken \in Nat
  BY LenFacts DEF UartTypeOK
<1> DEFINE Consecutive ==
     /\ Len(rx) + Len(hwRx) = arrived - taken
     /\ \A i \in 1..Len(rx) : rx[i] = taken + i
     /\ \A i \in 1..Len(hwRx) : hwRx[i] = taken + Len(rx) + i
<1>1. CASE IrqRxByte
  <2>a. ~overrun /\ ~(Len(rx) >= Capacity)
    BY <1>1, Zenon DEF IrqRxByte
  <2>1. ~overrun /\ Len(rx) < Capacity
    BY <2>a, <1>a, UartAssumption
  <2>2. Consecutive
    BY <2>1 DEF RxInOrder
  <2>3. /\ rx' = Append(rx, Head(hwRx)) /\ hwRx' = Tail(hwRx) /\ hwRx # <<>>
        /\ arrived' = arrived /\ taken' = taken
    BY <1>1, <2>1 DEF IrqRxByte
  <2>4. /\ Head(hwRx) = taken + Len(rx) + 1 /\ Head(hwRx) \in Nat
        /\ Len(hwRx) \in Nat \ {0} /\ Len(hwRx') = Len(hwRx) - 1
        /\ \A i \in 1..(Len(hwRx) - 1) : hwRx'[i] = hwRx[i + 1]
    BY <1>a, <2>2, <2>3, TailFacts
  <2>5. /\ Len(rx') = Len(rx) + 1
        /\ \A i \in 1..Len(rx) : rx'[i] = rx[i]
        /\ rx'[Len(rx) + 1] = Head(hwRx)
    BY <1>a, <2>3, <2>4, AppendFacts
  <2>6. ASSUME NEW i \in 1..Len(rx') PROVE rx'[i] = taken' + i
    <3>1. CASE i \in 1..Len(rx)
      BY <2>2, <2>3, <2>5, <3>1
    <3>2. CASE i = Len(rx) + 1
      BY <1>a, <2>3, <2>4, <2>5, <3>2
    <3> QED
      BY <1>a, <2>5, <3>1, <3>2
  <2>7. ASSUME NEW i \in 1..Len(hwRx') PROVE hwRx'[i] = taken' + Len(rx') + i
    <3>1. i + 1 \in 1..Len(hwRx) /\ hwRx'[i] = hwRx[i + 1]
      BY <2>4
    <3>2. hwRx[i + 1] = taken + Len(rx) + (i + 1)
      BY <3>1, <2>2
    <3> QED
      BY <1>a, <2>3, <2>5, <3>1, <3>2
  <2>8. Len(rx') + Len(hwRx') = arrived' - taken'
    <3>1. Len(rx) + Len(hwRx) = arrived - taken
      BY <2>2
    <3>2. Len(hwRx') = Len(hwRx) - 1 /\ Len(rx') = Len(rx) + 1
      BY <2>4, <2>5
    <3>3. arrived' = arrived /\ taken' = taken
      BY <2>3
    <3>4. Len(rx) \in Nat /\ Len(hwRx) \in Nat /\ arrived \in Nat /\ taken \in Nat
      BY <1>a
    <3> QED
      BY <3>1, <3>2, <3>3, <3>4
  <2> QED
    BY <2>6, <2>7, <2>8 DEF RxInOrder
<1>2. CASE TakeByte
  <2>1. /\ rx' = Tail(rx) /\ rx # <<>> /\ taken' = Head(rx)
        /\ hwRx' = hwRx /\ arrived' = arrived /\ overrun' = overrun
    BY <1>2 DEF TakeByte
  <2>2. Consecutive
    BY <2>1 DEF RxInOrder
  <2>3. /\ taken' = taken + 1
        /\ Len(rx) \in Nat \ {0} /\ Len(rx') = Len(rx) - 1
        /\ \A i \in 1..(Len(rx) - 1) : rx'[i] = rx[i + 1]
    BY <1>a, <2>1, <2>2, TailFacts
  <2>4. ASSUME NEW i \in 1..Len(rx') PROVE rx'[i] = taken' + i
    <3>1. i + 1 \in 1..Len(rx) /\ rx'[i] = rx[i + 1]
      BY <2>3
    <3>2. rx[i + 1] = taken + (i + 1)
      BY <3>1, <2>2
    <3> QED
      BY <1>a, <2>3, <3>1, <3>2
  <2>5. ASSUME NEW i \in 1..Len(hwRx') PROVE hwRx'[i] = taken' + Len(rx') + i
    BY <1>a, <2>1, <2>2, <2>3
  <2>6. Len(rx') + Len(hwRx') = arrived' - taken'
    <3>1. Len(rx) + Len(hwRx) = arrived - taken
      BY <2>2
    <3>2. Len(hwRx') = Len(hwRx) /\ arrived' = arrived
      BY <2>1
    <3>3. Len(rx') = Len(rx) - 1 /\ taken' = taken + 1
      BY <2>3
    <3> QED
      BY <1>a, <3>1, <3>2, <3>3
  <2> QED
    BY <2>4, <2>5, <2>6 DEF RxInOrder
<1>3. CASE HwReceive
  <2>1. ~overrun /\ Len(hwRx) # Fifo
    BY <1>3, Zenon DEF HwReceive
  <2>2. Consecutive
    BY <2>1 DEF RxInOrder
  <2>3. /\ hwRx' = Append(hwRx, arrived + 1) /\ arrived' = arrived + 1
        /\ rx' = rx /\ taken' = taken
    BY <1>3, <1>a, <2>1, UartAssumption DEF HwReceive, rxVars, UartTypeOK
  <2>4. /\ Len(hwRx') = Len(hwRx) + 1
        /\ \A i \in 1..Len(hwRx) : hwRx'[i] = hwRx[i]
        /\ hwRx'[Len(hwRx) + 1] = arrived + 1
    BY <1>a, <2>3, AppendFacts
  <2>5. ASSUME NEW i \in 1..Len(hwRx') PROVE hwRx'[i] = taken' + Len(rx') + i
    <3>1. CASE i \in 1..Len(hwRx)
      BY <2>2, <2>3, <2>4, <3>1
    <3>2. CASE i = Len(hwRx) + 1
      BY <1>a, <2>2, <2>3, <2>4, <3>2
    <3> QED
      BY <1>a, <2>4, <3>1, <3>2
  <2>6. Len(rx') + Len(hwRx') = arrived' - taken'
    BY <1>a, <2>2, <2>3, <2>4
  <2> QED
    BY <2>2, <2>3, <2>5, <2>6 DEF RxInOrder
<1>4. CASE UNCHANGED rxVars
  BY <1>4 DEF rxVars, RxInOrder
<1> QED
  BY <1>1, <1>2, <1>3, <1>4
  DEF UartNext, WriteStep, IrqStep, Write, FillByte, FillDone, Mask,
      LeaveToHandler, Kick, Unmask, Push, IrqTxEnd, IrqTxReturn, IrqEnter,
      IrqRxEnd, HwSend, uartVars

\* The inductive invariant.
LEMMA UartInvariant == UartSafety => []UartInv
<1>1. UartInv /\ [UartNext]_uartVars => UartInv'
  BY UartTypeStep, MaskedStep, ArmedStep, CoveredStep, TxStep, RxStep
  DEF UartInv
<1> QED
  BY <1>1, UartInvInit, PTL DEF UartSafety

\* No ring and no FIFO of the UART is ever overfilled.
THEOREM UartTypeCorrect == UartSpec => []UartTypeOK
<1>1. UartInv => UartTypeOK
  BY DEF UartInv
<1> QED
  BY <1>1, UartInvariant, PTL DEF UartSpec

\* The handler never runs uart_irq_tx() while write() does.
THEOREM SingleConsumer == UartSpec => []OneConsumer
<1>1. UartInv => OneConsumer
  BY DEF UartInv, Masked, OneConsumer
<1> QED
  BY <1>1, UartInvariant, PTL DEF UartSpec

\* What write() accepted reaches the line complete and in order.
THEOREM TransmitsInOrder == UartSpec => []TxInOrder
<1>1. UartInv => TxInOrder
  BY DEF UartInv
<1> QED
  BY <1>1, UartInvariant, PTL DEF UartSpec

\* What arrives is read complete and in order, until something overflows.
THEOREM ReceivesInOrder == UartSpec => []RxInOrder
<1>1. UartInv => RxInOrder
  BY DEF UartInv
<1> QED
  BY <1>1, UartInvariant, PTL DEF UartSpec

\* write() never returns with bytes in the ring that no interrupt will fetch.
THEOREM NoWakeupIsLost == UartSpec => []NoLostWakeup
<1>1. UartInv => NoLostWakeup
  BY DEF UartInv, Armed, Covered, NoLostWakeup, Main
<1> QED
  BY <1>1, UartInvariant, PTL DEF UartSpec

\* The driver keeps all that its callers rely on, at every moment.
THEOREM UartIsSafe == UartSpec => []UartSafe
<1>1. UartTypeOK /\ OneConsumer /\ TxInOrder /\ RxInOrder /\ NoLostWakeup
        => UartSafe
  BY DEF UartSafe
<1> QED
  BY <1>1, UartTypeCorrect, SingleConsumer, TransmitsInOrder,
     ReceivesInOrder, NoWakeupIsLost, PTL
=============================================================================
