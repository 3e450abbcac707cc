------------------------------- MODULE NmbsCrc -------------------------------
(***************************************************************************)
(* nmbs_crc_calc(): the Modbus CRC-16, with its bytes swapped.             *)
(***************************************************************************)
EXTENDS Integers, Sequences, Bitwise

\* One turn of the inner loop, and all eight of them.
Shift(crc) == IF crc % 2 = 1 THEN (crc \div 2) ^^ 40961 ELSE crc \div 2
Shift8(crc) ==
  LET after[j \in 0..8] == IF j = 0 THEN crc ELSE Shift(after[j - 1]) IN after[8]

crc_calc(data) ==
  LET crc[i \in 0..Len(data)] ==
        IF i = 0 THEN 65535 ELSE Shift8(crc[i - 1] ^^ data[i])
      last == crc[Len(data)]
  IN (last % 256) * 256 + last \div 256

(* The same by a table of the effect of each low byte, for speed: the outer*)
(* loop's high byte only moves down.                                       *)
Table == [low \in 0..255 |-> Shift8(low)]
crc_by_table(data) ==
  LET next == [i \in 1..Len(data), crc \in 0..65535 |->
                 Table[(crc % 256) ^^ data[i]] ^^ (crc \div 256)]
      crc[i \in 0..Len(data)] ==
        IF i = 0 THEN 65535 ELSE next[i, crc[i - 1]]
      last == crc[Len(data)]
  IN (last % 256) * 256 + last \div 256
=============================================================================
