----------------------------- MODULE NmbsProofs -----------------------------
(***************************************************************************)
(* Calls of nanomodbus.c's client that agree with its servers.  As long as *)
(* nothing was late, lost or altered, every call is refused by the client, *)
(* succeeds with a value that was read for it, or reports the failure of   *)
(* the server's callback, and no byte is left over behind it.              *)
(*                                                                         *)
(* From the bytes up: what each function sends is a message that every     *)
(* node, the addressed server, the others and the client, reads from its   *)
(* first byte to its last and nothing further.  So between two calls the   *)
(* line goes through the states of InOrder: it is quiet, a request is      *)
(* under way, has been heard, is answered, the answer is being read, while *)
(* each server may lag behind by what it has not read yet.                 *)
(***************************************************************************)
EXTENDS NmbsBus, SequenceTheorems, FiniteSetTheorems, TLAPS

-----------------------------------------------------------------------------
(* Sequences of bytes, and where put_msg_header() and send_msg() leave     *)
(* each part of a message.                                                 *)
Byte == {x \in Nat : x <= 255}
Word == {x \in Nat : x <= 65535}
Bytes == Seq(Byte)

\* nmbs_crc_calc() returns a uint16_t.
CrcIsWord == \A m \in Bytes : nmbs_crc_calc(m) \in Word

LEMMA PutIsBytes ==
  ASSUME NEW x \in Word
  PROVE  /\ put_2(x) \in Bytes /\ Len(put_2(x)) = 2
         /\ put_2(x)[1] = x \div 256 /\ put_2(x)[2] = x % 256
         /\ x \div 256 \in Byte /\ x % 256 \in Byte
         /\ 256 * (x \div 256) + (x % 256) = x
<1>1. x \in Int /\ 0 <= x /\ x <= 65535
  BY DEF Word
<1>2. /\ x = 256 * (x \div 256) + (x % 256)
      /\ x \div 256 \in Int /\ x % 256 \in 0..255
  BY <1>1
<1>3. x \div 256 \in Byte /\ x % 256 \in Byte
  BY <1>1, <1>2 DEF Byte
<1> QED
  BY <1>2, <1>3 DEF put_2, Bytes

\* w is s and t, one behind the other.
IsCat(w, s, t) ==
  /\ w \in Bytes /\ Len(w) = Len(s) + Len(t)
  /\ \A i \in 1..Len(s) : w[i] = s[i]
  /\ \A i \in 1..Len(t) : w[Len(s) + i] = t[i]

LEMMA LenIsNat ==
  ASSUME NEW s \in Bytes
  PROVE  /\ Len(s) \in Nat /\ s \in Seq(Byte) /\ DOMAIN s = 1..Len(s)
         /\ \A i \in 1..Len(s) : s[i] \in Byte
BY DEF Bytes

LEMMA CatIs ==
  ASSUME NEW s \in Bytes, NEW t \in Bytes
  PROVE  IsCat(s \o t, s, t)
BY ConcatProperties DEF Bytes, IsCat

LEMMA Regroup ==
  \A a, b, c \in Seq(Byte) : (a \o b) \o c = a \o (b \o c)
BY ConcatAssociative

LEMMA CatEnds ==
  ASSUME NEW s \in Bytes, NEW t \in Bytes
  PROVE  SubSeq(s \o t, 1, Len(s)) = s
<1>1. s \in Seq(Byte) /\ t \in Seq(Byte) /\ Len(s) \in Nat
  BY DEF Bytes
<1>2. CASE Len(s) = 0
  <2>1. s = <<>>
    BY <1>1, <1>2, EmptySeq
  <2>2. SubSeq(s \o t, 1, 0) = <<>>
    BY SubSeqEmpty
  <2> QED
    BY <2>1, <2>2, <1>2
<1>3. CASE Len(s) # 0
  <2>1. SubSeq(s \o t, 1, Len(s)) = SubSeq(s, 1, Len(s))
    BY <1>1, <1>3, SubSeqOfConcat1
  <2>2. SubSeq(s, 1, Len(s)) = s
    BY <1>1, SubSeqFull
  <2> QED
    BY <2>1, <2>2
<1> QED
  BY <1>2, <1>3

LEMMA Pair ==
  ASSUME NEW x \in Byte, NEW y \in Byte
  PROVE  /\ <<x, y>> \in Bytes /\ Len(<<x, y>>) = 2
         /\ <<x, y>>[1] = x /\ <<x, y>>[2] = y
BY DEF Bytes

\* What a message of one node looks like to another.
IsMessage(m, tid, unit, fc, data) ==
  /\ m \in Bytes /\ Len(m) = HeaderLen + Len(data) + FooterLen
  /\ \A j \in 1..Len(data) : m[HeaderLen + j] = data[j]
  /\ UnitOf(m) = unit /\ FcOf(m) = fc
  /\ Transport = "TCP" => TidOf(m) = tid
  /\ CrcOK(m)

LEMMA RtuLayout ==
  ASSUME CrcIsWord, Transport = "RTU",
         NEW tid, NEW unit \in Byte, NEW fc \in Byte, NEW data \in Bytes,
         NEW length
  PROVE  IsMessage(Message(tid, unit, fc, length, data), tid, unit, fc, data)
<1>1. PICK h : h = <<unit, fc>>
  OBVIOUS
<1>2. h \in Bytes /\ Len(h) = 2 /\ h[1] = unit /\ h[2] = fc
  BY <1>1, Pair
<1>3. PICK m : m = h \o data
  OBVIOUS
<1>4. IsCat(m, h, data)
  BY <1>2, <1>3, CatIs
<1>5. m \in Bytes /\ Len(m) = 2 + Len(data) /\ m[1] = unit /\ m[2] = fc
  BY <1>2, <1>4 DEF IsCat
<1>6. \A j \in 1..Len(data) : m[2 + j] = data[j]
  BY <1>2, <1>4 DEF IsCat
<1>7. nmbs_crc_calc(m) \in Word
  BY <1>5 DEF CrcIsWord
<1>8. PICK crc : crc = put_2(nmbs_crc_calc(m))
  OBVIOUS
<1>9. crc \in Bytes /\ Len(crc) = 2 /\ 256 * crc[1] + crc[2] = nmbs_crc_calc(m)
  BY <1>7, <1>8, PutIsBytes
<1>10. PICK w : w = m \o crc
  OBVIOUS
<1>11. IsCat(w, m, crc) /\ SubSeq(w, 1, Len(m)) = m
  BY <1>5, <1>9, <1>10, CatIs, CatEnds
<1>12. Message(tid, unit, fc, length, data) = w
  BY <1>1, <1>3, <1>8, <1>10 DEF Message
<1>13. HeaderLen = 2 /\ FooterLen = 2
  BY DEF HeaderLen, FooterLen
<1>14. Len(data) \in Nat /\ w \in Bytes /\ Len(w) = Len(data) + 4
  BY <1>5, <1>9, <1>11, LenIsNat DEF IsCat
<1>15. /\ w[1] = unit /\ w[2] = fc
       /\ w[Len(m) + 1] = crc[1] /\ w[Len(m) + 2] = crc[2]
  BY <1>5, <1>9, <1>11, <1>14 DEF IsCat
<1>16. UnitOf(w) = unit /\ FcOf(w) = fc
  BY <1>13, <1>15 DEF UnitOf, FcOf
<1>17. CrcOK(w)
  <2>1. Len(w) - 1 = Len(m) + 1 /\ Len(w) - 2 = Len(m) /\ Len(m) \in Nat
    BY <1>5, <1>14
  <2>2. get_2(w, Len(m) + 1) = nmbs_crc_calc(m)
    <3>1. (Len(m) + 1) + 1 = Len(m) + 2
      BY <2>1
    <3> QED
      BY <3>1, <1>9, <1>15 DEF get_2
  <2> QED
    BY <2>1, <2>2, <1>11 DEF CrcOK
<1>18. \A j \in 1..Len(data) : w[2 + j] = data[j]
  BY <1>5, <1>6, <1>11, <1>14 DEF IsCat
<1>19. Transport # "TCP"
  OBVIOUS
<1> QED
  BY <1>12, <1>13, <1>14, <1>16, <1>17, <1>18, <1>19 DEF IsMessage

LEMMA TcpLayout ==
  ASSUME Transport = "TCP",
         NEW tid \in Word, NEW unit \in Byte, NEW fc \in Byte,
         NEW data \in Bytes, NEW length \in Nat, length <= 1000
  PROVE  /\ IsMessage(Message(tid, unit, fc, length, data), tid, unit, fc, data)
         /\ length <= 253 => MbapOK(Message(tid, unit, fc, length, data))
<1>1. Transport # "RTU"
  OBVIOUS
<1>2. PICK a : a = put_2(tid)
  OBVIOUS
<1>3. PICK z : z = <<0, 0>>
  OBVIOUS
<1>4. PICK l : l = put_2(2 + length)
  OBVIOUS
<1>5. PICK f : f = <<unit, fc>>
  OBVIOUS
<1>6. a \in Bytes /\ Len(a) = 2 /\ 256 * a[1] + a[2] = tid
  BY <1>2, PutIsBytes
<1>7. z \in Bytes /\ Len(z) = 2 /\ z[1] = 0 /\ z[2] = 0
  <2>1. 0 \in Byte
    BY DEF Byte
  <2> QED
    BY <1>3, <2>1, Pair
<1>8. l \in Bytes /\ Len(l) = 2 /\ 256 * l[1] + l[2] = 2 + length
  <2>1. 2 + length \in Word
    BY DEF Word
  <2> QED
    BY <1>4, <2>1, PutIsBytes
<1>9. f \in Bytes /\ Len(f) = 2 /\ f[1] = unit /\ f[2] = fc
  BY <1>5, Pair
<1>10. PICK az : az = a \o z
  OBVIOUS
<1>11. IsCat(az, a, z)
  BY <1>6, <1>7, <1>10, CatIs
<1>12. /\ az \in Bytes /\ Len(az) = 4 /\ az[1] = a[1] /\ az[2] = a[2]
       /\ az[3] = 0 /\ az[4] = 0
  BY <1>6, <1>7, <1>11 DEF IsCat
<1>13. PICK azl : azl = az \o l
  OBVIOUS
<1>14. IsCat(azl, az, l)
  BY <1>8, <1>12, <1>13, CatIs
<1>15. /\ azl \in Bytes /\ Len(azl) = 6 /\ azl[1] = a[1] /\ azl[2] = a[2]
       /\ azl[3] = 0 /\ azl[4] = 0 /\ azl[5] = l[1] /\ azl[6] = l[2]
  BY <1>8, <1>12, <1>14 DEF IsCat
<1>16. PICK h : h = azl \o f
  OBVIOUS
<1>17. IsCat(h, azl, f)
  BY <1>9, <1>15, <1>16, CatIs
<1>18. /\ h \in Bytes /\ Len(h) = 8 /\ h[1] = a[1] /\ h[2] = a[2]
       /\ h[3] = 0 /\ h[4] = 0 /\ h[5] = l[1] /\ h[6] = l[2]
       /\ h[7] = unit /\ h[8] = fc
  BY <1>9, <1>15, <1>17 DEF IsCat
<1>19. PICK w : w = h \o data
  OBVIOUS
<1>20. IsCat(w, h, data)
  BY <1>18, <1>19, CatIs
<1>21. Len(data) \in Nat
  BY LenIsNat
<1>22. /\ w \in Bytes /\ Len(w) = 8 + Len(data)
       /\ w[1] = a[1] /\ w[2] = a[2]
       /\ w[3] = 0 /\ w[4] = 0 /\ w[5] = l[1] /\ w[6] = l[2]
       /\ w[7] = unit /\ w[8] = fc
  BY <1>18, <1>20, <1>21 DEF IsCat
<1>23. \A j \in 1..Len(data) : w[8 + j] = data[j]
  BY <1>18, <1>20 DEF IsCat
<1>24. Message(tid, unit, fc, length, data) = w
  BY <1>1, <1>2, <1>3, <1>4, <1>5, <1>10, <1>13, <1>16, <1>19 DEF Message
<1>25. HeaderLen = 8 /\ FooterLen = 0
  BY <1>1 DEF HeaderLen, FooterLen
<1>26. UnitOf(w) = unit /\ FcOf(w) = fc
  BY <1>22, <1>25 DEF UnitOf, FcOf
<1>27. TidOf(w) = tid
  BY <1>1, <1>6, <1>22 DEF TidOf, get_2
<1>28. length <= 253 => MbapOK(w)
  BY <1>8, <1>22 DEF MbapOK, get_2
<1>29. CrcOK(w)
  BY <1>1 DEF CrcOK
<1>30. Len(w) = HeaderLen + Len(data) + FooterLen
  BY <1>21, <1>22, <1>25
<1> QED
  BY <1>22, <1>23, <1>24, <1>25, <1>26, <1>27, <1>28, <1>29, <1>30
  DEF IsMessage

-----------------------------------------------------------------------------
(* Sets of naturals and functions on them, by the smallest number that     *)
(* fails.                                                                  *)

\* A set of naturals that is not empty has a smallest member.
LEMMA SmallestMember ==
  ASSUME NEW T, T \subseteq Nat, T # {}
  PROVE  \E x \in T : \A y \in T : x <= y
<1> DEFINE Below == {0..(x - 1) : x \in T}
<1>1. IsWellFoundedOn(StrictSubsetOrdering(Nat), FiniteSubsetsOf(Nat))
  BY FS_StrictSubsetOrderingWellFounded
<1>2. Below \subseteq FiniteSubsetsOf(Nat) /\ Below # {}
  <2>1. \A x \in T : 0..(x - 1) \subseteq Nat /\ IsFiniteSet(0..(x - 1))
    BY FS_Interval
  <2> QED
    BY <2>1 DEF FiniteSubsetsOf
<1> HIDE DEF Below
<1>3. PICK b \in Below :
        \A d \in Below : ~ (<<d, b>> \in StrictSubsetOrdering(Nat))
  BY <1>1, <1>2, WFMin
<1> USE DEF Below
<1>4. PICK x \in T : b = 0..(x - 1)
  BY <1>3
<1>5. ASSUME NEW y \in T, y < x PROVE FALSE
  <2>1. 0..(y - 1) \in Below
    OBVIOUS
  <2>2. 0..(y - 1) \subseteq b /\ 0..(y - 1) # b /\ b \subseteq Nat
    <3>1. y \in b /\ y \notin 0..(y - 1)
      BY <1>4, <1>5
    <3> QED
      BY <3>1, <1>4, <1>5
  <2>3. <<0..(y - 1), b>> \in StrictSubsetOrdering(Nat)
    BY <2>2 DEF StrictSubsetOrdering
  <2> QED
    BY <2>1, <2>3, <1>3
<1> QED
  BY <1>5, <1>4

LEMMA SetInduction ==
  ASSUME NEW T, 0 \in T, \A n \in Nat : n \in T => n + 1 \in T
  PROVE  Nat \subseteq T
<1> DEFINE U == Nat \ T
<1>1. SUFFICES ASSUME U # {} PROVE FALSE
  OBVIOUS
<1> HIDE DEF U
<1>2. PICK x \in U : \A y \in U : x <= y
  BY <1>1, SmallestMember DEF U
<1>3. x \in Nat /\ x # 0 /\ x - 1 \in Nat
  BY <1>2 DEF U
<1>4. x - 1 \in T
  BY <1>2, <1>3 DEF U
<1>5. (x - 1) + 1 \in T
  BY <1>3, <1>4
<1> QED
  BY <1>2, <1>3, <1>5 DEF U

-----------------------------------------------------------------------------
(* Registers and the records of a file answer.                             *)
LEMMA PutRegs ==
  ASSUME NEW rs \in Seq(Word)
  PROVE  put_regs(rs) \in Bytes /\ Len(put_regs(rs)) = 2 * Len(rs)
<1>1. Len(rs) \in Nat /\ \A j \in 1..Len(rs) : rs[j] \in Word
  OBVIOUS
<1>2. ASSUME NEW i \in 1..(2 * Len(rs))
      PROVE  put_2(rs[(i + 1) \div 2])[2 - (i % 2)] \in Byte
  <2>1. (i + 1) \div 2 \in 1..Len(rs) /\ i % 2 \in 0..1
    BY <1>1
  <2>2. rs[(i + 1) \div 2] \in Word
    BY <1>1, <2>1
  <2>3. 2 - (i % 2) = 1 \/ 2 - (i % 2) = 2
    BY <2>1
  <2> QED
    BY <2>2, <2>3, PutIsBytes
<1>3. put_regs(rs) = [i \in 1..(2 * Len(rs)) |->
                        put_2(rs[(i + 1) \div 2])[2 - (i % 2)]]
  BY DEF put_regs
<1>4. put_regs(rs) \in [1..(2 * Len(rs)) -> Byte]
  BY <1>2, <1>3
<1>5. 2 * Len(rs) \in Nat
  BY <1>1
<1> QED
  BY <1>4, <1>5 DEF Bytes

LEMMA PutSame ==
  ASSUME NEW n \in Nat, NEW v \in Byte
  PROVE  /\ put_regs([i \in 1..n |-> v]) \in Bytes
         /\ Len(put_regs([i \in 1..n |-> v])) = 2 * n
         /\ n >= 1 => put_regs([i \in 1..n |-> v])[2 * n] = v
<1>1. PICK rs : rs = [i \in 1..n |-> v]
  OBVIOUS
<1>2. v \in Word
  BY DEF Byte, Word
<1>3. rs \in Seq(Word) /\ Len(rs) = n
  BY <1>1, <1>2
<1>4. ASSUME n >= 1
      PROVE  put_regs(rs)[2 * n] = v
  <2>1. 2 * n \in 1..(2 * Len(rs)) /\ (2 * n + 1) \div 2 = n /\ (2 * n) % 2 = 0
    BY <1>3, <1>4
  <2>2. rs[n] = v
    BY <1>1, <1>4
  <2>3. put_regs(rs)[2 * n] = put_2(v)[2 - 0]
    BY <2>1, <2>2 DEF put_regs
  <2>4. 2 - 0 = 2
    OBVIOUS
  <2>5. put_2(v)[2] = v % 256
    BY <1>2, PutIsBytes
  <2>6. v % 256 = v
    BY DEF Byte
  <2> QED
    BY <2>3, <2>4, <2>5, <2>6
<1> QED
  BY <1>1, <1>3, <1>4, PutRegs

\* The data of the answer to a file request: one record after the other.
OneRecord(length, v) ==
  <<length * 2 + 1, 6>> \o put_regs([i \in 1..length |-> v])
RecordsTo(r, n, subs, v) ==
  r = [k \in 0..n |-> IF k = 0 THEN <<>>
                      ELSE r[k - 1] \o <<subs[k].length * 2 + 1, 6>>
                             \o put_regs([i \in 1..subs[k].length |-> v])]

LEMMA OneRecordIs ==
  ASSUME NEW n \in 0..124, NEW v \in Byte
  PROVE  /\ OneRecord(n, v) \in Bytes /\ Len(OneRecord(n, v)) = 2 * n + 2
         /\ OneRecord(n, v)[1] = 2 * n + 1 /\ OneRecord(n, v)[2] = 6
<1>1. PICK h : h = <<n * 2 + 1, 6>>
  OBVIOUS
<1>2. n * 2 + 1 \in Byte /\ 6 \in Byte /\ n \in Nat
  BY DEF Byte
<1>3. h \in Bytes /\ Len(h) = 2 /\ h[1] = n * 2 + 1 /\ h[2] = 6
  BY <1>1, <1>2, Pair
<1>4. PICK t : t = put_regs([i \in 1..n |-> v])
  OBVIOUS
<1>5. t \in Bytes /\ Len(t) = 2 * n
  BY <1>2, <1>4, PutSame
<1>6. IsCat(h \o t, h, t)
  BY <1>3, <1>5, CatIs
<1>7. OneRecord(n, v) = h \o t
  BY <1>1, <1>4 DEF OneRecord
<1> QED
  BY <1>2, <1>3, <1>5, <1>6, <1>7 DEF IsCat

LEMMA EmptyIsBytes == <<>> \in Bytes /\ Len(<<>>) = 0
BY EmptySeq DEF Bytes

LEMMA RecordsExist ==
  ASSUME NEW subs, NEW m \in Nat, NEW v \in Byte,
         \A k \in 1..m : subs[k].length \in 0..124
  PROVE  \E r : RecordsTo(r, m, subs, v) /\ \A k \in 0..m : r[k] \in Bytes
<1> DEFINE Step(r, k) == r[k - 1] \o <<subs[k].length * 2 + 1, 6>>
                           \o put_regs([i \in 1..subs[k].length |-> v])
           T == {n \in Nat : n <= m =>
                   \E r : RecordsTo(r, n, subs, v)
                          /\ \A k \in 0..n : r[k] \in Bytes}
<1>1. 0 \in T
  <2>1. PICK r : r = [k \in 0..0 |-> <<>>]
    OBVIOUS
  <2>2. RecordsTo(r, 0, subs, v)
    BY <2>1 DEF RecordsTo
  <2>3. \A k \in 0..0 : r[k] \in Bytes
    BY <2>1, EmptyIsBytes
  <2> QED
    BY <2>2, <2>3
<1>2. ASSUME NEW n \in Nat, n \in T
      PROVE  n + 1 \in T
  <2>1. SUFFICES ASSUME n + 1 <= m
                 PROVE  \E r : RecordsTo(r, n + 1, subs, v)
                               /\ \A k \in 0..(n + 1) : r[k] \in Bytes
    OBVIOUS
  <2>2. PICK q : RecordsTo(q, n, subs, v) /\ \A k \in 0..n : q[k] \in Bytes
    BY <1>2, <2>1
  <2> HIDE DEF T
  <2>3. q = [k \in 0..n |-> IF k = 0 THEN <<>> ELSE Step(q, k)]
    BY <2>2 DEF RecordsTo
  <2>4. PICK l : l = subs[n + 1].length
    OBVIOUS
  <2>5. l \in 0..124 /\ q[n] \in Bytes
    BY <2>1, <2>2, <2>4
  <2>6. OneRecord(l, v) \in Bytes
    BY <2>5, OneRecordIs
  <2>7. Step(q, n + 1) = q[n] \o OneRecord(l, v)
    <3>1. (n + 1) - 1 = n
      OBVIOUS
    <3>2. PICK h : h = <<l * 2 + 1, 6>>
      OBVIOUS
    <3>3. PICK t : t = put_regs([i \in 1..l |-> v])
      OBVIOUS
    <3>4. h \in Bytes /\ t \in Bytes
      <4>1. l * 2 + 1 \in Byte /\ 6 \in Byte /\ l \in Nat
        BY <2>5 DEF Byte
      <4> QED
        BY <3>2, <3>3, <4>1, Pair, PutSame
    <3>5. (q[n] \o h) \o t = q[n] \o (h \o t)
      <4>1. PICK s : s = q[n]
        OBVIOUS
      <4>2. s \in Seq(Byte) /\ h \in Seq(Byte) /\ t \in Seq(Byte)
        BY <2>5, <3>4, <4>1 DEF Bytes
      <4>3. (s \o h) \o t = s \o (h \o t)
        BY <4>2, ConcatAssociative
      <4> QED
        BY <4>1, <4>3
    <3> QED
      BY <3>1, <3>2, <3>3, <3>5, <2>4 DEF OneRecord
  <2>8. Step(q, n + 1) \in Bytes
    BY <2>5, <2>6, <2>7, CatIs DEF IsCat
  <2> HIDE DEF Step
  <2>9. PICK r : r = [k \in 0..(n + 1) |->
                        IF k = n + 1 THEN Step(q, n + 1) ELSE q[k]]
    OBVIOUS
  <2>10. ASSUME NEW k \in 0..(n + 1)
         PROVE  r[k] = (IF k = 0 THEN <<>> ELSE Step(r, k)) /\ r[k] \in Bytes
    <3>1. CASE k = n + 1
      <4>1. r[k - 1] = q[k - 1] /\ k # 0
        BY <2>9, <3>1
      <4>2. Step(r, k) = Step(q, k)
        BY <4>1 DEF Step
      <4> QED
        BY <4>1, <4>2, <2>8, <2>9, <3>1
    <3>2. CASE k # n + 1 /\ k # 0
      <4>1. k \in 0..n /\ k - 1 \in 0..n /\ k \in 0..(n + 1)
            /\ k - 1 # n + 1 /\ k - 1 \in 0..(n + 1)
        BY <3>2
      <4>2. r[k] = q[k] /\ r[k - 1] = q[k - 1]
        BY <2>9, <3>2, <4>1
      <4>3. Step(r, k) = Step(q, k)
        BY <4>2 DEF Step
      <4> QED
        BY <4>1, <4>2, <4>3, <3>2, <2>2, <2>3
    <3>3. CASE k = 0
      <4>1. r[k] = q[k] /\ k \in 0..n
        BY <2>9, <3>3
      <4> QED
        BY <4>1, <3>3, <2>2, <2>3
    <3> QED
      BY <3>1, <3>2, <3>3
  <2>11. r = [k \in 0..(n + 1) |-> IF k = 0 THEN <<>> ELSE Step(r, k)]
    <3>1. r = [k \in 0..(n + 1) |-> r[k]]
      BY <2>9
    <3> HIDE <2>9
    <3> QED
      BY <3>1, <2>10
  <2>12. RecordsTo(r, n + 1, subs, v)
    BY <2>11 DEF RecordsTo, Step
  <2> QED
    BY <2>10, <2>12
<1> HIDE DEF T
<1>3. Nat \subseteq T
  BY <1>1, <1>2, SetInduction
<1>4. m \in T
  BY <1>3
<1> QED
  BY <1>4 DEF T

LEMMA RecordsAre ==
  ASSUME NEW d, NEW v,
         \E r : RecordsTo(r, Len(ReadSubs(d)), ReadSubs(d), v)
  PROVE  \E r : /\ RecordsTo(r, Len(ReadSubs(d)), ReadSubs(d), v)
                /\ Answer(20, d, v) =
                     <<Len(r[Len(ReadSubs(d))]) % 256>>
                       \o r[Len(ReadSubs(d))]
<1> DEFINE n == Len(ReadSubs(d))
           records == CHOOSE r : RecordsTo(r, Len(ReadSubs(d)), ReadSubs(d), v)
<1>1. RecordsTo(records, n, ReadSubs(d), v)
  OBVIOUS
<1>2. /\ ~(20 \in {1, 2}) /\ ~(20 \in {3, 4, 23})
      /\ ~(20 \in {5, 6, 15, 16}) /\ ~(20 = 21)
  OBVIOUS
<1>3. Answer(20, d, v) = <<Len(records[n]) % 256>> \o records[n]
  BY <1>2, Zenon DEF Answer, RecordsTo
<1> QED
  BY <1>1, <1>3

-----------------------------------------------------------------------------
(* What the loops over the records of a file request give.                 *)
LEMMA RecordsAreBytes ==
  ASSUME NEW subs, NEW m \in Nat, NEW v \in Byte,
         \A k \in 1..m : subs[k].length \in 0..124,
         NEW r, RecordsTo(r, m, subs, v)
  PROVE  /\ \A k \in 0..m : r[k] \in Bytes
         /\ r[0] = <<>>
         /\ \A k \in 1..m : r[k] = r[k - 1] \o OneRecord(subs[k].length, v)
<1>1. r[0] = <<>> /\ <<>> \in Bytes
  BY EmptyIsBytes DEF RecordsTo
<1>2. ASSUME NEW n \in Nat, n + 1 <= m, r[n] \in Bytes
      PROVE  /\ r[n + 1] = r[n] \o OneRecord(subs[n + 1].length, v)
             /\ r[n + 1] \in Bytes
  <2>1. PICK l : l = subs[n + 1].length
    OBVIOUS
  <2>2. l \in 0..124
    BY <1>2, <2>1
  <2>3. PICK h : h = <<l * 2 + 1, 6>>
    OBVIOUS
  <2>4. PICK t : t = put_regs([i \in 1..l |-> v])
    OBVIOUS
  <2>5. h \in Bytes /\ t \in Bytes
    <3>1. l * 2 + 1 \in Byte /\ 6 \in Byte /\ l \in Nat
      BY <2>2 DEF Byte
    <3> QED
      BY <2>3, <2>4, <3>1, Pair, PutSame
  <2>6. PICK s : s = r[n]
    OBVIOUS
  <2>7. r[n + 1] = s \o h \o t
    <3>1. n + 1 \in 0..m /\ n + 1 # 0 /\ (n + 1) - 1 = n
      BY <1>2
    <3>2. PICK j : j = n + 1
      OBVIOUS
    <3>3. r[j] = r[j - 1] \o <<subs[j].length * 2 + 1, 6>>
                   \o put_regs([i \in 1..subs[j].length |-> v])
      BY <3>1, <3>2, Zenon DEF RecordsTo
    <3>4. subs[j].length = l /\ r[j - 1] = s
      BY <3>1, <3>2, <2>1, <2>6
    <3>5. r[j] = s \o h \o t
      BY <3>3, <3>4, <2>3, <2>4, Zenon
    <3> QED
      BY <3>2, <3>5
  <2>8. s \in Seq(Byte) /\ h \in Seq(Byte) /\ t \in Seq(Byte)
    BY <1>2, <2>5, <2>6 DEF Bytes
  <2>9. (s \o h) \o t = s \o (h \o t)
    BY <2>8, Regroup, Zenon
  <2>10. OneRecord(l, v) = h \o t
    BY <2>3, <2>4 DEF OneRecord
  <2>11. OneRecord(l, v) \in Bytes
    BY <2>2, OneRecordIs
  <2>12. s \o OneRecord(l, v) \in Bytes
    BY <1>2, <2>6, <2>11, CatIs DEF IsCat
  <2> QED
    BY <2>1, <2>6, <2>7, <2>9, <2>10, <2>12
<1> DEFINE T == {n \in Nat : n <= m => r[n] \in Bytes}
<1>3. 0 \in T
  BY <1>1
<1>4. ASSUME NEW n \in Nat, n \in T
      PROVE  n + 1 \in T
  <2>1. SUFFICES ASSUME n + 1 <= m
                 PROVE  r[n + 1] \in Bytes
    OBVIOUS
  <2>2. n <= m
    BY <2>1
  <2>3. r[n] \in Bytes
    BY <1>4, <2>2
  <2> HIDE DEF T
  <2> QED
    BY <1>2, <2>1, <2>3
<1> HIDE DEF T
<1>5. Nat \subseteq T
  BY <1>3, <1>4, SetInduction
<1>6. \A k \in 0..m : r[k] \in Bytes
  <2>1. \A k \in 0..m : k \in T
    BY <1>5
  <2> QED
    BY <2>1 DEF T
<1>7. ASSUME NEW k \in 1..m
      PROVE  r[k] = r[k - 1] \o OneRecord(subs[k].length, v)
  <2>1. k - 1 \in Nat /\ (k - 1) + 1 = k /\ (k - 1) + 1 <= m /\ k - 1 \in 0..m
    OBVIOUS
  <2>2. r[k - 1] \in Bytes
    BY <1>6, <2>1
  <2>3. r[(k - 1) + 1] = r[k - 1] \o OneRecord(subs[(k - 1) + 1].length, v)
    BY <1>2, <2>1, <2>2
  <2> QED
    BY <2>1, <2>3
<1> QED
  BY <1>1, <1>6, <1>7

-----------------------------------------------------------------------------
(* The loop over the records of a write.                                   *)
EndOfSub(d, p) == p + 7 + 2 * Sub(d, p + 2).length
CheckSub(l, d, p) ==
  IF ~SubOK(Sub(d, p + 2), 122) \/ EndOfSub(d, p) > d[1]
  THEN ILLEGAL_DATA_ADDRESS
  ELSE IF d[1] - EndOfSub(d, p) >= 7 THEN l[EndOfSub(d, p)]
  ELSE IF EndOfSub(d, p) # d[1] THEN ILLEGAL_DATA_VALUE
  ELSE NoCallback(21)
LoopFrom(l, d, low) == l = [p \in low..(d[1] - 7) |-> CheckSub(l, d, p)]

FileWrite(d) == d \in Bytes /\ Len(d) = 1 + d[1] /\ Len(d) >= 8

LEMMA GetIsNumber ==
  ASSUME NEW d \in Bytes, NEW i \in Int, i >= 1, i + 1 <= Len(d)
  PROVE  get_2(d, i) \in Word
<1>1. i \in 1..Len(d) /\ i + 1 \in 1..Len(d)
  BY LenIsNat
<1>2. d[i] \in Byte /\ d[i + 1] \in Byte
  BY <1>1, LenIsNat
<1>3. PICK x, y : x = d[i] /\ y = d[i + 1]
  OBVIOUS
<1>4. x \in Byte /\ y \in Byte
  BY <1>2, <1>3
<1>5. 256 * x + y \in Word
  BY <1>4 DEF Byte, Word
<1> QED
  BY <1>3, <1>5 DEF get_2

LEMMA FileSize ==
  ASSUME NEW d, FileWrite(d)
  PROVE  d[1] \in 7..255 /\ d \in Bytes /\ Len(d) = 1 + d[1]
<1>1. PICK n, x : n = Len(d) /\ x = d[1]
  OBVIOUS
<1>2. d \in Bytes /\ n = 1 + x /\ n >= 8 /\ n \in Nat
  BY <1>1, LenIsNat DEF FileWrite
<1>3. 1 \in 1..Len(d)
  BY <1>1, <1>2
<1>4. x \in Byte
  BY <1>1, <1>2, <1>3, LenIsNat
<1>5. x \in 7..255
  BY <1>2, <1>4 DEF Byte
<1> QED
  BY <1>1, <1>2, <1>5

LEMMA SubIs ==
  ASSUME NEW d, FileWrite(d), NEW p \in 0..(d[1] - 7)
  PROVE  /\ EndOfSub(d, p) \in Nat /\ EndOfSub(d, p) >= p + 7
         /\ d[1] \in 7..255
<1>1. PICK N : N = d[1]
  OBVIOUS
<1>2. d \in Bytes /\ Len(d) = 1 + N /\ N \in 7..255 /\ p \in 0..(N - 7)
  <2>1. p \in 0..(N - 7)
    BY <1>1
  <2>2. d \in Bytes /\ Len(d) = 1 + N
    BY <1>1, FileSize
  <2>3. N \in 7..255
    BY <1>1, FileSize
  <2> QED
    BY <2>1, <2>2, <2>3
<1>3. PICK i : i = (p + 2) + 5
  OBVIOUS
<1>4. i \in Int /\ i >= 1 /\ i + 1 <= 1 + N
  BY <1>2, <1>3
<1>5. get_2(d, i) \in Word
  BY <1>2, <1>4, GetIsNumber
<1>6. PICK x : x = get_2(d, i)
  OBVIOUS
<1>7. Sub(d, p + 2).length = x
  BY <1>3, <1>6 DEF Sub
<1>8. EndOfSub(d, p) = p + 7 + 2 * x
  BY <1>7 DEF EndOfSub
<1>9. x \in Nat
  <2>1. x \in Word
    BY <1>5, <1>6
  <2> QED
    BY <2>1 DEF Word
<1>10. p + 7 + 2 * x \in Nat /\ p + 7 + 2 * x >= p + 7
  BY <1>2, <1>9
<1>11. d[1] \in 7..255
  BY <1>1, <1>2
<1> QED
  BY <1>8, <1>10, <1>11

LEMMA LoopStep ==
  ASSUME NEW d, FileWrite(d), NEW p \in 0..(d[1] - 7), NEW l, NEW k,
         \A q \in (p + 1)..(d[1] - 7) : l[q] = k[q] /\ l[q] \in 0..4
  PROVE  CheckSub(l, d, p) = CheckSub(k, d, p) /\ CheckSub(l, d, p) \in 0..4
<1>1. PICK e : e = EndOfSub(d, p)
  OBVIOUS
<1>2. PICK N : N = d[1]
  OBVIOUS
<1>3. e \in Nat /\ e >= p + 7 /\ N \in Nat /\ p \in Nat
  BY <1>1, <1>2, SubIs
<1>4. CASE N - e >= 7
  <2>1. e \in (p + 1)..(N - 7)
    BY <1>3, <1>4
  <2>2. l[e] = k[e] /\ l[e] \in 0..4
    BY <2>1, <1>2
  <2> QED
    BY <2>2, <1>1, <1>2, <1>4 DEF CheckSub, ILLEGAL_DATA_ADDRESS
<1>5. CASE ~(N - e >= 7)
  BY <1>1, <1>2, <1>5 DEF CheckSub, ILLEGAL_DATA_ADDRESS, ILLEGAL_DATA_VALUE,
     NoCallback, NMBS_ERROR_NONE, ILLEGAL_FUNCTION
<1> QED
  BY <1>4, <1>5

LEMMA LoopExists ==
  ASSUME NEW d, FileWrite(d)
  PROVE  \E l : LoopFrom(l, d, 0) /\ \A p \in 0..(d[1] - 7) : l[p] \in 0..4
<1>1. PICK N : N = d[1] - 7
  OBVIOUS
<1>2. N \in Nat
  <2>1. PICK x : x = d[1]
    OBVIOUS
  <2>2. x \in 7..255
    BY <2>1, FileSize
  <2> QED
    BY <2>1, <2>2, <1>1
<1> DEFINE T == {n \in Nat : n <= N =>
                   \E l : LoopFrom(l, d, N - n)
                          /\ \A p \in (N - n)..N : l[p] \in 0..4}
<1>3. ASSUME NEW n \in Nat, NEW l, n <= N + 1,
             l = [p \in (N - n + 1)..N |-> CheckSub(l, d, p)],
             \A p \in (N - n + 1)..N : l[p] \in 0..4, n <= N
      PROVE  \E k : LoopFrom(k, d, N - n)
                    /\ \A p \in (N - n)..N : k[p] \in 0..4
  <2>1. PICK z : z = N - n
    OBVIOUS
  <2>2. z \in 0..N /\ N - n + 1 = z + 1
    BY <2>1, <1>2, <1>3
  <2>3. PICK k : k = [p \in z..N |-> IF p = z THEN CheckSub(l, d, z) ELSE l[p]]
    OBVIOUS
  <2>4. \A p \in (z + 1)..N : k[p] = l[p] /\ l[p] \in 0..4
    <3> SUFFICES ASSUME NEW p \in (z + 1)..N
                 PROVE  k[p] = l[p] /\ l[p] \in 0..4
      OBVIOUS
    <3>1. p \in z..N /\ p # z
      BY <2>2
    <3> QED
      BY <3>1, <2>2, <2>3, <1>3
  <2>5. ASSUME NEW p \in z..N
        PROVE  k[p] = CheckSub(k, d, p) /\ k[p] \in 0..4
    <3>1. p \in 0..(d[1] - 7)
      BY <1>1, <1>2, <2>2
    <3>2. \A q \in (p + 1)..(d[1] - 7) : l[q] = k[q] /\ l[q] \in 0..4
      <4> SUFFICES ASSUME NEW q \in (p + 1)..N
                   PROVE  l[q] = k[q] /\ l[q] \in 0..4
        BY <1>1
      <4>1. q \in (z + 1)..N
        BY <2>2
      <4> QED
        BY <4>1, <2>4
    <3>3. CheckSub(l, d, p) = CheckSub(k, d, p) /\ CheckSub(l, d, p) \in 0..4
      BY <3>1, <3>2, LoopStep
    <3>4. k[p] = CheckSub(l, d, p)
      <4>1. CASE p = z
        BY <4>1, <2>3
      <4>2. CASE p # z
        <5>1. p \in (z + 1)..N
          BY <4>2, <2>2
        <5>2. l[p] = CheckSub(l, d, p)
          BY <5>1, <1>3, <2>2
        <5> QED
          BY <5>1, <5>2, <2>4
      <4> QED
        BY <4>1, <4>2
    <3> QED
      BY <3>3, <3>4
  <2>6. k = [p \in z..N |-> k[p]]
    BY <2>3
  <2>7. LoopFrom(k, d, z)
    <3>1. k = [p \in z..N |-> CheckSub(k, d, p)]
      <4> HIDE <2>3
      <4> QED
        BY <2>5, <2>6
    <3> QED
      BY <3>1, <1>1 DEF LoopFrom
  <2> QED
    BY <2>1, <2>5, <2>7
<1>4. 0 \in T
  <2>1. PICK l : l = [p \in (N + 1)..N |-> 0]
    OBVIOUS
  <2>2. \A x : x \notin (N + 1)..N
    BY <1>2
  <2>3. l = [p \in (N - 0 + 1)..N |-> CheckSub(l, d, p)]
    <3>1. N - 0 + 1 = N + 1
      BY <1>2
    <3> QED
      BY <2>1, <2>2, <3>1
  <2>4. \A p \in (N - 0 + 1)..N : l[p] \in 0..4
    BY <2>2, <1>2
  <2>5. 0 \in Nat /\ 0 <= N + 1 /\ 0 <= N
    BY <1>2
  <2>6. \E k : LoopFrom(k, d, N - 0) /\ \A p \in (N - 0)..N : k[p] \in 0..4
    BY <1>3, <2>3, <2>4, <2>5
  <2> QED
    BY <2>6
<1>5. ASSUME NEW n \in Nat, n \in T
      PROVE  n + 1 \in T
  <2>1. SUFFICES ASSUME n + 1 <= N
                 PROVE  \E k : LoopFrom(k, d, N - (n + 1))
                               /\ \A p \in (N - (n + 1))..N : k[p] \in 0..4
    OBVIOUS
  <2>2. PICK l : LoopFrom(l, d, N - n) /\ \A p \in (N - n)..N : l[p] \in 0..4
    BY <1>2, <1>5, <2>1
  <2> HIDE DEF T
  <2>3. N - (n + 1) + 1 = N - n /\ n + 1 <= N + 1 /\ n + 1 \in Nat
    BY <1>2, <2>1
  <2>4. l = [p \in (N - (n + 1) + 1)..N |-> CheckSub(l, d, p)]
    BY <1>1, <2>2, <2>3 DEF LoopFrom
  <2>5. \A p \in (N - (n + 1) + 1)..N : l[p] \in 0..4
    BY <2>2, <2>3
  <2> QED
    BY <1>3, <2>1, <2>3, <2>4, <2>5
<1> HIDE DEF T
<1>6. Nat \subseteq T
  BY <1>4, <1>5, SetInduction
<1>7. N \in T
  BY <1>2, <1>6
<1>8. N - N = 0
  BY <1>2
<1> QED
  BY <1>1, <1>2, <1>7, <1>8 DEF T

\* Whatever function it is that satisfies the loop's definition.
LEMMA LoopIsError ==
  ASSUME NEW d, FileWrite(d), NEW l, LoopFrom(l, d, 0)
  PROVE  l[0] \in 0..4 /\ l[0] = CheckSub(l, d, 0)
<1>1. PICK k : LoopFrom(k, d, 0) /\ \A p \in 0..(d[1] - 7) : k[p] \in 0..4
  BY LoopExists
<1>2. PICK N : N = d[1] - 7
  OBVIOUS
<1>3. N \in Nat
  <2>1. PICK x : x = d[1]
    OBVIOUS
  <2>2. x \in 7..255
    BY <2>1, FileSize
  <2> QED
    BY <2>1, <2>2, <1>2
<1> DEFINE T == {n \in Nat : n <= N => \A q \in (N - n)..N : l[q] = k[q]}
<1>4. ASSUME NEW p \in 0..N, \A q \in (p + 1)..N : l[q] = k[q]
      PROVE  l[p] = k[p]
  <2>1. \A q \in (p + 1)..N : k[q] = l[q] /\ k[q] \in 0..4
    <3> SUFFICES ASSUME NEW q \in (p + 1)..N
                 PROVE  k[q] = l[q] /\ k[q] \in 0..4
      OBVIOUS
    <3>1. q \in 0..N
      BY <1>3
    <3> QED
      BY <3>1, <1>1, <1>2, <1>4
  <2>2. CheckSub(k, d, p) = CheckSub(l, d, p)
    BY <2>1, <1>2, LoopStep
  <2>3. l[p] = CheckSub(l, d, p) /\ k[p] = CheckSub(k, d, p)
    BY <1>1, <1>2 DEF LoopFrom
  <2> QED
    BY <2>2, <2>3
<1>5. 0 \in T
  <2>1. \A q \in (N + 1)..N : l[q] = k[q]
    BY <1>3
  <2>2. l[N] = k[N]
    BY <1>3, <1>4, <2>1
  <2>3. \A q \in (N - 0)..N : q = N
    BY <1>3
  <2> QED
    BY <2>2, <2>3
<1>6. ASSUME NEW n \in Nat, n \in T
      PROVE  n + 1 \in T
  <2>1. SUFFICES ASSUME n + 1 <= N
                 PROVE  \A q \in (N - (n + 1))..N : l[q] = k[q]
    OBVIOUS
  <2>2. \A q \in (N - n)..N : l[q] = k[q]
    BY <1>3, <1>6, <2>1
  <2> HIDE DEF T
  <2>3. PICK z : z = N - (n + 1)
    OBVIOUS
  <2>4. z \in 0..N /\ z + 1 = N - n
    BY <1>3, <2>1, <2>3
  <2>5. l[z] = k[z]
    BY <1>4, <2>2, <2>4
  <2>6. \A q \in z..N : q = z \/ q \in (N - n)..N
    BY <2>4, <1>3
  <2> QED
    BY <2>2, <2>3, <2>5, <2>6
<1> HIDE DEF T
<1>7. Nat \subseteq T
  BY <1>5, <1>6, SetInduction
<1>8. N \in T
  BY <1>3, <1>7
<1>9. 0 \in (N - N)..N
  BY <1>3
<1>10. l[0] = k[0]
  BY <1>3, <1>8, <1>9 DEF T
<1>11. 0 \in 0..(d[1] - 7)
  BY <1>2, <1>3
<1> QED
  BY <1>1, <1>10, <1>11 DEF LoopFrom

LEMMA LoopIs ==
  ASSUME NEW d, \E l : LoopFrom(l, d, 0)
  PROVE  \E l : /\ LoopFrom(l, d, 0)
                /\ handle_write_file_record(d) =
                     IF d[1] \notin 7..251 THEN ILLEGAL_DATA_VALUE ELSE l[0]
<1> DEFINE loop == CHOOSE l : LoopFrom(l, d, 0)
<1>1. LoopFrom(loop, d, 0)
  OBVIOUS
<1>2. handle_write_file_record(d) =
        IF d[1] \notin 7..251 THEN ILLEGAL_DATA_VALUE ELSE loop[0]
  BY Zenon DEF handle_write_file_record, LoopFrom, CheckSub, EndOfSub
<1> QED
  BY <1>1, <1>2

-----------------------------------------------------------------------------
(* The bytes that the client's functions put one behind the other.         *)

\* w starts as s does, whose length is n, and so do the numbers in it.
StartsAs(w, s, n) == \A i \in 1..(n - 1) : get_2(w, i) = get_2(s, i)

LEMMA GetLeft ==
  ASSUME NEW s \in Bytes, NEW t \in Bytes, NEW w, IsCat(w, s, t)
  PROVE  StartsAs(w, s, Len(s))
<1>1. PICK n : n = Len(s) /\ n \in Nat
  BY LenIsNat
<1>2. \A i \in 1..n : w[i] = s[i]
  BY <1>1 DEF IsCat
<1>3. ASSUME NEW i \in 1..(n - 1)
      PROVE  get_2(w, i) = get_2(s, i)
  <2>1. i \in 1..n /\ i + 1 \in 1..n
    BY <1>1
  <2>2. w[i] = s[i] /\ w[i + 1] = s[i + 1]
    BY <1>2, <2>1
  <2> QED
    BY <2>2 DEF get_2
<1> QED
  BY <1>1, <1>3 DEF StartsAs

LEMMA GetPut ==
  ASSUME NEW x \in Word
  PROVE  /\ get_2(put_2(x), 1) = x /\ put_2(x) \in Bytes /\ Len(put_2(x)) = 2
<1>1. PICK p : p = put_2(x)
  OBVIOUS
<1>2. 256 * p[1] + p[2] = x /\ p \in Bytes /\ Len(p) = 2
  BY <1>1, PutIsBytes
<1> QED
  BY <1>1, <1>2 DEF get_2

LEMMA OneByte ==
  ASSUME NEW x \in Byte
  PROVE  <<x>> \in Bytes /\ Len(<<x>>) = 1 /\ <<x>>[1] = x
BY DEF Bytes

\* s is a beginning, with a two-byte number behind it.
LEMMA PutBehind ==
  ASSUME NEW s \in Bytes, NEW x \in Word
  PROVE  /\ s \o put_2(x) \in Bytes /\ Len(s \o put_2(x)) = Len(s) + 2
         /\ get_2(s \o put_2(x), Len(s) + 1) = x
         /\ IsCat(s \o put_2(x), s, put_2(x))
<1>1. PICK p : p = put_2(x)
  OBVIOUS
<1>2. p \in Bytes /\ Len(p) = 2 /\ get_2(p, 1) = x
  BY <1>1, GetPut
<1>3. PICK w : w = s \o p
  OBVIOUS
<1>4. IsCat(w, s, p)
  BY <1>2, <1>3, CatIs
<1>5. Len(s) \in Nat
  BY LenIsNat
<1>6. get_2(w, Len(s) + 1) = get_2(p, 1)
  <2>1. PICK n : n = Len(s) /\ n \in Nat
    BY <1>5
  <2>2. 1 \in 1..Len(p) /\ 2 \in 1..Len(p)
    BY <1>2
  <2>3. w[n + 1] = p[1] /\ w[n + 2] = p[2]
    BY <2>1, <2>2, <1>4 DEF IsCat
  <2>4. (n + 1) + 1 = n + 2
    BY <2>1
  <2> QED
    BY <2>1, <2>3, <2>4 DEF get_2
<1>7. w \in Bytes /\ Len(w) = Len(s) + 2
  BY <1>2, <1>4 DEF IsCat
<1> QED
  BY <1>1, <1>2, <1>3, <1>4, <1>6, <1>7

LEMMA TwoWords ==
  ASSUME NEW a \in Word, NEW q \in Word
  PROVE  /\ put_2(a) \o put_2(q) \in Bytes
         /\ Len(put_2(a) \o put_2(q)) = 4
         /\ get_2(put_2(a) \o put_2(q), 1) = a
         /\ get_2(put_2(a) \o put_2(q), 3) = q
<1>1. PICK s : s = put_2(a)
  OBVIOUS
<1>2. s \in Bytes /\ Len(s) = 2 /\ get_2(s, 1) = a
  BY <1>1, GetPut
<1>3. PICK w : w = s \o put_2(q)
  OBVIOUS
<1>4. /\ w \in Bytes /\ Len(w) = Len(s) + 2 /\ get_2(w, Len(s) + 1) = q
      /\ IsCat(w, s, put_2(q))
  BY <1>2, <1>3, PutBehind
<1>5. get_2(w, 1) = get_2(s, 1)
  <2>1. put_2(q) \in Bytes
    BY GetPut
  <2>2. StartsAs(w, s, Len(s))
    BY <2>1, <1>2, <1>4, GetLeft
  <2> QED
    BY <2>2, <1>2 DEF StartsAs
<1>6. Len(w) = 4 /\ get_2(w, 3) = q
  BY <1>2, <1>4
<1> QED
  BY <1>1, <1>2, <1>3, <1>4, <1>5, <1>6

\* Two numbers, a byte and the rest.
Multiple(a, q, b, t) == put_2(a) \o put_2(q) \o <<b>> \o t

LEMMA MultipleIs ==
  ASSUME NEW a \in Word, NEW q \in Word, NEW b \in Byte, NEW t \in Bytes
  PROVE  /\ Multiple(a, q, b, t) \in Bytes
         /\ Len(Multiple(a, q, b, t)) = 5 + Len(t)
         /\ get_2(Multiple(a, q, b, t), 1) = a
         /\ get_2(Multiple(a, q, b, t), 3) = q
         /\ Multiple(a, q, b, t)[5] = b
<1>1. PICK s : s = put_2(a) \o put_2(q)
  OBVIOUS
<1>2. s \in Bytes /\ Len(s) = 4 /\ get_2(s, 1) = a /\ get_2(s, 3) = q
  BY <1>1, TwoWords
<1>3. PICK o : o = <<b>>
  OBVIOUS
<1>4. o \in Bytes /\ Len(o) = 1 /\ o[1] = b
  BY <1>3, OneByte
<1>5. PICK h : h = s \o o
  OBVIOUS
<1>6. IsCat(h, s, o)
  BY <1>2, <1>4, <1>5, CatIs
<1>7. h \in Bytes /\ Len(h) = 5 /\ h[5] = b
  <2>1. h \in Bytes /\ Len(h) = Len(s) + Len(o) /\ h[Len(s) + 1] = o[1]
    <3>1. 1 \in 1..Len(o)
      BY <1>4
    <3> QED
      BY <3>1, <1>6 DEF IsCat
  <2> QED
    BY <2>1, <1>2, <1>4
<1>8. get_2(h, 1) = a /\ get_2(h, 3) = q
  <2>1. get_2(h, 1) = get_2(s, 1)
    <3>1. StartsAs(h, s, Len(s))
      BY <1>2, <1>4, <1>6, GetLeft
    <3> QED
      BY <3>1, <1>2, <1>4, <1>6 DEF StartsAs
  <2>2. get_2(h, 3) = get_2(s, 3)
    <3>1. StartsAs(h, s, Len(s))
      BY <1>2, <1>4, <1>6, GetLeft
    <3> QED
      BY <3>1, <1>2, <1>4, <1>6 DEF StartsAs
  <2> QED
    BY <2>1, <2>2, <1>2
<1>9. PICK w : w = h \o t
  OBVIOUS
<1>10. IsCat(w, h, t)
  BY <1>7, <1>9, CatIs
<1>11. w \in Bytes /\ Len(w) = 5 + Len(t) /\ w[5] = b
  <2>1. 5 \in 1..Len(h)
    BY <1>7
  <2> QED
    BY <2>1, <1>7, <1>10 DEF IsCat
<1>12. get_2(w, 1) = a /\ get_2(w, 3) = q
  <2>1. get_2(w, 1) = get_2(h, 1)
    <3>1. StartsAs(w, h, Len(h))
      BY <1>7, <1>10, GetLeft
    <3> QED
      BY <3>1, <1>7, <1>10 DEF StartsAs
  <2>2. get_2(w, 3) = get_2(h, 3)
    <3>1. StartsAs(w, h, Len(h))
      BY <1>7, <1>10, GetLeft
    <3> QED
      BY <3>1, <1>7, <1>10 DEF StartsAs
  <2> QED
    BY <2>1, <2>2, <1>8
<1>13. w = Multiple(a, q, b, t)
  BY <1>1, <1>3, <1>5, <1>9 DEF Multiple
<1> QED
  BY <1>11, <1>12, <1>13

\* Four numbers, a byte and the rest.
ReadWrite(a, q, c, e, b, t) ==
  put_2(a) \o put_2(q) \o put_2(c) \o put_2(e) \o <<b>> \o t

IsReadWrite(w, a, q, c, e, b, t) ==
  /\ w \in Bytes /\ Len(w) = 9 + Len(t) /\ w[9] = b
  /\ get_2(w, 1) = a /\ get_2(w, 3) = q /\ get_2(w, 5) = c /\ get_2(w, 7) = e

LEMMA ReadWriteIs ==
  \A a, q, c, e \in Word, b \in Byte, t \in Bytes :
    IsReadWrite(ReadWrite(a, q, c, e, b, t), a, q, c, e, b, t)
<1> SUFFICES ASSUME NEW a \in Word, NEW q \in Word, NEW c \in Word,
                    NEW e \in Word, NEW b \in Byte, NEW t \in Bytes,
                    NEW w, w = ReadWrite(a, q, c, e, b, t)
             PROVE  IsReadWrite(w, a, q, c, e, b, t)
  OBVIOUS
<1>1. PICK s : s = put_2(a) \o put_2(q)
  OBVIOUS
<1>2. s \in Bytes /\ Len(s) = 4 /\ get_2(s, 1) = a /\ get_2(s, 3) = q
  BY <1>1, TwoWords
<1>3. PICK u : u = s \o put_2(c)
  OBVIOUS
<1>4. /\ u \in Bytes /\ Len(u) = Len(s) + 2 /\ get_2(u, Len(s) + 1) = c
      /\ IsCat(u, s, put_2(c))
  BY <1>2, <1>3, PutBehind
<1>5. put_2(c) \in Bytes /\ put_2(e) \in Bytes
  BY GetPut
<1>6. /\ u \in Bytes /\ Len(u) = 6 /\ get_2(u, 1) = a /\ get_2(u, 3) = q
      /\ get_2(u, 5) = c
  <2>1. get_2(u, 1) = get_2(s, 1)
    <3>1. StartsAs(u, s, Len(s))
      BY <1>2, <1>4, <1>5, GetLeft
    <3> QED
      BY <3>1, <1>2, <1>4, <1>5 DEF StartsAs
  <2>2. get_2(u, 3) = get_2(s, 3)
    <3>1. StartsAs(u, s, Len(s))
      BY <1>2, <1>4, <1>5, GetLeft
    <3> QED
      BY <3>1, <1>2, <1>4, <1>5 DEF StartsAs
  <2> QED
    BY <2>1, <2>2, <1>2, <1>4
<1>7. PICK v : v = u \o put_2(e)
  OBVIOUS
<1>8. /\ v \in Bytes /\ Len(v) = Len(u) + 2 /\ get_2(v, Len(u) + 1) = e
      /\ IsCat(v, u, put_2(e))
  BY <1>6, <1>7, PutBehind
<1>9. /\ v \in Bytes /\ Len(v) = 8 /\ get_2(v, 1) = a /\ get_2(v, 3) = q
      /\ get_2(v, 5) = c /\ get_2(v, 7) = e
  <2>1. get_2(v, 1) = get_2(u, 1)
    <3>1. StartsAs(v, u, Len(u))
      BY <1>6, <1>8, <1>5, GetLeft
    <3> QED
      BY <3>1, <1>6, <1>8, <1>5 DEF StartsAs
  <2>2. get_2(v, 3) = get_2(u, 3)
    <3>1. StartsAs(v, u, Len(u))
      BY <1>6, <1>8, <1>5, GetLeft
    <3> QED
      BY <3>1, <1>6, <1>8, <1>5 DEF StartsAs
  <2>3. get_2(v, 5) = get_2(u, 5)
    <3>1. StartsAs(v, u, Len(u))
      BY <1>6, <1>8, <1>5, GetLeft
    <3> QED
      BY <3>1, <1>6, <1>8, <1>5 DEF StartsAs
  <2> QED
    BY <2>1, <2>2, <2>3, <1>6, <1>8
<1>10. PICK o : o = <<b>>
  OBVIOUS
<1>11. o \in Bytes /\ Len(o) = 1 /\ o[1] = b
  BY <1>10, OneByte
<1>12. PICK h : h = v \o o
  OBVIOUS
<1>13. IsCat(h, v, o)
  BY <1>9, <1>11, <1>12, CatIs
<1>14. h \in Bytes /\ Len(h) = 9 /\ h[9] = b
  <2>1. h \in Bytes /\ Len(h) = Len(v) + Len(o) /\ h[Len(v) + 1] = o[1]
    <3>1. 1 \in 1..Len(o)
      BY <1>11
    <3> QED
      BY <3>1, <1>13 DEF IsCat
  <2> QED
    BY <2>1, <1>9, <1>11
<1>15. \A i \in 1..7 : get_2(h, i) = get_2(v, i)
  <2>1. StartsAs(h, v, Len(v))
    BY <1>9, <1>11, <1>13, GetLeft
  <2> QED
    BY <2>1, <1>9, <1>11, <1>13 DEF StartsAs
<1>16. w = h \o t
  BY <1>1, <1>3, <1>7, <1>10, <1>12 DEF ReadWrite
<1>17. IsCat(w, h, t)
  BY <1>14, <1>16, CatIs
<1>18. w \in Bytes /\ Len(w) = 9 + Len(t) /\ w[9] = b
  <2>1. 9 \in 1..Len(h)
    BY <1>14
  <2> QED
    BY <2>1, <1>14, <1>17 DEF IsCat
<1>19. \A i \in 1..7 : get_2(w, i) = get_2(h, i)
  <2>1. StartsAs(w, h, Len(h))
    BY <1>14, <1>17, GetLeft
  <2> QED
    BY <2>1, <1>14, <1>17 DEF StartsAs
<1>21. 1 \in 1..7 /\ 3 \in 1..7 /\ 5 \in 1..7 /\ 7 \in 1..7
  OBVIOUS
<1> QED
  BY <1>9, <1>15, <1>18, <1>19, <1>21 DEF IsReadWrite

\* Two bytes, three numbers and the rest.
FileRecord(x, a, q, c, t) ==
  <<x, 6>> \o put_2(a) \o put_2(q) \o put_2(c) \o t

LEMMA FileRecordIs ==
  ASSUME NEW x \in Byte, NEW a \in Word, NEW q \in Word, NEW c \in Word,
         NEW t \in Bytes
  PROVE  /\ FileRecord(x, a, q, c, t) \in Bytes
         /\ Len(FileRecord(x, a, q, c, t)) = 8 + Len(t)
         /\ FileRecord(x, a, q, c, t)[1] = x
         /\ FileRecord(x, a, q, c, t)[2] = 6
         /\ get_2(FileRecord(x, a, q, c, t), 3) = a
         /\ get_2(FileRecord(x, a, q, c, t), 5) = q
         /\ get_2(FileRecord(x, a, q, c, t), 7) = c
<1>1. PICK s : s = <<x, 6>>
  OBVIOUS
<1>2. s \in Bytes /\ Len(s) = 2 /\ s[1] = x /\ s[2] = 6
  <2>1. 6 \in Byte
    BY DEF Byte
  <2> QED
    BY <1>1, <2>1, Pair
<1>3. put_2(a) \in Bytes /\ put_2(q) \in Bytes /\ put_2(c) \in Bytes
  BY GetPut
<1>4. PICK u : u = s \o put_2(a)
  OBVIOUS
<1>5. /\ u \in Bytes /\ Len(u) = Len(s) + 2 /\ get_2(u, Len(s) + 1) = a
      /\ IsCat(u, s, put_2(a))
  BY <1>2, <1>4, PutBehind
<1>6. u \in Bytes /\ Len(u) = 4 /\ get_2(u, 3) = a /\ u[1] = x /\ u[2] = 6
  <2>1. 1 \in 1..Len(s) /\ 2 \in 1..Len(s)
    BY <1>2
  <2>2. u[1] = s[1] /\ u[2] = s[2]
    BY <2>1, <1>5 DEF IsCat
  <2> QED
    BY <2>2, <1>2, <1>5
<1>7. PICK v : v = u \o put_2(q)
  OBVIOUS
<1>8. /\ v \in Bytes /\ Len(v) = Len(u) + 2 /\ get_2(v, Len(u) + 1) = q
      /\ IsCat(v, u, put_2(q))
  BY <1>6, <1>7, PutBehind
<1>9. /\ v \in Bytes /\ Len(v) = 6 /\ get_2(v, 3) = a /\ get_2(v, 5) = q
      /\ v[1] = x /\ v[2] = 6
  <2>1. 1 \in 1..Len(u) /\ 2 \in 1..Len(u)
    BY <1>6
  <2>2. v[1] = u[1] /\ v[2] = u[2]
    BY <2>1, <1>8 DEF IsCat
  <2>3. get_2(v, 3) = get_2(u, 3)
    <3>1. StartsAs(v, u, Len(u))
      BY <1>6, <1>8, <1>3, GetLeft
    <3> QED
      BY <3>1, <1>6, <1>8, <1>3 DEF StartsAs
  <2> QED
    BY <2>2, <2>3, <1>6, <1>8
<1>10. PICK h : h = v \o put_2(c)
  OBVIOUS
<1>11. /\ h \in Bytes /\ Len(h) = Len(v) + 2 /\ get_2(h, Len(v) + 1) = c
       /\ IsCat(h, v, put_2(c))
  BY <1>9, <1>10, PutBehind
<1>12. /\ h \in Bytes /\ Len(h) = 8 /\ get_2(h, 3) = a /\ get_2(h, 5) = q
       /\ get_2(h, 7) = c /\ h[1] = x /\ h[2] = 6
  <2>1. 1 \in 1..Len(v) /\ 2 \in 1..Len(v)
    BY <1>9
  <2>2. h[1] = v[1] /\ h[2] = v[2]
    BY <2>1, <1>11 DEF IsCat
  <2>3. get_2(h, 3) = get_2(v, 3)
    <3>1. StartsAs(h, v, Len(v))
      BY <1>9, <1>11, <1>3, GetLeft
    <3> QED
      BY <3>1, <1>9, <1>11, <1>3 DEF StartsAs
  <2>4. get_2(h, 5) = get_2(v, 5)
    <3>1. StartsAs(h, v, Len(v))
      BY <1>9, <1>11, <1>3, GetLeft
    <3> QED
      BY <3>1, <1>9, <1>11, <1>3 DEF StartsAs
  <2> QED
    BY <2>2, <2>3, <2>4, <1>9, <1>11
<1>13. PICK w : w = h \o t
  OBVIOUS
<1>14. IsCat(w, h, t)
  BY <1>12, <1>13, CatIs
<1>15. w \in Bytes /\ Len(w) = 8 + Len(t) /\ w[1] = x /\ w[2] = 6
  <2>1. 1 \in 1..Len(h) /\ 2 \in 1..Len(h)
    BY <1>12
  <2>2. w[1] = h[1] /\ w[2] = h[2]
    BY <2>1, <1>14 DEF IsCat
  <2> QED
    BY <2>2, <1>12, <1>14 DEF IsCat
<1>16. \A i \in 1..7 : get_2(w, i) = get_2(h, i)
  <2>1. StartsAs(w, h, Len(h))
    BY <1>12, <1>14, GetLeft
  <2> QED
    BY <2>1, <1>12, <1>14 DEF StartsAs
<1>17. w = FileRecord(x, a, q, c, t)
  BY <1>1, <1>4, <1>7, <1>10, <1>13 DEF FileRecord
<1>18. 3 \in 1..7 /\ 5 \in 1..7 /\ 7 \in 1..7
  OBVIOUS
<1> QED
  BY <1>12, <1>15, <1>16, <1>17, <1>18

-----------------------------------------------------------------------------
(* Each request that a client's function sends has a shape that servers    *)
(* read, is one that they accept, and is answered with what the client     *)
(* accepts.                                                                *)

\* The data d of a message is as long as a node that reads it expects.
HasShape(d, s) ==
  /\ d \in Bytes /\ Len(d) >= s.fixed
  /\ Len(d) = s.fixed + (IF s.counted THEN d[s.fixed] ELSE 0)

\* The answer to a good request, and what the client makes of it.
GoodAnswer(fc, d, v) ==
  /\ HasShape(Answer(fc, d, v), ResShape(fc))
  /\ AnswerLength(fc, Answer(fc, d, v)) \in 0..253
  /\ Accept(fc, d, Answer(fc, d, v)) = NMBS_ERROR_NONE
  /\ fc \in Reads \cup {23} =>
       Answer(fc, d, v)[Len(Answer(fc, d, v))] = v

GoodRequest(fc, d) ==
  /\ HasShape(d, ReqShape(fc)) /\ Len(d) <= 253
  /\ Judge(fc, d) = NMBS_ERROR_NONE
  /\ \A v \in Byte : GoodAnswer(fc, d, v)

HasCallback(fc) ==
  IF fc = 23 THEN {3, 16} \subseteq Callbacks ELSE fc \in Callbacks

LEMMA Ranges ==
  /\ \A x : x \in Byte <=> x \in Int /\ 0 <= x /\ x <= 255
  /\ \A x : x \in Word <=> x \in Int /\ 0 <= x /\ x <= 65535
BY DEF Byte, Word

\* The caller's bitfield holds the quantity of bits it says.
EnoughBits(coils, quantity) == Len(coils) >= (quantity + 7) \div 8

\* How many values are read at once.
BitsRead == {q \in Nat : 1 <= q /\ q <= 2000}
RegistersRead == {q \in Nat : 1 <= q /\ q <= 125}

\* One byte n and n bytes behind it.
LEMMA Counting ==
  ASSUME NEW n \in Byte, NEW t \in Bytes, Len(t) = n
  PROVE  /\ HasShape(<<n>> \o t, Counted(1)) /\ Len(<<n>> \o t) = 1 + n
         /\ (<<n>> \o t)[1] = n
         /\ n >= 1 => (<<n>> \o t)[Len(<<n>> \o t)] = t[n]
<1>1. PICK h : h = <<n>>
  OBVIOUS
<1>2. h \in Bytes /\ Len(h) = 1 /\ h[1] = n
  BY <1>1, OneByte
<1>3. PICK w : w = h \o t
  OBVIOUS
<1>4. IsCat(w, h, t)
  BY <1>2, <1>3, CatIs
<1>5. 1 \in 1..Len(h)
  BY <1>2
<1>6. w \in Bytes /\ Len(w) = 1 + n /\ w[1] = n
  BY <1>2, <1>4, <1>5 DEF IsCat
<1>7. n >= 1 => w[1 + n] = t[n]
  <2>1. n \in Nat
    BY DEF Byte
  <2> QED
    BY <2>1, <1>2, <1>4 DEF IsCat
<1>8. n \in Nat
  BY DEF Byte
<1>9. HasShape(w, Counted(1))
  BY <1>6, <1>8 DEF HasShape, Counted
<1> QED
  BY <1>1, <1>3, <1>6, <1>7, <1>9

\* The branches of Answer and Accept, by function code.
CountedBytes(n, v) == <<n>> \o [i \in 1..n |-> v]

LEMMA AnswerOfBits ==
  ASSUME NEW d, NEW fc \in {1, 2}, NEW v
  PROVE  Answer(fc, d, v) = CountedBytes((get_2(d, 3) + 7) \div 8, v)
<1>1. /\ ~(fc \in {3, 4, 23}) /\ ~(fc \in {5, 6, 15, 16})
      /\ ~(fc = 20) /\ ~(fc = 21)
  OBVIOUS
<1> QED
  BY <1>1, Zenon DEF Answer, CountedBytes

SameRegisters(q, v) == <<q * 2>> \o put_regs([i \in 1..q |-> v])

LEMMA AnswerOfRegisters ==
  ASSUME NEW d, NEW fc \in {3, 4, 23}, NEW v
  PROVE  Answer(fc, d, v) = SameRegisters(get_2(d, 3), v)
<1>1. /\ ~(fc \in {1, 2}) /\ ~(fc \in {5, 6, 15, 16})
      /\ ~(fc = 20) /\ ~(fc = 21)
  OBVIOUS
<1> QED
  BY <1>1, Zenon DEF Answer, SameRegisters

LEMMA AnswerOfWrite ==
  ASSUME NEW d, NEW fc \in {5, 6, 15, 16}, NEW v
  PROVE  Answer(fc, d, v) = SubSeq(d, 1, 4)
<1>1. /\ ~(fc \in {1, 2}) /\ ~(fc \in {3, 4, 23})
      /\ ~(fc = 20) /\ ~(fc = 21)
  OBVIOUS
<1> QED
  BY <1>1, Zenon DEF Answer

LEMMA AnswerOfFileWrite ==
  ASSUME NEW d, NEW v
  PROVE  Answer(21, d, v) = d
<1>1. /\ ~(21 \in {1, 2}) /\ ~(21 \in {3, 4, 23})
      /\ ~(21 \in {5, 6, 15, 16}) /\ ~(21 = 20)
  OBVIOUS
<1> QED
  BY <1>1, Zenon DEF Answer

LEMMA Accepts ==
  ASSUME NEW fc, NEW r, NEW d,
         \/ fc \in {1, 2}
         \/ fc \in {3, 4, 23} /\ recv_read_registers_res(r, d)
         \/ fc \in {5, 6, 15, 16} /\ recv_write_res(r, d)
         \/ fc = 20 /\ recv_read_file_record_res(r, d)
         \/ fc = 21 /\ recv_write_file_record_res(r, d)
  PROVE  Accept(fc, r, d) = NMBS_ERROR_NONE
<1>1. CASE fc \in {1, 2}
  <2>1. /\ ~(fc \in {3, 4, 23}) /\ ~(fc \in {5, 6, 15, 16})
        /\ ~(fc = 20) /\ ~(fc = 21)
    BY <1>1
  <2> QED
    BY <1>1, <2>1, Zenon DEF Accept
<1>2. CASE fc \in {3, 4, 23} /\ recv_read_registers_res(r, d)
  <2>1. /\ ~(fc \in {1, 2}) /\ ~(fc \in {5, 6, 15, 16})
        /\ ~(fc = 20) /\ ~(fc = 21)
    BY <1>2
  <2> QED
    BY <1>2, <2>1, Zenon DEF Accept
<1>3. CASE fc \in {5, 6, 15, 16} /\ recv_write_res(r, d)
  <2>1. /\ ~(fc \in {1, 2}) /\ ~(fc \in {3, 4, 23})
        /\ ~(fc = 20) /\ ~(fc = 21)
    BY <1>3
  <2> QED
    BY <1>3, <2>1, Zenon DEF Accept
<1>4. CASE fc = 20 /\ recv_read_file_record_res(r, d)
  <2>1. /\ ~(fc \in {1, 2}) /\ ~(fc \in {3, 4, 23})
        /\ ~(fc \in {5, 6, 15, 16}) /\ ~(fc = 21)
    BY <1>4
  <2> QED
    BY <1>4, <2>1, Zenon DEF Accept
<1>5. CASE fc = 21 /\ recv_write_file_record_res(r, d)
  <2>1. /\ ~(fc \in {1, 2}) /\ ~(fc \in {3, 4, 23})
        /\ ~(fc \in {5, 6, 15, 16}) /\ ~(fc = 20)
    BY <1>5
  <2> QED
    BY <1>5, <2>1, Zenon DEF Accept
<1> QED
  BY <1>1, <1>2, <1>3, <1>4, <1>5

\* What is read of discrete values.
LEMMA BitsAnswer ==
  ASSUME NEW d, NEW fc \in {1, 2}, NEW v \in Byte,
         get_2(d, 3) \in BitsRead
  PROVE  GoodAnswer(fc, d, v) /\ Answer(fc, d, v) \in Bytes
<1>1. PICK q : q = get_2(d, 3)
  OBVIOUS
<1>2. PICK n : n = (q + 7) \div 8
  OBVIOUS
<1>3. n \in 1..250
  <2>1. q \in 1..2000
    BY <1>1 DEF BitsRead
  <2> QED
    BY <1>2, <2>1
<1>4. PICK t : t = [i \in 1..n |-> v]
  OBVIOUS
<1>5. t \in Bytes /\ Len(t) = n /\ t[n] = v
  BY <1>3, <1>4 DEF Bytes
<1>6. PICK a : a = <<n>> \o t
  OBVIOUS
<1>7. n \in Byte
  BY <1>3 DEF Byte
<1>8. /\ HasShape(a, Counted(1)) /\ Len(a) = 1 + n
      /\ a[Len(a)] = t[n]
  BY <1>3, <1>5, <1>6, <1>7, Counting
<1>9. Answer(fc, d, v) = a
  <2>1. Answer(fc, d, v) = CountedBytes(n, v)
    BY <1>1, <1>2, AnswerOfBits
  <2>2. CountedBytes(n, v) = a
    BY <1>4, <1>6, Zenon DEF CountedBytes
  <2> QED
    BY <2>1, <2>2, Zenon
<1>10. ResShape(fc) = Counted(1)
  BY DEF ResShape
<1>11. AnswerLength(fc, a) \in 0..253
  <2>1. Len(a) = 1 + n
    BY <1>8
  <2>2. Len(a) \in 0..253
    BY <2>1, <1>3
  <2> QED
    BY <2>2 DEF AnswerLength
<1>12. Accept(fc, d, a) = NMBS_ERROR_NONE
  BY Accepts
<1>13. a \in Bytes
  BY <1>8 DEF HasShape
<1> QED
  BY <1>5, <1>8, <1>9, <1>10, <1>11, <1>12, <1>13 DEF GoodAnswer

\* What is read of registers.
LEMMA RegistersAnswer ==
  ASSUME NEW d, NEW fc \in {3, 4, 23}, NEW v \in Byte,
         get_2(d, 3) \in RegistersRead
  PROVE  GoodAnswer(fc, d, v) /\ Answer(fc, d, v) \in Bytes
<1>1. PICK q : q = get_2(d, 3)
  OBVIOUS
<1>2. q \in 1..125
  BY <1>1 DEF RegistersRead
<1>3. PICK n : n = q * 2
  OBVIOUS
<1>4. n \in 1..250 /\ n = 2 * q /\ q \in Nat
  BY <1>2, <1>3
<1>5. PICK t : t = put_regs([i \in 1..q |-> v])
  OBVIOUS
<1>6. t \in Bytes /\ Len(t) = n /\ t[n] = v
  <2>1. q \in Nat /\ q >= 1
    BY <1>2
  <2>2. t \in Bytes /\ Len(t) = 2 * q /\ t[2 * q] = v
    BY <2>1, <1>5, PutSame
  <2>3. n = 2 * q
    BY <1>4
  <2> QED
    BY <2>2, <2>3, Zenon
<1>7. PICK a : a = <<n>> \o t
  OBVIOUS
<1>8. n \in Byte
  BY <1>4 DEF Byte
<1>9. /\ HasShape(a, Counted(1)) /\ Len(a) = 1 + n
      /\ a[1] = n /\ a[Len(a)] = t[n]
  BY <1>4, <1>6, <1>7, <1>8, Counting
<1>10. Answer(fc, d, v) = a
  <2>1. Answer(fc, d, v) = SameRegisters(q, v)
    BY <1>1, AnswerOfRegisters
  <2>2. SameRegisters(q, v) = a
    BY <1>3, <1>5, <1>7, Zenon DEF SameRegisters
  <2> QED
    BY <2>1, <2>2, Zenon
<1>11. ResShape(fc) = Counted(1)
  BY DEF ResShape
<1>12. AnswerLength(fc, a) \in 0..253
  <2>1. Len(a) = 1 + n /\ n \in 1..250
    BY <1>4, <1>9
  <2>2. Len(a) \in 0..253
    BY <2>1
  <2> QED
    BY <2>2 DEF AnswerLength
<1>13. Accept(fc, d, a) = NMBS_ERROR_NONE
  <2>1. recv_read_registers_res(d, a)
    BY <1>1, <1>4, <1>9 DEF recv_read_registers_res
  <2> QED
    BY <2>1, Accepts
<1>14. a \in Bytes
  BY <1>9 DEF HasShape
<1> QED
  BY <1>6, <1>9, <1>10, <1>11, <1>12, <1>13, <1>14 DEF GoodAnswer

\* The echo of a write.
LEMMA EchoAnswer ==
  ASSUME NEW d \in Bytes, NEW fc \in {5, 6, 15, 16}, NEW v, Len(d) >= 4
  PROVE  GoodAnswer(fc, d, v) /\ Answer(fc, d, v) \in Bytes
<1>1. PICK a : a = SubSeq(d, 1, 4)
  OBVIOUS
<1>2. a \in Bytes /\ Len(a) = 4
  <2>1. Len(d) \in Nat /\ \A i \in 1..Len(d) : d[i] \in Byte
    BY LenIsNat
  <2>2. \A i \in 1..4 : d[i] \in Byte
    BY <2>1
  <2> QED
    BY <1>1, <2>2, SubSeqProperties DEF Bytes
<1>3. Answer(fc, d, v) = a
  BY <1>1, AnswerOfWrite
<1>4. ResShape(fc) = Fixed(4)
  BY DEF ResShape
<1>5. HasShape(a, Fixed(4))
  BY <1>2 DEF HasShape, Fixed
<1>6. AnswerLength(fc, a) \in 0..253
  BY <1>2 DEF AnswerLength
<1>7. Accept(fc, d, a) = NMBS_ERROR_NONE
  <2>1. recv_write_res(d, a)
    BY <1>1 DEF recv_write_res
  <2> QED
    BY <2>1, Accepts
<1>8. fc \notin Reads \cup {23}
  BY DEF Reads
<1> QED
  BY <1>2, <1>3, <1>4, <1>5, <1>6, <1>7, <1>8 DEF GoodAnswer

-----------------------------------------------------------------------------
LEMMA ReadBitsIsGood ==
  ASSUME NEW a \in Word, NEW q \in Word, NEW fc \in {1, 2}, HasCallback(fc),
         read_discrete(a, q) # Refused
  PROVE  GoodRequest(fc, read_discrete(a, q))
<1>1. PICK d : d = read_discrete(a, q)
  OBVIOUS
<1>2. /\ d = put_2(a) \o put_2(q) /\ q \in 1..2000 /\ InSpace(a, q)
  BY <1>1 DEF read_discrete
<1>3. d \in Bytes /\ Len(d) = 4 /\ get_2(d, 1) = a /\ get_2(d, 3) = q
  BY <1>2, TwoWords
<1>4. HasShape(d, ReqShape(fc)) /\ Len(d) <= 253
  BY <1>3 DEF HasShape, ReqShape, Fixed
<1>5. NoCallback(fc) = NMBS_ERROR_NONE
  BY DEF NoCallback, HasCallback
<1>6. Judge(fc, d) = NMBS_ERROR_NONE
  BY <1>2, <1>3, <1>5 DEF Judge, handle_read_discrete, JudgeRange
<1>7. \A v \in Byte : GoodAnswer(fc, d, v)
  <2>1. q \in BitsRead
    BY <1>2 DEF BitsRead
  <2>2. get_2(d, 3) \in BitsRead
    BY <2>1, <1>3
  <2> QED
    BY <2>2, BitsAnswer
<1> QED
  BY <1>1, <1>4, <1>6, <1>7 DEF GoodRequest

LEMMA ReadRegistersIsGood ==
  ASSUME NEW a \in Word, NEW q \in Word, NEW fc \in {3, 4}, HasCallback(fc),
         read_registers(a, q) # Refused
  PROVE  GoodRequest(fc, read_registers(a, q))
<1>1. PICK d : d = read_registers(a, q)
  OBVIOUS
<1>2. /\ d = put_2(a) \o put_2(q) /\ q \in 1..125 /\ InSpace(a, q)
  BY <1>1 DEF read_registers
<1>3. d \in Bytes /\ Len(d) = 4 /\ get_2(d, 1) = a /\ get_2(d, 3) = q
  BY <1>2, TwoWords
<1>4. HasShape(d, ReqShape(fc)) /\ Len(d) <= 253
  BY <1>3 DEF HasShape, ReqShape, Fixed
<1>5. NoCallback(fc) = NMBS_ERROR_NONE
  BY DEF NoCallback, HasCallback
<1>6. Judge(fc, d) = NMBS_ERROR_NONE
  BY <1>2, <1>3, <1>5 DEF Judge, handle_read_registers, JudgeRange
<1>7. \A v \in Byte : GoodAnswer(fc, d, v)
  <2>1. fc \in {3, 4, 23} /\ q \in RegistersRead
    BY <1>2 DEF RegistersRead
  <2>2. get_2(d, 3) \in RegistersRead
    BY <2>1, <1>3
  <2> QED
    BY <2>1, <2>2, RegistersAnswer
<1> QED
  BY <1>1, <1>4, <1>6, <1>7 DEF GoodRequest

LEMMA WriteCoilIsGood ==
  ASSUME NEW a \in Word, NEW v \in BOOLEAN, HasCallback(5)
  PROVE  GoodRequest(5, write_single_coil(a, v))
<1>1. PICK d : d = write_single_coil(a, v)
  OBVIOUS
<1>2. PICK x : x = IF v THEN 65280 ELSE 0
  OBVIOUS
<1>3. x \in Word /\ x \in {0, 65280}
  BY <1>2 DEF Word
<1>4. d = put_2(a) \o put_2(x)
  BY <1>1, <1>2 DEF write_single_coil
<1>5. d \in Bytes /\ Len(d) = 4 /\ get_2(d, 1) = a /\ get_2(d, 3) = x
  BY <1>3, <1>4, TwoWords
<1>6. HasShape(d, ReqShape(5)) /\ Len(d) <= 253
  BY <1>5 DEF HasShape, ReqShape, Fixed
<1>7. 5 \in Callbacks
  BY DEF HasCallback
<1>8. Judge(5, d) = NMBS_ERROR_NONE
  BY <1>3, <1>5, <1>7 DEF Judge, handle_write_single_coil
<1>9. \A y \in Byte : GoodAnswer(5, d, y)
  <2>1. 5 \in {5, 6, 15, 16} /\ Len(d) >= 4
    BY <1>5
  <2> QED
    BY <2>1, <1>5, EchoAnswer
<1> QED
  BY <1>1, <1>6, <1>8, <1>9 DEF GoodRequest

LEMMA WriteRegisterIsGood ==
  ASSUME NEW a \in Word, NEW x \in Word, HasCallback(6)
  PROVE  GoodRequest(6, write_single_register(a, x))
<1>1. PICK d : d = write_single_register(a, x)
  OBVIOUS
<1>2. d = put_2(a) \o put_2(x)
  BY <1>1 DEF write_single_register
<1>3. d \in Bytes /\ Len(d) = 4
  BY <1>2, TwoWords
<1>4. HasShape(d, ReqShape(6)) /\ Len(d) <= 253
  BY <1>3 DEF HasShape, ReqShape, Fixed
<1>5. 6 \in Callbacks
  BY DEF HasCallback
<1>6. Judge(6, d) = NMBS_ERROR_NONE
  BY <1>5 DEF Judge, handle_write_single_register, NoCallback
<1>7. \A y \in Byte : GoodAnswer(6, d, y)
  <2>1. 6 \in {5, 6, 15, 16} /\ Len(d) >= 4
    BY <1>3
  <2> QED
    BY <2>1, <1>3, EchoAnswer
<1> QED
  BY <1>1, <1>4, <1>6, <1>7 DEF GoodRequest

LEMMA WriteCoilsIsGood ==
  ASSUME NEW a \in Word, NEW q \in Word, NEW coils \in Bytes,
         EnoughBits(coils, q), HasCallback(15),
         write_multiple_coils(a, q, coils) # Refused
  PROVE  GoodRequest(15, write_multiple_coils(a, q, coils))
<1>1. PICK d : d = write_multiple_coils(a, q, coils)
  OBVIOUS
<1>2. PICK b : b = (q + 7) \div 8
  OBVIOUS
<1>3. PICK t : t = SubSeq(coils, 1, b)
  OBVIOUS
<1>4. q \in Int /\ 1 <= q /\ q <= 1968 /\ InSpace(a, q)
  <2>1. q \in Int
    BY DEF Word
  <2> QED
    BY <2>1 DEF write_multiple_coils
<1>16. d = Multiple(a, q, b, t)
  BY <1>1, <1>2, <1>3, <1>4 DEF write_multiple_coils, Multiple
<1>5. b \in 1..246
  BY <1>2, <1>4
<1>6. t \in Bytes /\ Len(t) = b
  <2>1. Len(coils) \in Nat /\ \A i \in 1..Len(coils) : coils[i] \in Byte
    BY LenIsNat
  <2>2. \A i \in 1..b : coils[i] \in Byte
    BY <2>1, <1>2, <1>5 DEF EnoughBits
  <2>3. b \in Int /\ 1 <= b /\ 1 \in Int /\ b - 1 + 1 = b
    BY <1>5
  <2> QED
    BY <1>3, <2>2, <2>3, SubSeqProperties DEF Bytes
<1>7. b \in Byte
  BY <1>5 DEF Byte
<1>8. /\ d \in Bytes /\ Len(d) = 5 + b /\ get_2(d, 1) = a /\ get_2(d, 3) = q
      /\ d[5] = b
  BY <1>16, <1>6, <1>7, MultipleIs
<1>9. HasShape(d, ReqShape(15)) /\ Len(d) <= 253
  <2>1. Len(d) >= 5 /\ Len(d) <= 253 /\ Len(d) = 5 + d[5]
    BY <1>5, <1>8
  <2>2. ReqShape(15) = Counted(5)
    BY DEF ReqShape
  <2> QED
    BY <1>8, <2>1, <2>2 DEF HasShape, Counted
<1>10. NoCallback(15) = NMBS_ERROR_NONE
  BY DEF NoCallback, HasCallback
<1>11. handle_write_multiple_coils(d) =
         JudgeRange(a, q, 1968, NoCallback(15))
  <2>1. b # 0
    BY <1>5
  <2>2. d[5] = b /\ get_2(d, 1) = a /\ get_2(d, 3) = q
    BY <1>8
  <2> QED
    BY <2>1, <2>2, <1>2 DEF handle_write_multiple_coils
<1>12. handle_write_multiple_coils(d) = NMBS_ERROR_NONE
  BY <1>4, <1>10, <1>11 DEF JudgeRange
<1>13. Judge(15, d) = NMBS_ERROR_NONE
  BY <1>12 DEF Judge
<1>14. \A y \in Byte : GoodAnswer(15, d, y)
  <2>1. Len(d) >= 4
    BY <1>5, <1>8
  <2> QED
    BY <2>1, <1>8, EchoAnswer
<1> QED
  BY <1>1, <1>9, <1>13, <1>14 DEF GoodRequest

LEMMA WriteRegistersIsGood ==
  ASSUME NEW a \in Word, NEW rs \in Seq(Word), HasCallback(16),
         write_multiple_registers(a, rs) # Refused
  PROVE  GoodRequest(16, write_multiple_registers(a, rs))
<1>1. PICK d : d = write_multiple_registers(a, rs)
  OBVIOUS
<1>2. PICK q : q = Len(rs)
  OBVIOUS
<1>3. PICK t : t = put_regs(rs)
  OBVIOUS
<1>4. PICK b : b = q * 2
  OBVIOUS
<1>5. q \in 1..123 /\ InSpace(a, q)
  BY <1>1, <1>2 DEF write_multiple_registers
<1>16. d = Multiple(a, q, b, t)
  BY <1>1, <1>2, <1>3, <1>4, <1>5 DEF write_multiple_registers, Multiple
<1>6. q \in 1..123 /\ b \in 2..246 /\ b = 2 * q
  <2>1. q \in 1..123
    BY <1>5
  <2> QED
    BY <1>4, <2>1
<1>7. t \in Bytes /\ Len(t) = b
  BY <1>2, <1>3, <1>6, PutRegs
<1>8. b \in Byte /\ q \in Word
  <2>1. b \in 2..246 /\ q \in 1..123
    BY <1>6
  <2> QED
    BY <2>1, Ranges
<1>9. /\ d \in Bytes /\ Len(d) = 5 + b /\ get_2(d, 1) = a /\ get_2(d, 3) = q
      /\ d[5] = b
  BY <1>16, <1>7, <1>8, MultipleIs
<1>10. HasShape(d, ReqShape(16)) /\ Len(d) <= 253
  <2>1. Len(d) >= 5 /\ Len(d) <= 253 /\ Len(d) = 5 + d[5]
    BY <1>6, <1>9
  <2>2. ReqShape(16) = Counted(5)
    BY DEF ReqShape
  <2> QED
    BY <1>9, <2>1, <2>2 DEF HasShape, Counted
<1>11. NoCallback(16) = NMBS_ERROR_NONE
  BY DEF NoCallback, HasCallback
<1>12. ~(b = 0 \/ q * 2 # b)
  BY <1>4, <1>6
<1>13. handle_write_multiple_registers(d) = NMBS_ERROR_NONE
  <2>1. q \in 1..123 /\ InSpace(a, q)
    BY <1>5
  <2> QED
    BY <2>1, <1>9, <1>11, <1>12, Zenon
    DEF handle_write_multiple_registers, JudgeRange
<1>14. Judge(16, d) = NMBS_ERROR_NONE
  BY <1>13 DEF Judge
<1>15. \A y \in Byte : GoodAnswer(16, d, y)
  <2>1. Len(d) >= 4
    BY <1>6, <1>9
  <2> QED
    BY <2>1, <1>9, EchoAnswer
<1> QED
  BY <1>1, <1>10, <1>14, <1>15 DEF GoodRequest

LEMMA ReadWriteIsGood ==
  ASSUME NEW a \in Word, NEW q \in Word, NEW c \in Word, NEW rs \in Seq(Word),
         HasCallback(23), read_write_registers(a, q, c, rs) # Refused
  PROVE  GoodRequest(23, read_write_registers(a, q, c, rs))
<1>1. PICK d : d = read_write_registers(a, q, c, rs)
  OBVIOUS
<1>2. PICK n : n = Len(rs)
  OBVIOUS
<1>3. PICK t : t = put_regs(rs)
  OBVIOUS
<1>4. PICK b : b = n * 2
  OBVIOUS
<1>5. q \in 1..125 /\ InSpace(a, q) /\ n \in 1..121 /\ InSpace(c, n)
  BY <1>1, <1>2 DEF read_write_registers
<1>16. d = ReadWrite(a, q, c, n, b, t)
  BY <1>1, <1>2, <1>3, <1>4, <1>5 DEF read_write_registers, ReadWrite
<1>6. n \in 1..121 /\ b \in 2..242 /\ b = 2 * n
  <2>1. n \in 1..121
    BY <1>5
  <2> QED
    BY <1>4, <2>1
<1>7. t \in Bytes /\ Len(t) = b
  BY <1>2, <1>3, <1>6, PutRegs
<1>8. b \in Byte /\ n \in Word
  <2>1. b \in Int /\ 0 <= b /\ b <= 255
    BY <1>6
  <2>2. n \in Int /\ 0 <= n /\ n <= 65535
    BY <1>6
  <2>3. b \in Byte
    BY <2>1 DEF Byte
  <2>4. n \in Word
    BY <2>2 DEF Word
  <2> QED
    BY <2>3, <2>4
<1>9. /\ d \in Bytes /\ Len(d) = 9 + b /\ get_2(d, 1) = a /\ get_2(d, 3) = q
      /\ get_2(d, 5) = c /\ get_2(d, 7) = n /\ d[9] = b
  <2>1. t \in Bytes /\ b \in Byte /\ n \in Word /\ Len(t) = b
    BY <1>7, <1>8
  <2>2. IsReadWrite(d, a, q, c, n, b, t)
    BY <2>1, <1>16, ReadWriteIs
  <2> QED
    BY <2>1, <2>2 DEF IsReadWrite
<1>10. HasShape(d, ReqShape(23)) /\ Len(d) <= 253
  <2>1. Len(d) >= 9 /\ Len(d) <= 253 /\ Len(d) = 9 + d[9]
    BY <1>6, <1>9
  <2>2. ReqShape(23) = Counted(9)
    BY DEF ReqShape
  <2> QED
    BY <1>9, <2>1, <2>2 DEF HasShape, Counted
<1>11. {3, 16} \subseteq Callbacks
  BY DEF HasCallback
<1>12. /\ q \in 1..125 /\ n \in 1..123 /\ b = n * 2
       /\ InSpace(a, q) /\ InSpace(c, n)
  <2>1. n \in 1..121
    BY <1>5
  <2>2. n \in 1..123
    BY <2>1
  <2> QED
    BY <1>4, <1>5, <2>2
<1>13. handle_read_write_registers(d) = NMBS_ERROR_NONE
  BY <1>9, <1>11, <1>12, Zenon DEF handle_read_write_registers
<1>14. Judge(23, d) = NMBS_ERROR_NONE
  BY <1>13 DEF Judge
<1>15. \A y \in Byte : GoodAnswer(23, d, y)
  <2>1. 23 \in {3, 4, 23} /\ q \in RegistersRead
    BY <1>5 DEF RegistersRead
  <2>2. get_2(d, 3) \in RegistersRead
    BY <2>1, <1>9
  <2> QED
    BY <2>1, <2>2, RegistersAnswer
<1> QED
  BY <1>1, <1>10, <1>14, <1>15 DEF GoodRequest

-----------------------------------------------------------------------------
(* The same of read_file_record() and write_file_record().                 *)
IsFileRecord(w, x, a, q, c, t) ==
  /\ w \in Bytes /\ Len(w) = 8 + Len(t) /\ w[1] = x /\ w[2] = 6
  /\ get_2(w, 3) = a /\ get_2(w, 5) = q /\ get_2(w, 7) = c

LEMMA FileRecords ==
  \A x \in Byte, a, q, c \in Word, t \in Bytes :
    IsFileRecord(FileRecord(x, a, q, c, t), x, a, q, c, t)
BY FileRecordIs DEF IsFileRecord

LEMMA ReadFileIsGood ==
  ASSUME NEW f \in Word, NEW r \in Word, NEW c \in Word, HasCallback(20),
         read_file_record(f, r, c) # Refused
  PROVE  GoodRequest(20, read_file_record(f, r, c))
<1>1. PICK d : d = read_file_record(f, r, c)
  OBVIOUS
<1>2. FileInSpace(f, r) /\ c \in 0..124
  <2>1. FileInSpace(f, r) /\ c <= 124
    BY <1>1 DEF read_file_record
  <2>2. c \in Nat
    BY Ranges
  <2> QED
    BY <2>1, <2>2
<1>3. PICK w : w = FileRecord(7, f, r, c, <<>>)
  OBVIOUS
<1>4. 7 \in Byte /\ <<>> \in Bytes /\ Len(<<>>) = 0
  BY EmptyIsBytes, Ranges
<1>5. /\ w \in Bytes /\ Len(w) = 8 /\ w[1] = 7 /\ w[2] = 6
      /\ get_2(w, 3) = f /\ get_2(w, 5) = r /\ get_2(w, 7) = c
  <2>1. IsFileRecord(w, 7, f, r, c, <<>>)
    BY <1>3, <1>4, FileRecords
  <2> QED
    BY <2>1, <1>4 DEF IsFileRecord
<1>6. d = w
  <2>1. PICK u : u = <<7, 6>> \o put_2(f) \o put_2(r) \o put_2(c)
    OBVIOUS
  <2>2. d = u
    BY <1>1, <1>2, <2>1 DEF read_file_record
  <2>3. u \in Seq(Byte)
    <3>1. PICK s : s = <<7, 6>>
      OBVIOUS
    <3>2. s \in Bytes
      <4>1. 6 \in Byte
        BY Ranges
      <4> QED
        BY <1>4, <3>1, <4>1, Pair
    <3>3. PICK a : a = s \o put_2(f)
      OBVIOUS
    <3>4. a \in Bytes
      BY <3>2, <3>3, PutBehind
    <3>5. PICK b : b = a \o put_2(r)
      OBVIOUS
    <3>6. b \in Bytes
      BY <3>4, <3>5, PutBehind
    <3>7. u = b \o put_2(c)
      BY <2>1, <3>1, <3>3, <3>5
    <3>8. u \in Bytes
      BY <3>6, <3>7, PutBehind
    <3> QED
      BY <3>8 DEF Bytes
  <2>4. w = u \o <<>>
    BY <1>3, <2>1 DEF FileRecord
  <2>5. u \o <<>> = u
    BY <2>3, ConcatEmptySeq
  <2> QED
    BY <2>2, <2>4, <2>5
<1>7. /\ d \in Bytes /\ Len(d) = 8 /\ d[1] = 7 /\ d[2] = 6
      /\ get_2(d, 3) = f /\ get_2(d, 5) = r /\ get_2(d, 7) = c
  BY <1>5, <1>6
<1>8. HasShape(d, ReqShape(20)) /\ Len(d) <= 253
  <2>1. ReqShape(20) = Counted(1)
    BY DEF ReqShape
  <2> QED
    BY <1>7, <2>1 DEF HasShape, Counted
<1>9. PICK subs : subs = ReadSubs(d)
  OBVIOUS
<1>10. subs = [i \in 1..1 |-> Sub(d, 2)]
  <2>1. 7 \div 7 = 1
    OBVIOUS
  <2>2. subs = [i \in 1..1 |-> Sub(d, 7 * i - 5)]
    BY <1>7, <1>9, <2>1 DEF ReadSubs
  <2>3. \A i \in 1..1 : 7 * i - 5 = 2
    OBVIOUS
  <2> QED
    BY <2>2, <2>3
<1>11. Sub(d, 2) = [type |-> 6, file |-> f, record |-> r, length |-> c]
  BY <1>7 DEF Sub
<1>12. Len(subs) = 1 /\ subs[1].length = c /\ DOMAIN subs = 1..1
       /\ subs[1] = Sub(d, 2)
  BY <1>10, <1>11
<1>13. SubOK(Sub(d, 2), 124)
  BY <1>2, <1>11 DEF SubOK
<1>14. Judge(20, d) = NMBS_ERROR_NONE
  <2>1. \A i \in DOMAIN ReadSubs(d) : SubOK(ReadSubs(d)[i], 124)
    BY <1>9, <1>12, <1>13
  <2>2. ~(d[1] % 7 # 0 \/ d[1] \notin 7..245)
    BY <1>7
  <2>3. handle_read_file_record(d) = NoCallback(20)
    BY <2>1, <2>2 DEF handle_read_file_record
  <2>4. NoCallback(20) = NMBS_ERROR_NONE
    BY DEF NoCallback, HasCallback
  <2> QED
    BY <2>3, <2>4 DEF Judge
<1>15. ASSUME NEW v \in Byte
       PROVE  GoodAnswer(20, d, v)
  <2>1. \A k \in 1..1 : subs[k].length \in 0..124
    BY <1>2, <1>12
  <2>2. \E x : RecordsTo(x, Len(ReadSubs(d)), ReadSubs(d), v)
    <3>1. \E x : RecordsTo(x, 1, subs, v)
      BY <2>1, RecordsExist
    <3> QED
      BY <3>1, <1>9, <1>12
  <2>3. PICK x : /\ RecordsTo(x, Len(ReadSubs(d)), ReadSubs(d), v)
                 /\ Answer(20, d, v) = <<Len(x[Len(ReadSubs(d))]) % 256>>
                                         \o x[Len(ReadSubs(d))]
    BY <2>2, RecordsAre
  <2>4. RecordsTo(x, 1, subs, v)
    BY <2>3, <1>9, <1>12
  <2>5. x[1] = OneRecord(c, v)
    <3>1. /\ x[0] = <<>>
          /\ x[1] = x[0] \o <<subs[1].length * 2 + 1, 6>>
                     \o put_regs([i \in 1..subs[1].length |-> v])
      <4>1. x = [k \in 0..1 |->
                    IF k = 0 THEN <<>>
                    ELSE x[k - 1] \o <<subs[k].length * 2 + 1, 6>>
                           \o put_regs([i \in 1..subs[k].length |-> v])]
        BY <2>4 DEF RecordsTo
      <4>2. x[0] = <<>>
        BY <4>1
      <4>3. x[1] = x[0] \o <<subs[1].length * 2 + 1, 6>>
                     \o put_regs([i \in 1..subs[1].length |-> v])
        <5>1. 1 \in 0..1 /\ 1 # 0 /\ 1 - 1 = 0
          OBVIOUS
        <5> QED
          BY <4>1, <5>1
      <4> QED
        BY <4>2, <4>3
    <3>2. x[1] = x[0] \o <<c * 2 + 1, 6>> \o put_regs([i \in 1..c |-> v])
      BY <3>1, <1>12
    <3>3. PICK h, t : h = <<c * 2 + 1, 6>> /\ t = put_regs([i \in 1..c |-> v])
      OBVIOUS
    <3>4. h \in Bytes /\ t \in Bytes
      <4>1. c * 2 + 1 \in Byte /\ 6 \in Byte /\ c \in Nat
        BY <1>2 DEF Byte
      <4> QED
        BY <3>3, <4>1, Pair, PutSame
    <3>5. <<>> \o h = h
      <4>1. h \in Seq(Byte)
        BY <3>4 DEF Bytes
      <4> QED
        BY <4>1, ConcatEmptySeq
    <3> QED
      BY <3>1, <3>2, <3>3, <3>5 DEF OneRecord
  <2>6. PICK t : t = OneRecord(c, v)
    OBVIOUS
  <2>7. t \in Bytes /\ Len(t) = 2 * c + 2 /\ t[1] = 2 * c + 1 /\ t[2] = 6
    BY <2>6, <1>2, OneRecordIs
  <2>8. x[1] = t
    BY <2>5, <2>6
  <2>9. PICK n : n = 2 * c + 2
    OBVIOUS
  <2>10. n \in 2..250 /\ n % 256 = n
    <3>1. n \in 2..250
      BY <2>9, <1>2
    <3> QED
      BY <3>1
  <2>11. PICK a : a = <<n>> \o t
    OBVIOUS
  <2>12. Answer(20, d, v) = a
    <3>1. Len(x[1]) % 256 = n
      BY <2>7, <2>8, <2>9, <2>10
    <3> QED
      BY <3>1, <2>3, <2>8, <2>11, <1>9, <1>12
  <2>13. n \in Byte /\ Len(t) = n
    BY <2>7, <2>9, <2>10, Ranges
  <2>14. HasShape(a, Counted(1)) /\ Len(a) = 1 + n /\ a[1] = n
    BY <2>7, <2>11, <2>13, Counting
  <2>15. a[2] = t[1] /\ a[3] = t[2]
    <3>1. PICK h : h = <<n>>
      OBVIOUS
    <3>2. h \in Bytes /\ Len(h) = 1
      BY <2>13, <3>1, OneByte
    <3>3. IsCat(a, h, t)
      BY <2>7, <2>11, <3>1, <3>2, CatIs
    <3>4. 1 \in 1..Len(t) /\ 2 \in 1..Len(t)
      BY <2>10, <2>13
    <3> QED
      BY <3>2, <3>3, <3>4 DEF IsCat
  <2>16. ResShape(20) = Counted(1)
    BY DEF ResShape
  <2>17. AnswerLength(20, a) \in 0..253
    BY <2>10, <2>14 DEF AnswerLength
  <2>18. recv_read_file_record_res(d, a)
    <3>1. Len(a) >= 3
      BY <2>10, <2>14
    <3>2. a[2] = 2 * c + 1 /\ a[3] = 6
      BY <2>7, <2>15
    <3>3. a[1] = a[2] + 1
      BY <2>9, <2>14, <3>2, <1>2
    <3>4. ((2 * c + 1) - 1) \div 2 = c
      BY <1>2
    <3> QED
      BY <3>1, <3>2, <3>3, <3>4, <1>7 DEF recv_read_file_record_res
  <2>19. Accept(20, d, a) = NMBS_ERROR_NONE
    BY <2>18, Accepts
  <2>20. 20 \notin Reads \cup {23}
    BY DEF Reads
  <2> QED
    BY <2>12, <2>14, <2>16, <2>17, <2>19, <2>20 DEF GoodAnswer
<1> QED
  BY <1>1, <1>8, <1>14, <1>15 DEF GoodRequest

LEMMA WriteFileIsGood ==
  ASSUME NEW f \in Word, NEW r \in Word, NEW rs \in Seq(Word), HasCallback(21),
         write_file_record(f, r, rs) # Refused
  PROVE  GoodRequest(21, write_file_record(f, r, rs))
<1>1. PICK d : d = write_file_record(f, r, rs)
  OBVIOUS
<1>2. PICK n : n = Len(rs)
  OBVIOUS
<1>3. FileInSpace(f, r) /\ Len(rs) <= 122
  BY <1>1 DEF write_file_record
<1>18. n \in Nat /\ n <= 122
  BY <1>2, <1>3
<1>4. PICK t : t = put_regs(rs)
  OBVIOUS
<1>5. t \in Bytes /\ Len(t) = 2 * n
  BY <1>2, <1>4, PutRegs
<1>6. PICK b : b = 7 + 2 * n
  OBVIOUS
<1>7. b \in 7..251 /\ b \in Byte /\ n \in Word
  <2>1. b \in 7..251
    BY <1>18, <1>6
  <2>2. n \in 0..122
    BY <1>18
  <2>3. b \in Byte
    BY <2>1 DEF Byte
  <2>4. n \in Word
    BY <2>2 DEF Word
  <2> QED
    BY <2>1, <2>3, <2>4
<1>8. d = FileRecord(b, f, r, n, t)
  BY <1>1, <1>2, <1>3, <1>4, <1>6 DEF write_file_record, FileRecord
<1>9. /\ d \in Bytes /\ Len(d) = 8 + Len(t) /\ d[1] = b /\ d[2] = 6
      /\ get_2(d, 3) = f /\ get_2(d, 5) = r /\ get_2(d, 7) = n
  <2>1. IsFileRecord(d, b, f, r, n, t)
    BY <1>5, <1>7, <1>8, FileRecords
  <2> QED
    BY <2>1 DEF IsFileRecord
<1>10. Len(d) = 1 + b
  BY <1>18, <1>5, <1>6, <1>9
<1>11. HasShape(d, Counted(1)) /\ Len(d) <= 253
  <2>1. Len(d) >= 1 /\ Len(d) <= 253
    BY <1>7, <1>10
  <2> QED
    BY <2>1, <1>9, <1>10 DEF HasShape, Counted
<1>12. ReqShape(21) = Counted(1) /\ ResShape(21) = Counted(1)
  BY DEF ReqShape, ResShape
<1>13. FileWrite(d)
  BY <1>7, <1>9, <1>10 DEF FileWrite
<1>14. Sub(d, 0 + 2) = [type |-> 6, file |-> f, record |-> r, length |-> n]
  BY <1>9 DEF Sub
<1>15. EndOfSub(d, 0) = b
  BY <1>18, <1>6, <1>14 DEF EndOfSub
<1>16. Judge(21, d) = NMBS_ERROR_NONE
  <2>1. \E l : LoopFrom(l, d, 0)
    BY <1>13, LoopExists
  <2>2. PICK l : /\ LoopFrom(l, d, 0)
                 /\ handle_write_file_record(d) =
                      IF d[1] \notin 7..251 THEN ILLEGAL_DATA_VALUE ELSE l[0]
    BY <2>1, LoopIs
  <2>3. l[0] = CheckSub(l, d, 0)
    BY <2>2, <1>13, LoopIsError
  <2>4. SubOK(Sub(d, 0 + 2), 122)
    <3>1. PICK s : s = Sub(d, 0 + 2)
      OBVIOUS
    <3>2. s.type = 6 /\ s.file = f /\ s.record = r /\ s.length = n
      BY <3>1, <1>14
    <3>3. SubOK(s, 122)
      BY <3>2, <1>3, <1>18 DEF SubOK
    <3> QED
      BY <3>1, <3>3
  <2>5. ~(b > b) /\ ~(b - b >= 7)
    BY <1>7
  <2>6. CheckSub(l, d, 0) = NoCallback(21)
    BY <2>4, <2>5, <1>9, <1>15 DEF CheckSub
  <2>7. NoCallback(21) = NMBS_ERROR_NONE
    BY DEF NoCallback, HasCallback
  <2>8. handle_write_file_record(d) = NMBS_ERROR_NONE
    BY <2>2, <2>3, <2>6, <2>7, <1>7, <1>9
  <2> QED
    BY <2>8 DEF Judge
<1>17. ASSUME NEW v \in Byte
       PROVE  GoodAnswer(21, d, v)
  <2>1. Answer(21, d, v) = d
    BY AnswerOfFileWrite
  <2>2. AnswerLength(21, d) \in 0..253
    BY <1>7, <1>10 DEF AnswerLength
  <2>3. Accept(21, d, d) = NMBS_ERROR_NONE
    <3>1. recv_write_file_record_res(d, d)
      BY DEF recv_write_file_record_res
    <3> QED
      BY <3>1, Accepts
  <2>4. 21 \notin Reads \cup {23}
    BY DEF Reads
  <2> QED
    BY <2>1, <2>2, <2>3, <2>4, <1>11, <1>12 DEF GoodAnswer
<1> QED
  BY <1>1, <1>11, <1>12, <1>16, <1>17 DEF GoodRequest

-----------------------------------------------------------------------------
(* The answers of a server to any request, whoever made it.                *)

\* Whatever a request of the right shape says, a server judges it, and what it
\* answers is bytes of a length that fits.
LEMMA Verdicts ==
  /\ NMBS_ERROR_NONE \in 0..4 /\ ILLEGAL_FUNCTION \in 0..4
  /\ ILLEGAL_DATA_ADDRESS \in 0..4 /\ ILLEGAL_DATA_VALUE \in 0..4
  /\ ILLEGAL_FUNCTION # NMBS_ERROR_NONE
  /\ ILLEGAL_DATA_ADDRESS # NMBS_ERROR_NONE
  /\ ILLEGAL_DATA_VALUE # NMBS_ERROR_NONE
BY DEF NMBS_ERROR_NONE, ILLEGAL_FUNCTION, ILLEGAL_DATA_ADDRESS,
       ILLEGAL_DATA_VALUE

LEMMA FileRequest ==
  ASSUME NEW d, HasShape(d, Counted(1))
  PROVE  d \in Bytes /\ d[1] \in Byte /\ Len(d) = 1 + d[1]
<1>1. d \in Bytes /\ Len(d) >= 1 /\ Len(d) = 1 + d[1]
  BY DEF HasShape, Counted
<1>2. 1 \in 1..Len(d)
  BY <1>1, LenIsNat
<1>3. d[1] \in Byte
  BY <1>1, <1>2, LenIsNat
<1> QED
  BY <1>1, <1>3

LEMMA JudgeIsError ==
  ASSUME NEW fc \in FunctionCodes, NEW d, HasShape(d, ReqShape(fc))
  PROVE  Judge(fc, d) \in 0..4
<1>1. \A x : NoCallback(x) \in 0..4
  BY Verdicts DEF NoCallback
<1>2. CASE fc = 21
  <2>1. ReqShape(21) = Counted(1)
    BY DEF ReqShape
  <2>2. d \in Bytes /\ d[1] \in Byte /\ Len(d) = 1 + d[1]
    BY <2>1, <1>2, FileRequest
  <2>3. CASE d[1] \in 7..251
    <3>1. FileWrite(d)
      <4>1. PICK x : x = d[1]
        OBVIOUS
      <4>2. 1 + x >= 8
        BY <4>1, <2>3
      <4> QED
        BY <4>1, <4>2, <2>2 DEF FileWrite
    <3>2. \E l : LoopFrom(l, d, 0)
      BY <3>1, LoopExists
    <3>3. PICK l : /\ LoopFrom(l, d, 0)
                   /\ handle_write_file_record(d) =
                        IF d[1] \notin 7..251 THEN ILLEGAL_DATA_VALUE ELSE l[0]
      BY <3>2, LoopIs
    <3>4. l[0] \in 0..4
      BY <3>1, <3>3, LoopIsError
    <3> QED
      BY <3>3, <3>4, <2>3, <1>2 DEF Judge
  <2>4. CASE d[1] \notin 7..251
    <3>1. handle_write_file_record(d) = ILLEGAL_DATA_VALUE
      BY <2>4 DEF handle_write_file_record
    <3> QED
      BY <3>1, <1>2, Verdicts DEF Judge
  <2> QED
    BY <2>3, <2>4
<1>3. CASE fc \in {1, 2, 3, 4}
  BY <1>1, <1>3, Verdicts DEF Judge, handle_read_discrete,
                              handle_read_registers, JudgeRange
<1>4. CASE fc \in {5, 6}
  BY <1>1, <1>4, Verdicts DEF Judge, handle_write_single_coil,
                    handle_write_single_register
<1>5. CASE fc \in {15, 16}
  BY <1>1, <1>5, Verdicts DEF Judge, handle_write_multiple_coils,
                    handle_write_multiple_registers, JudgeRange
<1>6. CASE fc = 20
  BY <1>1, <1>6, Verdicts DEF Judge, handle_read_file_record
<1>7. CASE fc = 23
  BY <1>7, Verdicts DEF Judge, handle_read_write_registers
<1> QED
  BY <1>2, <1>3, <1>4, <1>5, <1>6, <1>7 DEF FunctionCodes

Small == {n \in Nat : n <= 1000}
Sendable(a, length) == a \in Bytes /\ length \in Small

LEMMA FileRecordAnswer ==
  ASSUME NEW d, HasShape(d, Counted(1)), NEW v \in Byte,
         handle_read_file_record(d) = NMBS_ERROR_NONE
  PROVE  Sendable(Answer(20, d, v), AnswerLength(20, Answer(20, d, v)))
<1>1. d \in Bytes /\ d[1] \in Byte /\ Len(d) = 1 + d[1]
  BY FileRequest
<1>2. PICK subs : subs = ReadSubs(d)
  OBVIOUS
<1>3. PICK N : N = d[1]
  OBVIOUS
<1>4. N \in 7..245 /\ N % 7 = 0
  BY <1>3, Verdicts DEF handle_read_file_record
<1>5. \A i \in DOMAIN subs : SubOK(subs[i], 124)
  BY <1>2, Verdicts DEF handle_read_file_record
<1>6. PICK m : m = N \div 7
  OBVIOUS
<1>7. m \in Nat /\ N = 7 * m
  BY <1>4, <1>6
<1>8. subs = [i \in 1..m |-> Sub(d, 7 * i - 5)]
  BY <1>2, <1>3, <1>6 DEF ReadSubs
<1>9. Len(subs) = m
  BY <1>7, <1>8
<1>10. ASSUME NEW k \in 1..m
       PROVE  subs[k].length \in 0..124
  <2>1. PICK p : p = 7 * k - 5
    OBVIOUS
  <2>2. p + 5 \in Int /\ p + 5 >= 1 /\ (p + 5) + 1 <= 1 + N
    BY <2>1, <1>7
  <2>3. get_2(d, p + 5) \in Word
    BY <2>2, <1>1, <1>3, GetIsNumber
  <2>4. subs[k] = Sub(d, p)
    BY <2>1, <1>8
  <2>5. subs[k].length = get_2(d, p + 5)
    BY <2>4 DEF Sub
  <2>6. subs[k].length <= 124
    <3>1. k \in DOMAIN subs
      BY <1>8
    <3> QED
      BY <3>1, <1>5 DEF SubOK
  <2>7. PICK y : y = subs[k].length
    OBVIOUS
  <2>8. y \in Word /\ y <= 124
    BY <2>3, <2>5, <2>6, <2>7
  <2>9. y \in 0..124
    BY <2>8 DEF Word
  <2> QED
    BY <2>7, <2>9
<1>11. \A k \in 1..m : subs[k].length \in 0..124
  BY <1>10
<1>12. \E x : RecordsTo(x, m, subs, v) /\ \A k \in 0..m : x[k] \in Bytes
  BY <1>7, <1>11, RecordsExist
<1>13. \E x : RecordsTo(x, Len(ReadSubs(d)), ReadSubs(d), v)
  BY <1>2, <1>9, <1>12
<1>14. PICK x : /\ RecordsTo(x, Len(ReadSubs(d)), ReadSubs(d), v)
                /\ Answer(20, d, v) = <<Len(x[Len(ReadSubs(d))]) % 256>>
                                        \o x[Len(ReadSubs(d))]
  BY <1>13, RecordsAre
<1>15. PICK z : RecordsTo(z, m, subs, v) /\ \A k \in 0..m : z[k] \in Bytes
  BY <1>12
<1>16. x[m] \in Bytes
  <2>1. RecordsTo(x, m, subs, v)
    BY <1>2, <1>9, <1>14
  <2>2. /\ \A k \in 0..m : x[k] \in Bytes
        /\ x[0] = <<>>
        /\ \A k \in 1..m : x[k] = x[k - 1] \o OneRecord(subs[k].length, v)
    BY <1>7, <1>11, <2>1, RecordsAreBytes
  <2>3. m \in 0..m
    BY <1>7
  <2> QED
    BY <2>2, <2>3
<1>17. PICK b : b = Len(x[m]) % 256
  OBVIOUS
<1>18. b \in Byte
  <2>1. Len(x[m]) \in Nat
    BY <1>16, LenIsNat
  <2>3. PICK l : l = Len(x[m])
    OBVIOUS
  <2>4. l \in Nat
    BY <2>1, <2>3
  <2>5. l % 256 \in 0..255
    BY <2>4
  <2>2. b \in 0..255
    BY <2>3, <2>5, <1>17
  <2> QED
    BY <2>2 DEF Byte
<1>19. PICK a : a = <<b>> \o x[m]
  OBVIOUS
<1>20. Answer(20, d, v) = a
  BY <1>2, <1>9, <1>14, <1>17, <1>19
<1>21. a \in Bytes /\ a[1] = b
  <2>1. PICK h : h = <<b>>
    OBVIOUS
  <2>2. h \in Bytes /\ Len(h) = 1 /\ h[1] = b
    BY <2>1, <1>18, OneByte
  <2>3. IsCat(a, h, x[m])
    BY <2>1, <2>2, <1>16, <1>19, CatIs
  <2>4. 1 \in 1..Len(h)
    BY <2>2
  <2> QED
    BY <2>2, <2>3, <2>4 DEF IsCat
<1>22. AnswerLength(20, a) \in Small
  <2>1. b \in Small
    BY <1>18 DEF Byte, Small
  <2> QED
    BY <2>1, <1>21 DEF AnswerLength
<1> QED
  BY <1>20, <1>21, <1>22 DEF Sendable

LEMMA AnswerIsBytes ==
  ASSUME NEW fc \in FunctionCodes, NEW d, HasShape(d, ReqShape(fc)),
         NEW v \in Byte, Judge(fc, d) = NMBS_ERROR_NONE
  PROVE  Sendable(Answer(fc, d, v), AnswerLength(fc, Answer(fc, d, v)))
<1>1. \A a, n : GoodAnswer(fc, d, v) /\ Answer(fc, d, v) \in Bytes =>
        Sendable(Answer(fc, d, v), AnswerLength(fc, Answer(fc, d, v)))
  <2>1. \A n \in 0..253 : n \in Small
    BY DEF Small
  <2> QED
    BY <2>1 DEF GoodAnswer, Sendable
<1>2. CASE fc \in {1, 2}
  <2>1. handle_read_discrete(fc, d) = NMBS_ERROR_NONE
    BY <1>2 DEF Judge
  <2>2. ~(get_2(d, 3) \notin 1..2000)
    BY <2>1, Verdicts DEF handle_read_discrete, JudgeRange
  <2>3. get_2(d, 3) \in BitsRead
    <3>1. PICK q : q = get_2(d, 3)
      OBVIOUS
    <3>2. q \in 1..2000
      BY <2>2, <3>1
    <3> QED
      BY <3>1, <3>2 DEF BitsRead
  <2> QED
    BY <2>3, <1>1, <1>2, BitsAnswer
<1>3. CASE fc \in {3, 4, 23}
  <2>1. get_2(d, 3) \in 1..125
    <3>1. CASE fc \in {3, 4}
      <4>1. handle_read_registers(fc, d) = NMBS_ERROR_NONE
        BY <3>1 DEF Judge
      <4> QED
        BY <4>1, Verdicts DEF handle_read_registers, JudgeRange
    <3>2. CASE fc = 23
      <4>1. handle_read_write_registers(d) = NMBS_ERROR_NONE
        BY <3>2 DEF Judge
      <4> QED
        BY <4>1, Verdicts DEF handle_read_write_registers
    <3> QED
      BY <3>1, <3>2, <1>3
  <2>2. get_2(d, 3) \in RegistersRead
    BY <2>1 DEF RegistersRead
  <2> QED
    BY <2>2, <1>1, <1>3, RegistersAnswer
<1>4. CASE fc \in {5, 6, 15, 16}
  <2>1. d \in Bytes /\ Len(d) >= 4
    <3>1. ReqShape(fc).fixed \in {4, 5}
      BY <1>4 DEF ReqShape, Fixed, Counted
    <3>2. d \in Bytes /\ Len(d) >= ReqShape(fc).fixed
      BY DEF HasShape
    <3>3. Len(d) \in Nat
      BY <3>2, LenIsNat
    <3> QED
      BY <3>1, <3>2, <3>3
  <2> QED
    BY <2>1, <1>1, <1>4, EchoAnswer
<1>5. CASE fc = 20
  <2>1. handle_read_file_record(d) = NMBS_ERROR_NONE
    BY <1>5 DEF Judge
  <2>2. ReqShape(20) = Counted(1)
    BY DEF ReqShape
  <2> QED
    BY <2>1, <2>2, <1>5, FileRecordAnswer
<1>6. CASE fc = 21
  <2>1. ReqShape(21) = Counted(1)
    BY DEF ReqShape
  <2>2. d \in Bytes /\ d[1] \in Byte /\ Len(d) = 1 + d[1]
    BY <2>1, <1>6, FileRequest
  <2>3. Answer(fc, d, v) = d
    BY <1>6, AnswerOfFileWrite
  <2>4. AnswerLength(fc, d) \in Small
    <3>1. PICK x : x = d[1]
      OBVIOUS
    <3>3. x \in Byte
      BY <3>1, <2>2
    <3>2. 1 + x \in Small
      BY <3>3 DEF Byte, Small
    <3> QED
      BY <3>1, <3>2, <2>2, <1>6 DEF AnswerLength
  <2> QED
    BY <2>2, <2>3, <2>4 DEF Sendable
<1> QED
  BY <1>2, <1>3, <1>4, <1>5, <1>6 DEF FunctionCodes

-----------------------------------------------------------------------------
(* What recv() takes of what has arrived.                                  *)
LEMMA PartOfBytes ==
  ASSUME NEW s \in Bytes, NEW i \in Nat, NEW j \in Int, i >= 1, j <= Len(s)
  PROVE  /\ SubSeq(s, i, j) \in Bytes
         /\ Len(SubSeq(s, i, j)) = IF i <= j THEN j - i + 1 ELSE 0
         /\ \A k \in 1..(j - i + 1) : SubSeq(s, i, j)[k] = s[i + k - 1]
<1>1. Len(s) \in Nat /\ \A k \in 1..Len(s) : s[k] \in Byte
  BY LenIsNat
<1>2. \A k \in i..j : s[k] \in Byte
  BY <1>1
<1>3. i \in Int
  OBVIOUS
<1> QED
  BY <1>2, <1>3, SubSeqProperties DEF Bytes

\* The first k of the bytes q are put behind b: g, and l is left.
Taken(g, l, b, q, k) ==
  /\ g \in Bytes /\ l \in Bytes /\ Len(g) = Len(b) + k /\ Len(l) = Len(q) - k
  /\ \A i \in 1..Len(b) : g[i] = b[i]
  /\ g \o l = b \o q

LEMMA TakenIsBytes ==
  ASSUME NEW b \in Bytes, NEW q \in Bytes, NEW k \in Nat, k <= Len(q)
  PROVE  Taken(b \o SubSeq(q, 1, k), SubSeq(q, k + 1, Len(q)), b, q, k)
<1>1. Len(b) \in Nat /\ Len(q) \in Nat
  BY LenIsNat
<1>2. PICK t : t = SubSeq(q, 1, k)
  OBVIOUS
<1>3. PICK l : l = SubSeq(q, k + 1, Len(q))
  OBVIOUS
<1>4. t \in Bytes /\ Len(t) = k
  BY <1>1, <1>2, PartOfBytes
<1>5. l \in Bytes /\ Len(l) = Len(q) - k
  BY <1>1, <1>3, PartOfBytes
<1>6. PICK g : g = b \o t
  OBVIOUS
<1>7. IsCat(g, b, t)
  BY <1>4, <1>6, CatIs
<1>8. t \o l = q
  <2>1. q \in Seq(Byte)
    BY DEF Bytes
  <2>2. CASE Len(q) = 0
    <3>1. k = 0
      BY <2>2
    <3>2. q = <<>>
      BY <2>1, <2>2, EmptySeq
    <3>3. t = <<>> /\ l = <<>>
      BY <1>2, <1>3, <2>2, <3>1, SubSeqEmpty
    <3> QED
      BY <3>2, <3>3, <2>1, ConcatEmptySeq
  <2>3. CASE Len(q) > 0
    <3>1. 1 \in 1..(Len(q) + 1) /\ k \in (1 - 1)..Len(q)
          /\ Len(q) \in k..Len(q)
      BY <1>1, <2>3
    <3>2. SubSeq(q, 1, k) \o SubSeq(q, k + 1, Len(q)) = SubSeq(q, 1, Len(q))
      BY <2>1, <3>1, ConcatAdjacentSubSeq
    <3>3. SubSeq(q, 1, Len(q)) = q
      BY <2>1, SubSeqFull
    <3> QED
      BY <3>2, <3>3, <1>2, <1>3
  <2> QED
    BY <2>2, <2>3, <1>1
<1>9. g \o l = b \o q
  <2>1. b \in Seq(Byte) /\ t \in Seq(Byte) /\ l \in Seq(Byte)
    BY <1>4, <1>5 DEF Bytes
  <2>2. (b \o t) \o l = b \o (t \o l)
    BY <2>1, ConcatAssociative
  <2> QED
    BY <2>2, <1>6, <1>8
<1>10. Taken(g, l, b, q, k)
  <2>1. g \in Bytes /\ Len(g) = Len(b) + Len(t)
        /\ \A i \in 1..Len(b) : g[i] = b[i]
    BY <1>7 DEF IsCat
  <2> QED
    BY <2>1, <1>4, <1>5, <1>9 DEF Taken
<1> QED
  BY <1>2, <1>3, <1>6, <1>10

\* What a node has read, and what is left, after the recv() in progress.
Grow(r, q) == [r EXCEPT !.buf = @ \o SubSeq(q, 1, Want(r))]
Rest(r, q) == SubSeq(q, Want(r) + 1, Len(q))

LEMMA GotIs ==
  ASSUME NEW n
  PROVE  /\ Got(n) = Grow(node[n], rx[n]) /\ Left(n) = Rest(node[n], rx[n])
         /\ Arrived(n) <=> Len(rx[n]) >= Want(node[n])
BY DEF Got, Take, Left, Grow, Rest, Arrived

LEMMA LengthsOf ==
  /\ HeaderLen \in Nat /\ HeaderLen >= 2 /\ HeaderLen <= 8
  /\ FooterLen \in Nat /\ FooterLen <= 2
  /\ Transport = "RTU" => HeaderLen = 2 /\ FooterLen = 2
  /\ Transport # "RTU" => HeaderLen = 8 /\ FooterLen = 0
BY DEF HeaderLen, FooterLen

IsShape(s) ==
  /\ s = [fixed |-> s.fixed, counted |-> s.counted]
  /\ s.fixed \in Nat /\ s.counted \in BOOLEAN
  /\ s.counted => s.fixed >= 1

LEMMA Shapes ==
  /\ \A fc \in FunctionCodes : IsShape(ReqShape(fc))
  /\ \A fc : IsShape(ResShape(fc)) /\ IsShape(IgnoredShape(fc))
  /\ \A n \in Nat : IsShape(Fixed(n))
  /\ IsShape(ExceptionShape)
<1>1. \A n \in Nat : IsShape(Fixed(n))
  BY DEF IsShape, Fixed
<1>2. \A n \in Nat : n >= 1 => IsShape(Counted(n))
  BY DEF IsShape, Counted
<1>3. IsShape(ExceptionShape)
  BY <1>1 DEF ExceptionShape
<1>4. \A fc : IsShape(ResShape(fc))
  BY <1>1, <1>2 DEF ResShape
<1>5. \A fc : IsShape(IgnoredShape(fc))
  BY <1>4 DEF IgnoredShape
<1>6. \A fc \in FunctionCodes : IsShape(ReqShape(fc))
  BY <1>1, <1>2 DEF ReqShape, FunctionCodes
<1> QED
  BY <1>1, <1>3, <1>4, <1>5, <1>6

\* What a message has in its header.
LEMMA HeaderIs ==
  ASSUME NEW m \in Bytes, Len(m) >= HeaderLen
  PROVE  /\ UnitOf(m) \in Byte /\ FcOf(m) \in Byte /\ TidOf(m) \in Word
<1>1. HeaderLen - 1 \in 1..Len(m) /\ HeaderLen \in 1..Len(m)
  BY LengthsOf, LenIsNat
<1>2. UnitOf(m) \in Byte /\ FcOf(m) \in Byte
  BY <1>1, LenIsNat DEF UnitOf, FcOf
<1>3. TidOf(m) \in Word
  <2>1. CASE Transport = "RTU"
    BY <2>1 DEF TidOf, Word
  <2>2. CASE Transport # "RTU"
    <3>1. Len(m) >= 8
      BY <2>2, LengthsOf
    <3>2. Len(m) \in Nat
      BY LenIsNat
    <3>3. get_2(m, 1) \in Word
      BY <3>1, <3>2, GetIsNumber
    <3> QED
      BY <3>3, <2>2 DEF TidOf
  <2> QED
    BY <2>1, <2>2
<1> QED
  BY <1>2, <1>3

LEMMA SameHeader ==
  ASSUME NEW b \in Bytes, NEW m \in Bytes, Len(b) >= HeaderLen,
         \A i \in 1..Len(b) : m[i] = b[i]
  PROVE  /\ UnitOf(m) = UnitOf(b) /\ FcOf(m) = FcOf(b) /\ TidOf(m) = TidOf(b)
         /\ MbapOK(m) <=> MbapOK(b)
<1>1. Len(b) \in Nat
  BY LenIsNat
<1>2. HeaderLen - 1 \in 1..Len(b) /\ HeaderLen \in 1..Len(b)
  BY <1>1, LengthsOf
<1>3. UnitOf(m) = UnitOf(b) /\ FcOf(m) = FcOf(b)
  BY <1>2 DEF UnitOf, FcOf
<1>4. CASE Transport = "RTU"
  BY <1>3, <1>4 DEF TidOf, MbapOK
<1>5. CASE Transport # "RTU"
  <2>1. Len(b) >= 8
    BY <1>5, LengthsOf
  <2>2. /\ 1 \in 1..Len(b) /\ 2 \in 1..Len(b) /\ 3 \in 1..Len(b)
        /\ 4 \in 1..Len(b) /\ 5 \in 1..Len(b) /\ 6 \in 1..Len(b)
    BY <1>1, <2>1
  <2>3. /\ get_2(m, 1) = get_2(b, 1) /\ get_2(m, 3) = get_2(b, 3)
        /\ get_2(m, 5) = get_2(b, 5)
    BY <2>2 DEF get_2
  <2> QED
    BY <1>3, <2>3 DEF TidOf, MbapOK
<1> QED
  BY <1>4, <1>5

-----------------------------------------------------------------------------
(* What a node knows after each recv() of recv_msg_header() and behind it. *)
Stages == {"idle", "sent", "first", "header", "fixed", "data", "footer"}

\* The bytes b are a header and as much behind it as the shape sh says.
Whole(b, sh) ==
  /\ Len(b) >= HeaderLen + sh.fixed
  /\ Len(b) = HeaderLen + sh.fixed
                + (IF sh.counted THEN b[HeaderLen + sh.fixed] ELSE 0)

ReadUpTo(r) ==
  /\ r.stage = "first" => Len(r.buf) = 0
  /\ r.stage = "header" => Len(r.buf) = 1
  /\ r.stage = "fixed" => Len(r.buf) = HeaderLen
  /\ r.stage = "data" =>
       r.shape.counted /\ Len(r.buf) = HeaderLen + r.shape.fixed
  /\ r.stage = "footer" => Whole(r.buf, r.shape)

\* A server reads what the function code of the request makes it expect.
KnowsRequest(r) ==
  r.kind = "req" /\ r.stage \in {"fixed", "data", "footer"} =>
    FcOf(r.buf) \in FunctionCodes /\ r.shape = ReqShape(FcOf(r.buf))

IsRecord(r) ==
  r = [stage |-> r.stage, kind |-> r.kind, buf |-> r.buf, req |-> r.req,
       shape |-> r.shape, ignored |-> r.ignored]

SoFar(r) ==
  /\ IsRecord(r) /\ r.stage \in Stages /\ r.buf \in Bytes /\ IsShape(r.shape)
  /\ ReadUpTo(r) /\ KnowsRequest(r)

LEMMA WaitingIs ==
  ASSUME NEW kind, NEW req
  PROVE  /\ SoFar(Waiting(kind, req)) /\ SoFar(Idle(req))
         /\ SoFar([Idle(req) EXCEPT !.stage = "sent"])
         /\ Waiting(kind, req).buf = <<>>
<1>1. Len(<<>>) = 0 /\ <<>> \in Bytes
  BY EmptyIsBytes
<1>2. IsShape(Fixed(0))
  BY Shapes
<1>3. PICK sh : sh = Fixed(0)
  OBVIOUS
<1>4. Waiting(kind, req) =
        [stage |-> "first", kind |-> kind, buf |-> <<>>, req |-> req,
         shape |-> sh, ignored |-> FALSE]
  BY <1>3 DEF Waiting
<1>5. Idle(req) =
        [stage |-> "idle", kind |-> "res", buf |-> <<>>, req |-> req,
         shape |-> sh, ignored |-> FALSE]
  <2>1. PICK p : p = Waiting("res", req)
    OBVIOUS
  <2>2. p = [stage |-> "first", kind |-> "res", buf |-> <<>>, req |-> req,
             shape |-> sh, ignored |-> FALSE]
    BY <2>1, <1>3 DEF Waiting
  <2>3. Idle(req) = [p EXCEPT !.stage = "idle"]
    BY <2>1 DEF Idle
  <2> QED
    BY <2>2, <2>3
<1>6. [Idle(req) EXCEPT !.stage = "sent"] =
        [stage |-> "sent", kind |-> "res", buf |-> <<>>, req |-> req,
         shape |-> sh, ignored |-> FALSE]
  <2>1. PICK p : p = Idle(req)
    OBVIOUS
  <2>2. PICK k : k = [p EXCEPT !.stage = "sent"]
    OBVIOUS
  <2>3. p = [stage |-> "idle", kind |-> "res", buf |-> <<>>, req |-> req,
             shape |-> sh, ignored |-> FALSE]
    BY <1>5, <2>1
  <2>4. k = [stage |-> "sent", kind |-> "res", buf |-> <<>>, req |-> req,
             shape |-> sh, ignored |-> FALSE]
    BY <2>2, <2>3
  <2> QED
    BY <2>1, <2>2, <2>4
<1>7. IsShape(sh)
  BY <1>2, <1>3
<1>8. SoFar(Waiting(kind, req))
  BY <1>1, <1>4, <1>7
  DEF SoFar, IsRecord, Stages, ReadUpTo, KnowsRequest
<1>9. SoFar(Idle(req))
  BY <1>1, <1>5, <1>7
  DEF SoFar, IsRecord, Stages, ReadUpTo, KnowsRequest
<1>10. SoFar([Idle(req) EXCEPT !.stage = "sent"])
  BY <1>1, <1>6, <1>7
  DEF SoFar, IsRecord, Stages, ReadUpTo, KnowsRequest
<1> QED
  BY <1>4, <1>8, <1>9, <1>10

LEMMA WantIs ==
  ASSUME NEW r, SoFar(r), r.stage \notin {"idle", "sent"}
  PROVE  Want(r) \in Nat
<1>1. r.stage = "first" => Want(r) = 1
  BY DEF Want
<1>2. r.stage = "header" => Want(r) = HeaderLen - 1
  BY DEF Want
<1>3. r.stage = "fixed" => Want(r) = r.shape.fixed
  BY DEF Want
<1>4. r.stage = "data" => Want(r) = r.buf[Len(r.buf)]
  BY DEF Want
<1>5. r.stage = "footer" => Want(r) = FooterLen
  BY DEF Want
<1>6. ASSUME r.stage = "data"
      PROVE  r.buf[Len(r.buf)] \in Nat
  <2>1. r.buf \in Bytes /\ Len(r.buf) = HeaderLen + r.shape.fixed
        /\ r.shape.fixed \in Nat
    BY <1>6 DEF SoFar, ReadUpTo, IsShape
  <2>2. Len(r.buf) \in 1..Len(r.buf)
    BY <2>1, LengthsOf
  <2>3. r.buf[Len(r.buf)] \in Byte
    BY <2>1, <2>2, LenIsNat
  <2> QED
    BY <2>3 DEF Byte
<1>7. r.shape.fixed \in Nat
  BY DEF SoFar, IsShape
<1>8. r.stage \in {"first", "header", "fixed", "data", "footer"}
  BY DEF SoFar, Stages
<1> QED
  BY <1>1, <1>2, <1>3, <1>4, <1>5, <1>6, <1>7, <1>8, LengthsOf

\* One recv(): the record of the reading grows, and stays what it was else.
Grown(g, l, r, q) ==
  /\ g = [stage |-> r.stage, kind |-> r.kind, buf |-> g.buf, req |-> r.req,
          shape |-> r.shape, ignored |-> r.ignored]
  /\ Taken(g.buf, l, r.buf, q, Want(r))

LEMMA GrowIs ==
  ASSUME NEW r, SoFar(r), r.stage \notin {"idle", "sent"},
         NEW q \in Bytes, Len(q) >= Want(r)
  PROVE  Grown(Grow(r, q), Rest(r, q), r, q)
<1>1. Want(r) \in Nat /\ r.buf \in Bytes /\ IsRecord(r)
  BY WantIs DEF SoFar
<1>2. PICK b : b = r.buf \o SubSeq(q, 1, Want(r))
  OBVIOUS
<1>3. Taken(b, Rest(r, q), r.buf, q, Want(r))
  BY <1>1, <1>2, TakenIsBytes DEF Rest
<1>4. Grow(r, q) = [r EXCEPT !.buf = b]
  BY <1>1, <1>2 DEF Grow, IsRecord
<1>5. Grow(r, q) = [stage |-> r.stage, kind |-> r.kind, buf |-> b,
                    req |-> r.req, shape |-> r.shape, ignored |-> r.ignored]
  BY <1>1, <1>4 DEF IsRecord
<1> QED
  BY <1>3, <1>5 DEF Grown

\* The stage after each recv() of a message.
GoesOn(g, shape, ignored) ==
  /\ g.stage = "first" => SoFar([g EXCEPT !.stage = "header"])
  /\ g.stage = "header" =>
       SoFar([[g EXCEPT !.stage = "fixed", !.shape = shape]
                EXCEPT !.ignored = ignored])
  /\ g.stage = "fixed" =>
       SoFar([g EXCEPT !.stage = IF g.shape.counted THEN "data" ELSE "footer"])
  /\ g.stage = "data" => SoFar([g EXCEPT !.stage = "footer"])

Allowed(g, shape) ==
  /\ IsShape(shape)
  /\ g.stage = "header" /\ g.kind = "req" =>
       FcOf(g.buf) \in FunctionCodes /\ shape = ReqShape(FcOf(g.buf))

LEMMA GoOn ==
  ASSUME NEW r, SoFar(r), r.stage \notin {"idle", "sent"},
         NEW q, NEW g, NEW l, Grown(g, l, r, q)
  PROVE  \A shape, ignored : Allowed(g, shape) => GoesOn(g, shape, ignored)
<1>1. PICK b, w : b = g.buf /\ w = Want(r)
  OBVIOUS
<1>2. /\ g = [stage |-> r.stage, kind |-> r.kind, buf |-> b, req |-> r.req,
              shape |-> r.shape, ignored |-> r.ignored]
      /\ b \in Bytes /\ Len(b) = Len(r.buf) + w
      /\ \A i \in 1..Len(r.buf) : b[i] = r.buf[i]
  BY <1>1 DEF Grown, Taken
<1>3. /\ r.stage \in Stages /\ r.buf \in Bytes /\ IsShape(r.shape)
      /\ ReadUpTo(r) /\ KnowsRequest(r) /\ Len(r.buf) \in Nat
  BY LenIsNat DEF SoFar
<1>4. SUFFICES ASSUME NEW shape, NEW ignored, Allowed(g, shape)
               PROVE  GoesOn(g, shape, ignored)
  OBVIOUS
<1>5. ASSUME g.stage = "first"
      PROVE  SoFar([g EXCEPT !.stage = "header"])
  <2>1. w = 1 /\ Len(r.buf) = 0
    BY <1>1, <1>2, <1>3, <1>5 DEF Want, ReadUpTo
  <2> QED
    BY <2>1, <1>2, <1>3
    DEF SoFar, IsRecord, Stages, ReadUpTo, KnowsRequest
<1>6. ASSUME g.stage = "header"
      PROVE  SoFar([[g EXCEPT !.stage = "fixed", !.shape = shape]
                      EXCEPT !.ignored = ignored])
  <2>1. w = HeaderLen - 1 /\ Len(r.buf) = 1
    BY <1>1, <1>2, <1>3, <1>6 DEF Want, ReadUpTo
  <2>2. Len(b) = HeaderLen
    BY <2>1, <1>2, LengthsOf
  <2>3. IsShape(shape)
    BY <1>4 DEF Allowed
  <2>4. r.kind = "req" =>
          FcOf(b) \in FunctionCodes /\ shape = ReqShape(FcOf(b))
    BY <1>4, <1>2, <1>6 DEF Allowed
  <2>5. [[g EXCEPT !.stage = "fixed", !.shape = shape]
           EXCEPT !.ignored = ignored]
        = [stage |-> "fixed", kind |-> r.kind, buf |-> b, req |-> r.req,
           shape |-> shape, ignored |-> ignored]
    <3>1. PICK h : h = [g EXCEPT !.stage = "fixed"]
      OBVIOUS
    <3>2. PICK k : k = [g EXCEPT !.stage = "fixed", !.shape = shape]
      OBVIOUS
    <3>3. k = [h EXCEPT !.shape = shape]
      BY <3>1, <3>2
    <3>4. h = [stage |-> "fixed", kind |-> r.kind, buf |-> b, req |-> r.req,
               shape |-> r.shape, ignored |-> r.ignored]
      BY <1>2, <3>1
    <3>5. k = [stage |-> "fixed", kind |-> r.kind, buf |-> b, req |-> r.req,
               shape |-> shape, ignored |-> r.ignored]
      BY <3>3, <3>4
    <3>6. [k EXCEPT !.ignored = ignored]
          = [stage |-> "fixed", kind |-> r.kind, buf |-> b, req |-> r.req,
             shape |-> shape, ignored |-> ignored]
      BY <3>5
    <3> QED
      BY <3>2, <3>6
  <2> QED
    BY <2>2, <2>3, <2>4, <2>5, <1>2
    DEF SoFar, IsRecord, Stages, ReadUpTo, KnowsRequest
<1>7. /\ r.shape.fixed \in Nat /\ r.shape.counted \in BOOLEAN
      /\ r.shape.counted => r.shape.fixed >= 1
  BY <1>3 DEF IsShape
<1>8. ASSUME r.stage \in {"fixed", "data"}
      PROVE  r.kind = "req" =>
               FcOf(b) \in FunctionCodes /\ r.shape = ReqShape(FcOf(b))
  <2>1. Len(r.buf) >= HeaderLen
    BY <1>3, <1>7, <1>8, LengthsOf DEF ReadUpTo
  <2>2. FcOf(b) = FcOf(r.buf)
    BY <2>1, <1>2, <1>3, SameHeader
  <2> QED
    BY <2>2, <1>3, <1>8 DEF KnowsRequest
<1>9. ASSUME g.stage = "fixed"
      PROVE  SoFar([g EXCEPT !.stage =
                      IF g.shape.counted THEN "data" ELSE "footer"])
  <2>1. w = r.shape.fixed /\ Len(r.buf) = HeaderLen /\ r.stage = "fixed"
    BY <1>1, <1>2, <1>3, <1>9 DEF Want, ReadUpTo
  <2>2. Len(b) = HeaderLen + r.shape.fixed
    BY <2>1, <1>2
  <2>3. PICK stage : stage = IF r.shape.counted THEN "data" ELSE "footer"
    OBVIOUS
  <2>4. stage = "footer" => Whole(b, r.shape)
    BY <2>2, <2>3, <1>7, LengthsOf DEF Whole
  <2>5. stage = "data" => r.shape.counted
    BY <2>3
  <2>6. stage \in {"data", "footer"}
    BY <2>3
  <2>7. r.kind = "req" =>
          FcOf(b) \in FunctionCodes /\ r.shape = ReqShape(FcOf(b))
    BY <1>8, <2>1
  <2>8. [g EXCEPT !.stage = IF g.shape.counted THEN "data" ELSE "footer"]
        = [stage |-> stage, kind |-> r.kind, buf |-> b, req |-> r.req,
           shape |-> r.shape, ignored |-> r.ignored]
    BY <1>2, <2>3
  <2> QED
    BY <2>2, <2>4, <2>5, <2>6, <2>7, <2>8, <1>2, <1>3
    DEF SoFar, IsRecord, Stages, ReadUpTo, KnowsRequest
<1>10. ASSUME g.stage = "data"
       PROVE  SoFar([g EXCEPT !.stage = "footer"])
  <2>1. /\ w = r.buf[Len(r.buf)] /\ Len(r.buf) = HeaderLen + r.shape.fixed
        /\ r.stage = "data" /\ r.shape.counted
    BY <1>1, <1>2, <1>3, <1>10 DEF Want, ReadUpTo
  <2>2. Len(r.buf) \in 1..Len(r.buf)
    BY <2>1, <1>3, <1>7, LengthsOf
  <2>3. b[HeaderLen + r.shape.fixed] = w /\ w \in Byte
    BY <2>1, <2>2, <1>2, <1>3, LenIsNat
  <2>4. Len(b) = HeaderLen + r.shape.fixed + w /\ w \in Nat
    BY <2>1, <2>3, <1>2 DEF Byte
  <2>5. Whole(b, r.shape)
    BY <2>1, <2>3, <2>4, <1>7, LengthsOf DEF Whole
  <2>6. r.kind = "req" =>
          FcOf(b) \in FunctionCodes /\ r.shape = ReqShape(FcOf(b))
    BY <1>8, <2>1
  <2>7. [g EXCEPT !.stage = "footer"]
        = [stage |-> "footer", kind |-> r.kind, buf |-> b, req |-> r.req,
           shape |-> r.shape, ignored |-> r.ignored]
    BY <1>2
  <2> QED
    BY <2>5, <2>6, <2>7, <1>2, <1>3
    DEF SoFar, IsRecord, Stages, ReadUpTo, KnowsRequest
<1> QED
  BY <1>5, <1>6, <1>9, <1>10 DEF GoesOn

-----------------------------------------------------------------------------
(* How the library is used, and the types of the line.                     *)

\* What a client's function makes of its arguments: the data of a request.
ByClient(fc, d) ==
  \/ fc \in {1, 2} /\ \E a, q \in Word : d = read_discrete(a, q)
  \/ fc \in {3, 4} /\ \E a, q \in Word : d = read_registers(a, q)
  \/ fc = 5 /\ \E a \in Word, v \in BOOLEAN : d = write_single_coil(a, v)
  \/ fc = 6 /\ \E a, x \in Word : d = write_single_register(a, x)
  \/ fc = 15 /\ \E a, q \in Word, coils \in Bytes :
       EnoughBits(coils, q) /\ d = write_multiple_coils(a, q, coils)
  \/ fc = 16 /\ \E a \in Word, rs \in Seq(Word) :
       d = write_multiple_registers(a, rs)
  \/ fc = 20 /\ \E f, r, c \in Word : d = read_file_record(f, r, c)
  \/ fc = 21 /\ \E f, r \in Word, rs \in Seq(Word) :
       d = write_file_record(f, r, rs)
  \/ fc = 23 /\ \E a, q, b \in Word, rs \in Seq(Word) :
       d = read_write_registers(a, q, b, rs)

\* A request that a client's function sends is a good one.
LEMMA SentIsGood ==
  ASSUME NEW fc, NEW d, ByClient(fc, d), d # Refused, HasCallback(fc)
  PROVE  GoodRequest(fc, d)
<1>1. CASE fc \in {1, 2}
  <2>1. PICK a, q \in Word : d = read_discrete(a, q)
    BY <1>1 DEF ByClient
  <2> QED
    BY <2>1, <1>1, ReadBitsIsGood
<1>2. CASE fc \in {3, 4}
  <2>1. PICK a, q \in Word : d = read_registers(a, q)
    BY <1>2 DEF ByClient
  <2> QED
    BY <2>1, <1>2, ReadRegistersIsGood
<1>3. CASE fc = 5
  <2>1. PICK a \in Word, v \in BOOLEAN : d = write_single_coil(a, v)
    BY <1>3 DEF ByClient
  <2> QED
    BY <2>1, <1>3, WriteCoilIsGood
<1>4. CASE fc = 6
  <2>1. PICK a, x \in Word : d = write_single_register(a, x)
    BY <1>4 DEF ByClient
  <2> QED
    BY <2>1, <1>4, WriteRegisterIsGood
<1>5. CASE fc = 15
  <2>1. PICK a, q \in Word, coils \in Bytes :
          EnoughBits(coils, q) /\ d = write_multiple_coils(a, q, coils)
    BY <1>5 DEF ByClient
  <2> QED
    BY <2>1, <1>5, WriteCoilsIsGood
<1>6. CASE fc = 16
  <2>1. PICK a \in Word, rs \in Seq(Word) : d = write_multiple_registers(a, rs)
    BY <1>6 DEF ByClient
  <2> QED
    BY <2>1, <1>6, WriteRegistersIsGood
<1>7. CASE fc = 20
  <2>1. PICK f, r, c \in Word : d = read_file_record(f, r, c)
    BY <1>7 DEF ByClient
  <2> QED
    BY <2>1, <1>7, ReadFileIsGood
<1>8. CASE fc = 21
  <2>1. PICK f, r \in Word, rs \in Seq(Word) : d = write_file_record(f, r, rs)
    BY <1>8 DEF ByClient
  <2> QED
    BY <2>1, <1>8, WriteFileIsGood
<1>9. CASE fc = 23
  <2>1. PICK a, q, b \in Word, rs \in Seq(Word) :
          d = read_write_registers(a, q, b, rs)
    BY <1>9 DEF ByClient
  <2> QED
    BY <2>1, <1>9, ReadWriteIsGood
<1> QED
  BY <1>1, <1>2, <1>3, <1>4, <1>5, <1>6, <1>7, <1>8, <1>9 DEF ByClient

\* A call as the library's functions make it, for a function that the servers
\* have a callback for; nmbs_send_raw_pdu() says how long the answer will be.
\* Nobody answers a broadcast, so function 23 is none, and callbacks do not
\* fail in one: handle_write_*() answer it with the failure.  On RTU function
\* 23 needs the line for itself: a server that listens takes the answer for
\* one to function 16.
RightCall(op) ==
  /\ op.unit \in Byte /\ op.fc \in FunctionCodes /\ op.raw \in Nat
  /\ op.data = Refused \/ (ByClient(op.fc, op.data) /\ HasCallback(op.fc))
  /\ op.raw > 0 /\ op.data # Refused =>
       \A v \in Byte : Len(Answer(op.fc, op.data, v)) = op.raw
  /\ Broadcast(op) => op.fc # 23 /\ CallbackResults \subseteq {NMBS_ERROR_NONE}
  /\ Transport = "RTU" /\ op.fc = 23 => Servers \subseteq {op.unit}

\* A callback returns an error of the library or none, never an exception; on
\* TCP there is one server, at the other end of the connection.
RightUse ==
  /\ \A op \in Ops : RightCall(op)
  /\ \A e \in CallbackResults : ~is_exception(e)
  /\ Transport = "TCP" => \A s, t \in Servers : s = t
  /\ InitTid \in Word /\ MaxCalls \in Byte /\ Places \subseteq Nat

-----------------------------------------------------------------------------
SentBytes == [from : Nat, bytes : Bytes]

NodeOK(n, r) ==
  /\ SoFar(r)
  /\ n = Client => r.kind = "res" /\ r.req.raw \in Nat
  /\ n # Client => r.stage \notin {"idle", "sent"}

NodesOK ==
  /\ node = [n \in Nodes |-> node[n]]
  /\ \A n \in Nodes : NodeOK(n, node[n])
RxOK == rx \in [Nodes -> Bytes]
AirOK == air \in Seq(SentBytes)
CountsOK == current_tid \in Word /\ calls \in Nat /\ calls <= MaxCalls

TypeInv ==
  /\ setup \in DOMAIN Setups /\ RightUse
  /\ NodesOK /\ RxOK /\ AirOK /\ CountsOK /\ BroadcastsUnanswered

LEMMA Transports ==
  ASSUME setup \in DOMAIN Setups
  PROVE  /\ Transport \in {"RTU", "TCP"}
         /\ Servers \subseteq {n \in Nat : 1 <= n /\ n <= 247}
         /\ Client \in Nodes /\ Nodes \subseteq Nat /\ Client \notin Servers
<1>1. Transport \in {"RTU", "TCP"} /\ Servers \subseteq 1..247
  BY BusAssumption DEF Transport, Servers
<1> QED
  BY <1>1 DEF Nodes, Client

LEMMA MessageIsBytes ==
  ASSUME CrcIsWord, Transport \in {"RTU", "TCP"},
         NEW tid \in Word, NEW unit \in Byte, NEW fc \in Byte,
         NEW data \in Bytes, NEW length \in Small
  PROVE  Message(tid, unit, fc, length, data) \in Bytes
<1>1. CASE Transport = "RTU"
  BY <1>1, RtuLayout DEF IsMessage
<1>2. CASE Transport = "TCP"
  <2>1. length \in Nat /\ length <= 1000
    BY DEF Small
  <2> QED
    BY <1>2, <2>1, TcpLayout DEF IsMessage
<1> QED
  BY <1>1, <1>2

\* The set-up does not change, nor what is said in its terms.
LEMMA SameSetup ==
  ASSUME setup' = setup
  PROVE  /\ Transport' = Transport /\ Servers' = Servers /\ Nodes' = Nodes
         /\ Ops' = Ops /\ CallbackResults' = CallbackResults
         /\ InitTid' = InitTid /\ MaxCalls' = MaxCalls
         /\ Callbacks' = Callbacks
         /\ HeaderLen' = HeaderLen /\ FooterLen' = FooterLen
<1>1. Transport' = Transport /\ Servers' = Servers
  BY DEF Transport, Servers
<1>2. Nodes' = Nodes
  BY <1>1 DEF Nodes
<1>3. HeaderLen' = HeaderLen /\ FooterLen' = FooterLen
  BY <1>1 DEF HeaderLen, FooterLen
<1> QED
  BY <1>1, <1>2, <1>3
  DEF Ops, CallbackResults, InitTid, MaxCalls, Callbacks

LEMMA SameSoFar ==
  ASSUME setup' = setup
  PROVE  /\ \A n, r : NodeOK(n, r)' <=> NodeOK(n, r)
         /\ \A m : FcOf(m)' = FcOf(m) /\ UnitOf(m)' = UnitOf(m)
                   /\ TidOf(m)' = TidOf(m) /\ DataOf(m)' = DataOf(m)
         /\ \A m : (MbapOK(m)' <=> MbapOK(m)) /\ (CrcOK(m)' <=> CrcOK(m))
<1>1. HeaderLen' = HeaderLen /\ FooterLen' = FooterLen /\ Transport' = Transport
  BY SameSetup
<1>2. \A m : FcOf(m)' = FcOf(m) /\ UnitOf(m)' = UnitOf(m)
             /\ TidOf(m)' = TidOf(m) /\ DataOf(m)' = DataOf(m)
  BY <1>1 DEF FcOf, UnitOf, TidOf, DataOf
<1>3. \A m : (MbapOK(m)' <=> MbapOK(m)) /\ (CrcOK(m)' <=> CrcOK(m))
  BY <1>1 DEF MbapOK, CrcOK
<1>4. \A b, sh : Whole(b, sh)' <=> Whole(b, sh)
  BY <1>1 DEF Whole
<1>5. \A r : ReadUpTo(r)' <=> ReadUpTo(r)
  BY <1>1, <1>4 DEF ReadUpTo
<1>6. \A r : KnowsRequest(r)' <=> KnowsRequest(r)
  BY <1>2 DEF KnowsRequest
<1>7. \A r : SoFar(r)' <=> SoFar(r)
  BY <1>5, <1>6 DEF SoFar
<1>8. \A n, r : NodeOK(n, r)' <=> NodeOK(n, r)
  BY <1>7 DEF NodeOK
<1> QED
  BY <1>2, <1>3, <1>8

LEMMA SameUse ==
  ASSUME setup' = setup, RightUse
  PROVE  RightUse'
<1>1. /\ Ops' = Ops /\ CallbackResults' = CallbackResults /\ Servers' = Servers
      /\ Transport' = Transport /\ InitTid' = InitTid /\ MaxCalls' = MaxCalls
      /\ Callbacks' = Callbacks
  BY SameSetup
<1>2. \A fc : HasCallback(fc)' <=> HasCallback(fc)
  BY <1>1 DEF HasCallback
<1>3. \A op : Broadcast(op)' <=> Broadcast(op)
  BY <1>1 DEF Broadcast
<1>4. \A op : RightCall(op)' <=> RightCall(op)
  BY <1>1, <1>2, <1>3 DEF RightCall
<1> QED
  BY <1>1, <1>4 DEF RightUse

-----------------------------------------------------------------------------
(* One node, its bytes or the line change, and the rest keeps its type.    *)
LEMMA SetNode ==
  ASSUME NodesOK, setup' = setup, NEW n \in Nodes, NEW r, NodeOK(n, r),
         node' = [node EXCEPT ![n] = r]
  PROVE  /\ NodesOK' /\ node'[n] = r
         /\ \A k \in Nodes : k # n => node'[k] = node[k]
<1>1. Nodes' = Nodes
  BY SameSetup
<1>2. node = [k \in Nodes |-> node[k]]
  BY DEF NodesOK
<1>3. /\ node' = [k \in Nodes |-> node'[k]] /\ node'[n] = r
      /\ \A k \in Nodes : k # n => node'[k] = node[k]
  BY <1>2
<1>4. \A k \in Nodes : NodeOK(k, node[k])
  BY DEF NodesOK
<1>5. ASSUME NEW k \in Nodes
      PROVE  NodeOK(k, node'[k])
  BY <1>3, <1>4
<1>6. ASSUME NEW k \in Nodes
      PROVE  NodeOK(k, node[k])'
  BY <1>5, SameSoFar
<1> QED
  BY <1>1, <1>3, <1>6 DEF NodesOK

LEMMA KeepNodes ==
  ASSUME NodesOK, setup' = setup, node' = node
  PROVE  NodesOK'
<1>1. Nodes' = Nodes
  BY SameSetup
<1>2. \A k \in Nodes : NodeOK(k, node'[k])
  BY DEF NodesOK
<1>3. ASSUME NEW k \in Nodes
      PROVE  NodeOK(k, node[k])'
  BY <1>2, SameSoFar
<1> QED
  BY <1>1, <1>3 DEF NodesOK

LEMMA SetRx ==
  ASSUME RxOK, setup' = setup, NEW n \in Nodes, NEW q \in Bytes,
         rx' = [rx EXCEPT ![n] = q]
  PROVE  RxOK' /\ rx'[n] = q /\ \A k \in Nodes : k # n => rx'[k] = rx[k]
<1>1. Nodes' = Nodes
  BY SameSetup
<1>2. rx' \in [Nodes -> Bytes] /\ rx'[n] = q
      /\ \A k \in Nodes : k # n => rx'[k] = rx[k]
  BY DEF RxOK
<1> QED
  BY <1>1, <1>2 DEF RxOK

LEMMA KeepRx ==
  ASSUME RxOK, setup' = setup, rx' = rx
  PROVE  RxOK'
BY SameSetup DEF RxOK

LEMMA PutOnAir ==
  ASSUME AirOK, NEW n \in Nat, NEW b \in Bytes,
         air' = Append(air, [from |-> n, bytes |-> b])
  PROVE  AirOK'
BY DEF AirOK, SentBytes

LEMMA KeepAir ==
  ASSUME AirOK, air' = air
  PROVE  AirOK'
BY DEF AirOK

LEMMA KeepCounts ==
  ASSUME CountsOK, setup' = setup, current_tid' = current_tid, calls' = calls
  PROVE  CountsOK'
BY SameSetup DEF CountsOK

LEMMA KeepSent ==
  ASSUME BroadcastsUnanswered, setup' = setup, sent' = sent
  PROVE  BroadcastsUnanswered'
BY SameSetup DEF BroadcastsUnanswered

LEMMA Put ==
  ASSUME setup' = setup, setup \in DOMAIN Setups, RightUse,
         NodesOK', RxOK', AirOK', CountsOK', BroadcastsUnanswered'
  PROVE  TypeInv'
BY SameUse DEF TypeInv

-----------------------------------------------------------------------------
LEMMA NextTidIs ==
  ASSUME CountsOK
  PROVE  NextTid \in Word
<1>1. PICK t : t = current_tid
  OBVIOUS
<1>2. t \in Int /\ 0 <= t /\ t <= 65535
  BY <1>1, Ranges DEF CountsOK
<1>3. PICK u : u = IF t = 65535 THEN 1 ELSE t + 1
  OBVIOUS
<1>4. u \in Int /\ 0 <= u /\ u <= 65535
  BY <1>2, <1>3
<1> QED
  BY <1>1, <1>3, <1>4, Ranges DEF NextTid

LEMMA CallIsGood ==
  ASSUME NEW op, RightCall(op), op.data # Refused
  PROVE  /\ GoodRequest(op.fc, op.data) /\ op.data \in Bytes
         /\ Len(op.data) \in Nat /\ Len(op.data) <= 253
         /\ Len(op.data) \in Small
         /\ op.unit \in Byte /\ op.fc \in Byte /\ op.fc \in FunctionCodes
<1>1. ByClient(op.fc, op.data) /\ HasCallback(op.fc) /\ op.unit \in Byte
      /\ op.fc \in FunctionCodes
  BY DEF RightCall
<1>2. GoodRequest(op.fc, op.data)
  BY <1>1, SentIsGood
<1>3. op.data \in Bytes /\ Len(op.data) <= 253
  BY <1>2 DEF GoodRequest, HasShape
<1>4. Len(op.data) \in Nat
  BY <1>3, LenIsNat
<1>6. Len(op.data) \in Small
  BY <1>3, <1>4 DEF Small
<1>5. op.fc \in Byte
  BY <1>1 DEF FunctionCodes, Byte
<1> QED
  BY <1>1, <1>2, <1>3, <1>4, <1>5, <1>6

LEMMA CallMessage ==
  ASSUME CrcIsWord, TypeInv, NEW op \in Ops, op.data # Refused
  PROVE  Message(NextTid, op.unit, op.fc, Len(op.data), op.data) \in Bytes
<1>1. RightCall(op) /\ CountsOK /\ Transport \in {"RTU", "TCP"}
  BY Transports DEF TypeInv, RightUse
<1> QED
  BY <1>1, CallIsGood, NextTidIs, MessageIsBytes

LEMMA CallCounts ==
  ASSUME TypeInv, setup' = setup, Free, calls' = calls + 1,
         current_tid' = current_tid \/ current_tid' = NextTid
  PROVE  CountsOK'
<1>1. MaxCalls' = MaxCalls
  BY SameSetup
<1>2. calls \in Nat /\ calls < MaxCalls /\ current_tid \in Word
      /\ MaxCalls \in Nat
  BY DEF Free, TypeInv, CountsOK, RightUse, Byte
<1>3. calls' \in Nat /\ calls' <= MaxCalls
  BY <1>2
<1>4. NextTid \in Word
  BY NextTidIs DEF TypeInv
<1> QED
  BY <1>1, <1>2, <1>3, <1>4 DEF CountsOK

LEMMA RequestIs ==
  ASSUME NEW op
  PROVE  /\ Request(op).raw = op.raw /\ Request(op).unit = op.unit
         /\ Request(op).fc = op.fc /\ Request(op).data = op.data
         /\ Request(op).tid = NextTid
BY DEF Request

LEMMA ClientRecords ==
  ASSUME NEW req, req.raw \in Nat
  PROVE  /\ NodeOK(Client, Waiting("res", req)) /\ NodeOK(Client, Idle(req))
         /\ NodeOK(Client, [Idle(req) EXCEPT !.stage = "sent"])
<1>1. PICK p : p = Waiting("res", req)
  OBVIOUS
<1>2. p.kind = "res" /\ p.req = req /\ IsRecord(p)
  BY <1>1, WaitingIs DEF Waiting, IsRecord
<1>3. PICK i : i = Idle(req)
  OBVIOUS
<1>4. i = [p EXCEPT !.stage = "idle"]
  BY <1>1, <1>3 DEF Idle
<1>5. i.kind = "res" /\ i.req = req /\ IsRecord(i)
  BY <1>2, <1>4 DEF IsRecord
<1>6. PICK s : s = [i EXCEPT !.stage = "sent"]
  OBVIOUS
<1>7. s.kind = "res" /\ s.req = req
  BY <1>5, <1>6 DEF IsRecord
<1>8. SoFar(p) /\ SoFar(i) /\ SoFar(s)
  BY <1>1, <1>3, <1>6, WaitingIs
<1> QED
  BY <1>1, <1>2, <1>3, <1>5, <1>6, <1>7, <1>8 DEF NodeOK

-----------------------------------------------------------------------------
(* The client's steps keep the types.                                      *)

\* The record after a recv() that does not end the reading.
LEMMA FurtherIs ==
  ASSUME NEW r, SoFar(r), r.stage \notin {"idle", "sent", "footer"},
         NEW q, NEW g, NEW l, Grown(g, l, r, q), NEW shape, Allowed(g, shape)
  PROVE  /\ SoFar(Further(g, shape))
         /\ \A i : \/ SoFar([Further(g, shape) EXCEPT !.ignored = i])
                  \/ g.stage # "header"
         /\ Further(g, shape).kind = r.kind /\ Further(g, shape).req = r.req
         /\ Further(g, shape).stage \notin {"idle", "sent"}
         /\ IsRecord(Further(g, shape))
<1>1. \A i : GoesOn(g, shape, i)
  BY GoOn
<1>2. g = [stage |-> r.stage, kind |-> r.kind, buf |-> g.buf, req |-> r.req,
           shape |-> r.shape, ignored |-> r.ignored]
  BY DEF Grown
<1>3. g.stage \in {"first", "header", "fixed", "data"}
  BY <1>2 DEF SoFar, Stages
<1>4. PICK f : f = Further(g, shape)
  OBVIOUS
<1>5. CASE g.stage = "first"
  <2>1. f = [g EXCEPT !.stage = "header"]
    BY <1>4, <1>5 DEF Further
  <2>2. SoFar(f)
    BY <2>1, <1>1, <1>5 DEF GoesOn
  <2>3. f = [stage |-> "header", kind |-> r.kind, buf |-> g.buf,
             req |-> r.req, shape |-> r.shape, ignored |-> r.ignored]
    BY <2>1, <1>2
  <2>4. f.kind = r.kind /\ f.req = r.req /\ f.stage = "header"
    BY <2>3
  <2> QED
    BY <2>2, <2>4, <1>4, <1>5 DEF SoFar
<1>6. CASE g.stage = "header"
  <2>1. f = [g EXCEPT !.stage = "fixed", !.shape = shape]
    BY <1>4, <1>6 DEF Further
  <2>2. PICK h : h = [g EXCEPT !.stage = "fixed"]
    OBVIOUS
  <2>3. f = [h EXCEPT !.shape = shape]
    BY <2>1, <2>2
  <2>4. h = [stage |-> "fixed", kind |-> r.kind, buf |-> g.buf,
             req |-> r.req, shape |-> r.shape, ignored |-> r.ignored]
    BY <1>2, <2>2
  <2>5. f = [stage |-> "fixed", kind |-> r.kind, buf |-> g.buf,
             req |-> r.req, shape |-> shape, ignored |-> r.ignored]
    BY <2>3, <2>4
  <2>6. \A i : SoFar([f EXCEPT !.ignored = i])
    BY <2>1, <1>1, <1>6 DEF GoesOn
  <2>7. [f EXCEPT !.ignored = r.ignored] = f
    BY <2>5
  <2>8. SoFar(f)
    BY <2>6, <2>7
  <2>9. f.kind = r.kind /\ f.req = r.req /\ f.stage = "fixed"
    BY <2>5
  <2> QED
    BY <2>6, <2>8, <2>9, <1>4 DEF SoFar
<1>7. CASE g.stage = "fixed"
  <2>1. PICK stage : stage = IF g.shape.counted THEN "data" ELSE "footer"
    OBVIOUS
  <2>2. f = [g EXCEPT !.stage = IF g.shape.counted THEN "data" ELSE "footer"]
    BY <1>4, <1>7 DEF Further
  <2>3. SoFar(f)
    BY <2>2, <1>1, <1>7 DEF GoesOn
  <2>4. f = [g EXCEPT !.stage = stage]
    BY <2>1, <2>2
  <2>5. f = [stage |-> stage, kind |-> r.kind, buf |-> g.buf,
             req |-> r.req, shape |-> r.shape, ignored |-> r.ignored]
    BY <2>4, <1>2
  <2>6. stage \in {"data", "footer"}
    BY <2>1
  <2>7. f.kind = r.kind /\ f.req = r.req /\ f.stage = stage
    BY <2>5
  <2> QED
    BY <2>3, <2>6, <2>7, <1>4, <1>7 DEF SoFar
<1>8. CASE g.stage = "data"
  <2>1. f = [g EXCEPT !.stage = "footer"]
    BY <1>4, <1>8 DEF Further
  <2>2. SoFar(f)
    BY <2>1, <1>1, <1>8 DEF GoesOn
  <2>3. f = [stage |-> "footer", kind |-> r.kind, buf |-> g.buf,
             req |-> r.req, shape |-> r.shape, ignored |-> r.ignored]
    BY <2>1, <1>2
  <2>4. f.kind = r.kind /\ f.req = r.req /\ f.stage = "footer"
    BY <2>3
  <2> QED
    BY <2>2, <2>4, <1>4, <1>8 DEF SoFar
<1> QED
  BY <1>3, <1>5, <1>6, <1>7, <1>8

LEMMA NoReqIs == NoReq.raw \in Nat
BY DEF NoReq

-----------------------------------------------------------------------------
LEMMA TypeCallRefused ==
  ASSUME TypeInv, setup' = setup, NEW op \in Ops, CallRefused(op)
  PROVE  TypeInv'
<1>1. /\ setup \in DOMAIN Setups /\ RightUse /\ NodesOK /\ RxOK /\ AirOK
      /\ BroadcastsUnanswered
  BY DEF TypeInv
<1>2. /\ Free /\ calls' = calls + 1 /\ node' = node /\ rx' = rx /\ air' = air
      /\ current_tid' = current_tid /\ sent' = sent
  BY DEF CallRefused
<1>3. NodesOK' /\ RxOK' /\ AirOK' /\ BroadcastsUnanswered'
  BY <1>1, <1>2, KeepNodes, KeepRx, KeepAir, KeepSent
<1>4. CountsOK'
  BY <1>2, CallCounts
<1> QED
  BY <1>1, <1>3, <1>4, Put

LEMMA TypeCall ==
  ASSUME CrcIsWord, TypeInv, setup' = setup, NEW op \in Ops, Call(op)
  PROVE  TypeInv'
<1>1. /\ setup \in DOMAIN Setups /\ RightUse /\ NodesOK /\ RxOK /\ AirOK
      /\ BroadcastsUnanswered
  BY DEF TypeInv
<1>2. PICK m : m = Message(NextTid, op.unit, op.fc, Len(op.data), op.data)
  OBVIOUS
<1>3. /\ Free /\ op.data # Refused /\ calls' = calls + 1 /\ rx' = rx
      /\ air' = Append(air, [from |-> Client, bytes |-> m])
      /\ current_tid' = NextTid /\ sent' = sent
  BY <1>2 DEF Call
<1>4. PICK r : r = IF op.raw > 0 \/ (Broadcast(op) /\ op.fc \notin Reads)
                   THEN [Idle(Request(op)) EXCEPT
                           !.stage = IF op.raw > 0 THEN "sent" ELSE "idle"]
                   ELSE Waiting("res", Request(op))
  OBVIOUS
<1>5. node' = [node EXCEPT ![Client] = r]
  BY <1>4 DEF Call
<1>6. Client \in Nodes /\ Client \in Nat
  BY <1>1, Transports
<1>7. Request(op).raw \in Nat
  BY <1>1, RequestIs DEF RightUse, RightCall
<1>8. NodeOK(Client, r)
  <2>1. PICK i : i = Idle(Request(op))
    OBVIOUS
  <2>2. [i EXCEPT !.stage = "idle"] = i
    BY <2>1 DEF Idle, Waiting
  <2>3. /\ NodeOK(Client, Waiting("res", Request(op))) /\ NodeOK(Client, i)
        /\ NodeOK(Client, [i EXCEPT !.stage = "sent"])
    BY <1>7, <2>1, ClientRecords
  <2>4. \/ r = Waiting("res", Request(op)) \/ r = [i EXCEPT !.stage = "sent"]
        \/ r = [i EXCEPT !.stage = "idle"]
    BY <1>4, <2>1
  <2> QED
    BY <2>2, <2>3, <2>4
<1>9. NodesOK'
  BY <1>1, <1>5, <1>6, <1>8, SetNode
<1>10. m \in Bytes
  BY <1>2, <1>3, CallMessage
<1>11. AirOK'
  BY <1>1, <1>3, <1>6, <1>10, PutOnAir
<1>12. RxOK' /\ BroadcastsUnanswered'
  BY <1>1, <1>3, KeepRx, KeepSent
<1>13. CountsOK'
  BY <1>3, CallCounts
<1> QED
  BY <1>1, <1>9, <1>11, <1>12, <1>13, Put

LEMMA TypeCallFails ==
  ASSUME CrcIsWord, TypeInv, setup' = setup, NEW op \in Ops,
         NEW cut \in Places, CallFails(op, cut)
  PROVE  TypeInv'
<1>1. /\ setup \in DOMAIN Setups /\ RightUse /\ NodesOK /\ RxOK /\ AirOK
      /\ BroadcastsUnanswered
  BY DEF TypeInv
<1>2. PICK m : m = Message(NextTid, op.unit, op.fc, Len(op.data), op.data)
  OBVIOUS
<1>3. /\ Free /\ op.data # Refused /\ calls' = calls + 1 /\ rx' = rx
      /\ cut < Len(m)
      /\ air' = IF cut = 0 THEN air
                ELSE Append(air, [from |-> Client, bytes |-> SubSeq(m, 1, cut)])
      /\ current_tid' = NextTid /\ sent' = sent
      /\ node' = [node EXCEPT ![Client] = Idle(Request(op))]
  BY <1>2 DEF CallFails
<1>4. Client \in Nodes /\ Client \in Nat
  BY <1>1, Transports
<1>5. Request(op).raw \in Nat
  BY <1>1, RequestIs DEF RightUse, RightCall
<1>6. NodeOK(Client, Idle(Request(op)))
  BY <1>5, ClientRecords
<1>7. NodesOK'
  BY <1>1, <1>3, <1>4, <1>6, SetNode
<1>8. m \in Bytes
  BY <1>2, <1>3, CallMessage
<1>9. SubSeq(m, 1, cut) \in Bytes
  <2>1. cut \in Int /\ cut <= Len(m) /\ 1 \in Nat
    <3>1. cut \in Nat /\ Len(m) \in Nat
      BY <1>1, <1>8, LenIsNat DEF RightUse
    <3> QED
      BY <3>1, <1>3
  <2> QED
    BY <2>1, <1>8, PartOfBytes
<1>10. AirOK'
  <2>1. CASE cut = 0
    BY <2>1, <1>1, <1>3, KeepAir
  <2>2. CASE cut # 0
    BY <2>2, <1>1, <1>3, <1>4, <1>9, PutOnAir
  <2> QED
    BY <2>1, <2>2
<1>11. RxOK' /\ BroadcastsUnanswered'
  BY <1>1, <1>3, KeepRx, KeepSent
<1>12. CountsOK'
  BY <1>3, CallCounts
<1> QED
  BY <1>1, <1>7, <1>10, <1>11, <1>12, Put

LEMMA TypeAskRaw ==
  ASSUME TypeInv, setup' = setup, nmbs_receive_raw_pdu_response
  PROVE  TypeInv'
<1>1. /\ setup \in DOMAIN Setups /\ RightUse /\ NodesOK /\ RxOK /\ AirOK
      /\ BroadcastsUnanswered /\ CountsOK
  BY DEF TypeInv
<1>2. /\ node' = [node EXCEPT ![Client] = Waiting("res", node[Client].req)]
      /\ rx' = rx /\ air' = air /\ current_tid' = current_tid
      /\ calls' = calls /\ sent' = sent
  BY DEF nmbs_receive_raw_pdu_response
<1>3. Client \in Nodes
  BY <1>1, Transports
<1>4. node[Client].req.raw \in Nat
  BY <1>1, <1>3 DEF NodesOK, NodeOK
<1>5. NodeOK(Client, Waiting("res", node[Client].req))
  BY <1>4, ClientRecords
<1>6. NodesOK'
  BY <1>1, <1>2, <1>3, <1>5, SetNode
<1> QED
  BY <1>1, <1>2, <1>6, KeepRx, KeepAir, KeepCounts, KeepSent, Put

\* What is left when a recv() of a node got what it wanted.
LEMMA RestIs ==
  ASSUME TypeInv, NEW n \in Nodes, Arrived(n),
         node[n].stage \notin {"idle", "sent"}
  PROVE  /\ Grown(Got(n), Left(n), node[n], rx[n]) /\ SoFar(node[n])
         /\ Left(n) \in Bytes /\ rx[n] \in Bytes
<1>1. SoFar(node[n]) /\ rx[n] \in Bytes
  BY DEF TypeInv, NodesOK, NodeOK, RxOK
<1>2. Len(rx[n]) >= Want(node[n])
  BY GotIs
<1>3. Grown(Grow(node[n], rx[n]), Rest(node[n], rx[n]), node[n], rx[n])
  BY <1>1, <1>2, GrowIs
<1>4. Grown(Got(n), Left(n), node[n], rx[n])
  BY <1>3, GotIs
<1> QED
  BY <1>1, <1>4 DEF Grown, Taken

\* The end of a client's call.
LEMMA TypeFinish ==
  ASSUME TypeInv, setup' = setup, NEW r, NEW err, Finish(r, err),
         NEW q \in Bytes, rx' = [rx EXCEPT ![Client] = q],
         UNCHANGED <<air, current_tid, calls, sent>>
  PROVE  TypeInv'
<1>1. /\ setup \in DOMAIN Setups /\ RightUse /\ NodesOK /\ RxOK /\ AirOK
      /\ BroadcastsUnanswered /\ CountsOK
  BY DEF TypeInv
<1>2. node' = [node EXCEPT ![Client] = Idle(NoReq)]
  BY DEF Finish
<1>3. Client \in Nodes
  BY <1>1, Transports
<1>4. NodeOK(Client, Idle(NoReq))
  BY NoReqIs, ClientRecords
<1>5. NodesOK'
  BY <1>1, <1>2, <1>3, <1>4, SetNode
<1>6. RxOK'
  BY <1>1, <1>3, SetRx
<1> QED
  BY <1>1, <1>5, <1>6, KeepAir, KeepCounts, KeepSent, Put

LEMMA TypeClientReceive ==
  ASSUME TypeInv, setup' = setup, ClientReceive
  PROVE  TypeInv'
<1>1. /\ setup \in DOMAIN Setups /\ RightUse /\ NodesOK /\ RxOK /\ AirOK
      /\ BroadcastsUnanswered /\ CountsOK
  BY DEF TypeInv
<1>2. PICK n : n = Client
  OBVIOUS
<1>3. n \in Nodes
  BY <1>1, <1>2, Transports
<1>4. /\ node[n].stage \notin {"idle", "sent", "footer"} /\ Arrived(n)
      /\ UNCHANGED <<air, current_tid, calls, sent>>
  BY <1>2 DEF ClientReceive, Busy
<1>5. PICK g : g = Got(n)
  OBVIOUS
<1>6. /\ Grown(g, Left(n), node[n], rx[n]) /\ SoFar(node[n])
      /\ Left(n) \in Bytes
  BY <1>3, <1>4, <1>5, RestIs
<1>7. CASE g.stage = "header" /\ HeaderError(g) # NMBS_ERROR_NONE
  <2>1. Finish(g, HeaderError(g)) /\ rx' = [rx EXCEPT ![Client] = Left(Client)]
    BY <1>2, <1>5, <1>7 DEF ClientReceive
  <2> QED
    BY <2>1, <1>2, <1>4, <1>6, TypeFinish
<1>8. CASE ~(g.stage = "header" /\ HeaderError(g) # NMBS_ERROR_NONE)
  <2>1. Receive(n, Further(g, ClientShape(g)))
    BY <1>2, <1>5, <1>8 DEF ClientReceive
  <2>2. node' = [node EXCEPT ![n] = Further(g, ClientShape(g))]
        /\ rx' = [rx EXCEPT ![n] = Left(n)]
    BY <2>1 DEF Receive
  <2>3. NodeOK(n, node[n])
    BY <1>1, <1>3 DEF NodesOK
  <2>4. node[n].kind = "res" /\ node[n].req.raw \in Nat
    BY <2>3, <1>2 DEF NodeOK
  <2>5. g.kind = "res" /\ g.req = node[n].req
    <3>1. g = [stage |-> node[n].stage, kind |-> node[n].kind,
               buf |-> g.buf, req |-> node[n].req, shape |-> node[n].shape,
               ignored |-> node[n].ignored]
      BY <1>6 DEF Grown
    <3> QED
      BY <3>1, <2>4
  <2>6. IsShape(ClientShape(g))
    BY <2>4, <2>5, Shapes DEF ClientShape
  <2>7. Allowed(g, ClientShape(g))
    BY <2>5, <2>6 DEF Allowed
  <2>8. PICK f : f = Further(g, ClientShape(g))
    OBVIOUS
  <2>9. /\ SoFar(f) /\ f.kind = node[n].kind /\ f.req = node[n].req
        /\ f.stage \notin {"idle", "sent"}
    BY <1>4, <1>6, <2>7, <2>8, FurtherIs
  <2>10. NodeOK(n, f)
    BY <2>4, <2>9 DEF NodeOK
  <2>11. NodesOK'
    BY <1>1, <1>3, <2>2, <2>8, <2>10, SetNode
  <2>12. RxOK'
    BY <1>1, <1>3, <1>6, <2>2, SetRx
  <2> QED
    BY <1>1, <1>4, <2>11, <2>12, KeepAir, KeepCounts, KeepSent, Put
<1> QED
  BY <1>7, <1>8

LEMMA TypeClientFooter ==
  ASSUME TypeInv, setup' = setup, ClientFooter
  PROVE  TypeInv'
<1>1. setup \in DOMAIN Setups
  BY DEF TypeInv
<1>2. Client \in Nodes
  BY <1>1, Transports
<1>3. /\ node[Client].stage \notin {"idle", "sent"} /\ Arrived(Client)
      /\ Finish(Got(Client), ResponseVerdict(Got(Client)))
      /\ rx' = [rx EXCEPT ![Client] = Left(Client)]
      /\ UNCHANGED <<air, current_tid, calls, sent>>
  BY DEF ClientFooter
<1>4. Left(Client) \in Bytes
  BY <1>2, <1>3, RestIs
<1> QED
  BY <1>3, <1>4, TypeFinish

LEMMA TypeClientTimeout ==
  ASSUME TypeInv, setup' = setup, ClientTimeout
  PROVE  TypeInv'
<1>1. /\ Finish(node[Client], NMBS_ERROR_TIMEOUT)
      /\ rx' = [rx EXCEPT ![Client] = <<>>]
      /\ UNCHANGED <<air, current_tid, calls, sent>>
  BY DEF ClientTimeout
<1>2. <<>> \in Bytes
  BY EmptyIsBytes
<1> QED
  BY <1>1, <1>2, TypeFinish

-----------------------------------------------------------------------------
(* The servers' receiving keeps the types.                                 *)

\* Behind a header, as much as the shape says: the data of a message has it.
LEMMA WholeHasShape ==
  ASSUME NEW b \in Bytes, NEW sh, IsShape(sh), Whole(b, sh), NEW m \in Bytes,
         Len(m) = Len(b) + FooterLen, \A i \in 1..Len(b) : m[i] = b[i]
  PROVE  HasShape(DataOf(m), sh)
<1>1. PICK d : d = DataOf(m)
  OBVIOUS
<1>2. PICK f : f = sh.fixed
  OBVIOUS
<1>3. f \in Nat /\ (sh.counted => f >= 1)
  BY <1>2 DEF IsShape
<1>4. Len(b) \in Nat /\ Len(b) >= HeaderLen + f
  BY <1>2, LenIsNat DEF Whole
<1>5. PICK n : n = Len(b) - HeaderLen
  OBVIOUS
<1>6. n \in Nat /\ Len(b) = HeaderLen + n /\ n >= f
  BY <1>3, <1>4, <1>5, LengthsOf
<1>7. HeaderLen + 1 \in Nat /\ HeaderLen + 1 >= 1
      /\ Len(m) - FooterLen = HeaderLen + n /\ HeaderLen + n \in Int
      /\ HeaderLen + n <= Len(m)
  BY <1>6, LengthsOf
<1>8. d = SubSeq(m, HeaderLen + 1, HeaderLen + n)
  BY <1>1, <1>7 DEF DataOf
<1>9. PICK h : h = HeaderLen
  OBVIOUS
<1>10. h \in Nat
  BY <1>9, LengthsOf
<1>11. PICK a, z : a = h + 1 /\ z = h + n
  OBVIOUS
<1>12. /\ SubSeq(m, a, z) \in Bytes
       /\ Len(SubSeq(m, a, z)) = IF a <= z THEN z - a + 1 ELSE 0
       /\ \A k \in 1..(z - a + 1) : SubSeq(m, a, z)[k] = m[a + k - 1]
  <2>1. a \in Nat /\ a >= 1 /\ z \in Int /\ z <= Len(m)
    BY <1>7, <1>9, <1>11
  <2> QED
    BY <2>1, PartOfBytes
<1>13. z - a + 1 = n /\ (a <= z <=> n >= 1)
  BY <1>6, <1>10, <1>11
<1>14. d \in Bytes /\ Len(d) = n
  BY <1>6, <1>8, <1>9, <1>11, <1>12, <1>13
<1>15. sh.counted => d[f] = b[HeaderLen + f]
  <2>1. SUFFICES ASSUME sh.counted
                 PROVE  d[f] = b[HeaderLen + f]
    OBVIOUS
  <2>2. f \in 1..(z - a + 1)
    BY <2>1, <1>3, <1>6, <1>13
  <2>3. d[f] = m[a + f - 1]
    BY <2>2, <1>8, <1>9, <1>11, <1>12
  <2>4. a + f - 1 = h + f /\ h + f \in 1..Len(b)
    BY <2>1, <1>3, <1>4, <1>9, <1>10, <1>11
  <2> QED
    BY <2>3, <2>4, <1>9
<1>16. HasShape(d, sh)
  <2>1. PICK c : c = IF sh.counted THEN d[f] ELSE 0
    OBVIOUS
  <2>2. Len(b) = HeaderLen + f + c
    BY <2>1, <1>2, <1>15 DEF Whole
  <2>3. c = n - f
    <3>1. CASE sh.counted
      <4>1. f \in 1..Len(d)
        BY <3>1, <1>3, <1>6, <1>14
      <4>2. c \in Nat
        <5>1. d[f] \in Byte
          BY <4>1, <1>14, LenIsNat
        <5> QED
          BY <5>1, <3>1, <2>1 DEF Byte
      <4> QED
        BY <4>2, <2>2, <1>3, <1>6, <1>9, <1>10
    <3>2. CASE ~sh.counted
      <4>1. c = 0
        BY <2>1, <3>2
      <4> QED
        BY <4>1, <2>2, <1>3, <1>6, <1>9, <1>10
    <3> QED
      BY <3>1, <3>2
  <2>4. Len(d) >= f /\ Len(d) = f + c
    BY <2>3, <1>3, <1>6, <1>14
  <2> QED
    BY <2>1, <2>4, <1>2, <1>14 DEF HasShape
<1> QED
  BY <1>1, <1>16

LEMMA SetServer ==
  ASSUME TypeInv, setup' = setup, NEW s \in Servers, NEW r, SoFar(r),
         r.stage \notin {"idle", "sent"}, NEW q \in Bytes,
         node' = [node EXCEPT ![s] = r], rx' = [rx EXCEPT ![s] = q],
         current_tid' = current_tid, calls' = calls,
         AirOK', BroadcastsUnanswered'
  PROVE  TypeInv'
<1>1. /\ setup \in DOMAIN Setups /\ RightUse /\ NodesOK /\ RxOK /\ CountsOK
  BY DEF TypeInv
<1>2. s \in Nodes /\ s # Client
  BY <1>1, Transports DEF Nodes
<1>3. NodeOK(s, r)
  BY <1>2 DEF NodeOK
<1>4. NodesOK'
  BY <1>1, <1>2, <1>3, SetNode
<1>5. RxOK'
  BY <1>1, <1>2, SetRx
<1> QED
  BY <1>1, <1>4, <1>5, KeepCounts, Put

LEMMA PollIs == SoFar(Poll) /\ Poll.stage = "first"
BY WaitingIs DEF Poll, Waiting

LEMMA ServerIs ==
  ASSUME TypeInv, NEW s \in Servers
  PROVE  /\ s \in Nodes /\ s # Client /\ NodeOK(s, node[s])
         /\ node[s].stage \notin {"idle", "sent"} /\ SoFar(node[s])
<1>1. setup \in DOMAIN Setups
  BY DEF TypeInv
<1>2. s \in Nodes /\ s # Client
  BY <1>1, Transports DEF Nodes
<1>3. NodeOK(s, node[s])
  BY <1>2 DEF TypeInv, NodesOK
<1> QED
  BY <1>2, <1>3 DEF NodeOK

LEMMA TypeServerReceive ==
  ASSUME TypeInv, setup' = setup, NEW s \in Servers, ServerReceive(s)
  PROVE  TypeInv'
<1>1. s \in Nodes /\ node[s].stage \notin {"idle", "sent"}
  BY ServerIs
<1>2. node[s].stage # "footer" /\ Arrived(s)
      /\ UNCHANGED <<air, current_tid, calls, sent>>
  BY DEF ServerReceive
<1>3. PICK g : g = Got(s)
  OBVIOUS
<1>4. PICK f : f = IF g.stage # "header" THEN Further(g, g.shape)
                   ELSE IF HeaderEnds(g) THEN Poll
                   ELSE [Further(g, ServerShape(g)) EXCEPT
                           !.ignored = g.kind = "req" /\ ~ForMe(s, g)]
  OBVIOUS
<1>5. node' = [node EXCEPT ![s] = f] /\ rx' = [rx EXCEPT ![s] = Left(s)]
  BY <1>3, <1>4 DEF ServerReceive, Receive
<1>6. /\ Grown(g, Left(s), node[s], rx[s]) /\ SoFar(node[s])
      /\ Left(s) \in Bytes
  BY <1>1, <1>2, <1>3, RestIs
<1>7. AirOK' /\ BroadcastsUnanswered'
  BY <1>2, KeepAir, KeepSent DEF TypeInv
<1>8. SoFar(f) /\ f.stage \notin {"idle", "sent"}
  <2>1. CASE g.stage # "header"
    <3>1. IsShape(g.shape)
      <4>1. g = [stage |-> node[s].stage, kind |-> node[s].kind,
                 buf |-> g.buf, req |-> node[s].req, shape |-> node[s].shape,
                 ignored |-> node[s].ignored]
        BY <1>6 DEF Grown
      <4>2. g.shape = node[s].shape
        BY <4>1
      <4> QED
        BY <4>2, <1>6 DEF SoFar
    <3>2. Allowed(g, g.shape)
      BY <2>1, <3>1 DEF Allowed
    <3>3. PICK h : h = Further(g, g.shape)
      OBVIOUS
    <3>4. SoFar(h) /\ h.stage \notin {"idle", "sent"}
      BY <3>2, <3>3, <1>1, <1>2, <1>6, FurtherIs
    <3> QED
      BY <3>3, <3>4, <2>1, <1>4
  <2>2. CASE g.stage = "header" /\ HeaderEnds(g)
    BY <2>2, <1>4, PollIs
  <2>3. CASE g.stage = "header" /\ ~HeaderEnds(g)
    <3>1. g.kind = "req" => FcOf(g.buf) \in FunctionCodes
      BY <2>3 DEF HeaderEnds
    <3>2. IsShape(ServerShape(g))
      BY <3>1, Shapes DEF ServerShape
    <3>3. Allowed(g, ServerShape(g))
      BY <3>1, <3>2 DEF Allowed, ServerShape
    <3>4. PICK h : h = Further(g, ServerShape(g))
      OBVIOUS
    <3>5. /\ \A i : SoFar([h EXCEPT !.ignored = i])
          /\ h.stage \notin {"idle", "sent"} /\ IsRecord(h)
      BY <3>3, <3>4, <2>3, <1>1, <1>2, <1>6, FurtherIs
    <3>6. PICK i : i = (g.kind = "req" /\ ~ForMe(s, g))
      OBVIOUS
    <3>7. f = [h EXCEPT !.ignored = i]
      BY <3>4, <3>6, <2>3, <1>4
    <3>8. f.stage = h.stage
      BY <3>5, <3>7 DEF IsRecord
    <3> QED
      BY <3>5, <3>7, <3>8
  <2> QED
    BY <2>1, <2>2, <2>3
<1>9. current_tid' = current_tid /\ calls' = calls
  BY <1>2
<1> QED
  BY <1>5, <1>6, <1>7, <1>8, <1>9, SetServer

LEMMA TypeServerDiscard ==
  ASSUME TypeInv, setup' = setup, NEW s \in Servers, ServerDiscard(s)
  PROVE  TypeInv'
<1>1. s \in Nodes /\ node[s].stage \notin {"idle", "sent"}
  BY ServerIs
<1>2. /\ Arrived(s) /\ UNCHANGED <<air, current_tid, calls, sent>>
      /\ node' = [node EXCEPT ![s] = Poll]
      /\ rx' = [rx EXCEPT ![s] = IF node[s].ignored THEN <<>> ELSE Left(s)]
  BY DEF ServerDiscard
<1>3. Left(s) \in Bytes /\ <<>> \in Bytes
  BY <1>1, <1>2, RestIs, EmptyIsBytes
<1>4. PICK q : q = IF node[s].ignored THEN <<>> ELSE Left(s)
  OBVIOUS
<1>5. q \in Bytes /\ rx' = [rx EXCEPT ![s] = q]
  BY <1>2, <1>3, <1>4
<1>6. AirOK' /\ BroadcastsUnanswered'
  BY <1>2, KeepAir, KeepSent DEF TypeInv
<1>7. SoFar(Poll) /\ Poll.stage \notin {"idle", "sent"}
  BY PollIs
<1> QED
  BY <1>2, <1>5, <1>6, <1>7, SetServer

LEMMA TypeServerIgnore ==
  ASSUME TypeInv, setup' = setup, NEW s \in Servers, ServerIgnore(s)
  PROVE  TypeInv'
<1>1. s \in Nodes /\ node[s].stage \notin {"idle", "sent"}
  BY ServerIs
<1>2. /\ Arrived(s) /\ UNCHANGED <<air, current_tid, calls, sent>>
  BY DEF ServerIgnore
<1>3. PICK req : /\ node' = [node EXCEPT ![s] = Waiting("res", req)]
                 /\ rx' = [rx EXCEPT ![s] = Left(s)]
  BY DEF ServerIgnore, Receive
<1>4. Left(s) \in Bytes
  BY <1>1, <1>2, RestIs
<1>5. AirOK' /\ BroadcastsUnanswered'
  BY <1>2, KeepAir, KeepSent DEF TypeInv
<1>6. SoFar(Waiting("res", req))
      /\ Waiting("res", req).stage \notin {"idle", "sent"}
  BY WaitingIs DEF Waiting
<1> QED
  BY <1>2, <1>3, <1>4, <1>5, <1>6, SetServer

LEMMA TypeServerTimeout ==
  ASSUME TypeInv, setup' = setup, NEW s \in Servers, ServerTimeout(s)
  PROVE  TypeInv'
<1>1. /\ UNCHANGED <<air, current_tid, calls, sent>>
      /\ node' = [node EXCEPT ![s] = Poll]
      /\ rx' = [rx EXCEPT ![s] = <<>>]
  BY DEF ServerTimeout
<1>2. AirOK' /\ BroadcastsUnanswered'
  BY <1>1, KeepAir, KeepSent DEF TypeInv
<1>3. SoFar(Poll) /\ Poll.stage \notin {"idle", "sent"} /\ <<>> \in Bytes
  BY PollIs, EmptyIsBytes
<1> QED
  BY <1>1, <1>2, <1>3, SetServer

-----------------------------------------------------------------------------
(* A server's answer and what the line does keep the types.                *)

\* A server that has read a request to the end.
LEMMA GotRequest ==
  ASSUME TypeInv, NEW s \in Servers, node[s].stage = "footer", Arrived(s),
         node[s].kind = "req", NEW m, m = Got(s).buf
  PROVE  /\ m \in Bytes /\ FcOf(m) \in FunctionCodes /\ UnitOf(m) \in Byte
         /\ TidOf(m) \in Word /\ HasShape(DataOf(m), ReqShape(FcOf(m)))
         /\ UnitOf(m) = UnitOf(node[s].buf)
<1>1. s \in Nodes /\ SoFar(node[s])
  BY ServerIs
<1>2. PICK r : r = node[s]
  OBVIOUS
<1>3. Grown(Got(s), Left(s), r, rx[s])
  BY <1>1, <1>2, RestIs
<1>4. Want(r) = FooterLen
  BY <1>2 DEF Want
<1>5. PICK b : b = r.buf
  OBVIOUS
<1>6. /\ m \in Bytes /\ Len(m) = Len(b) + FooterLen
      /\ \A i \in 1..Len(b) : m[i] = b[i]
  BY <1>3, <1>4, <1>5 DEF Grown, Taken
<1>7. /\ b \in Bytes /\ Whole(b, r.shape) /\ IsShape(r.shape)
      /\ FcOf(b) \in FunctionCodes /\ r.shape = ReqShape(FcOf(b))
  BY <1>1, <1>2, <1>5 DEF SoFar, ReadUpTo, KnowsRequest
<1>8. Len(b) >= HeaderLen /\ Len(b) \in Nat
  <2>1. Len(b) >= HeaderLen + r.shape.fixed /\ r.shape.fixed \in Nat
    BY <1>7 DEF Whole, IsShape
  <2> QED
    BY <2>1, <1>7, LengthsOf, LenIsNat
<1>9. UnitOf(m) = UnitOf(b) /\ FcOf(m) = FcOf(b)
  BY <1>6, <1>7, <1>8, SameHeader
<1>10. UnitOf(m) \in Byte /\ TidOf(m) \in Word
  <2>1. Len(m) >= HeaderLen
    BY <1>6, <1>8, LengthsOf
  <2> QED
    BY <2>1, <1>6, HeaderIs
<1>11. HasShape(DataOf(m), r.shape)
  BY <1>6, <1>7, WholeHasShape
<1> QED
  BY <1>2, <1>5, <1>6, <1>7, <1>9, <1>10, <1>11

\* What a server does about the request m when its verdict is err.
Replies(s, m, err, broadcast) ==
  IF err # NMBS_ERROR_NONE THEN ReplyException(s, m, err)
  ELSE IF broadcast THEN UNCHANGED <<air, sent>>
  ELSE Reply(s, m, FcOf(m),
             AnswerLength(FcOf(m), Answer(FcOf(m), DataOf(m), calls)),
             Answer(FcOf(m), DataOf(m), calls))

Verdict(fc, d, cb, cbRead, broadcast, err) ==
  /\ err = NMBS_ERROR_NONE => Judge(fc, d) = NMBS_ERROR_NONE
  /\ Judge(fc, d) # NMBS_ERROR_NONE => err = Judge(fc, d)
  /\ Judge(fc, d) = NMBS_ERROR_NONE => err \in 0..4
  /\ Judge(fc, d) = NMBS_ERROR_NONE
       /\ ~is_exception(cb) /\ ~is_exception(cbRead) =>
         err \in {NMBS_ERROR_NONE, DEVICE_FAILURE}
  /\ Judge(fc, d) = NMBS_ERROR_NONE /\ cb = NMBS_ERROR_NONE /\ broadcast =>
       err = NMBS_ERROR_NONE

LEMMA ServeIs ==
  ASSUME NEW s, NEW cb, NEW cbRead, Serve(s, cb, cbRead),
         NEW m, m = Got(s).buf
  PROVE  /\ node[s].stage = "footer" /\ Arrived(s) /\ CrcOK(m)
         /\ node[s].kind = "req" /\ ~node[s].ignored
         /\ node' = [node EXCEPT ![s] = Poll]
         /\ rx' = [rx EXCEPT ![s] = Left(s)]
         /\ UNCHANGED <<current_tid, calls, result, calm, faults>>
         /\ \E err, broadcast :
              /\ broadcast <=> Transport = "RTU"
                   /\ UnitOf(node[s].buf) = NMBS_BROADCAST_ADDRESS
              /\ Verdict(FcOf(m), DataOf(m), cb, cbRead, broadcast, err)
              /\ Replies(s, m, err, broadcast)
<1>1. PICK broadcast : broadcast = (Transport = "RTU"
                         /\ UnitOf(node[s].buf) = NMBS_BROADCAST_ADDRESS)
  OBVIOUS
<1>2. HandleRequest(s, cb, cbRead, broadcast)
  BY <1>1 DEF Serve
<1>3. PICK fc, d : fc = FcOf(m) /\ d = DataOf(m)
  OBVIOUS
<1>4. PICK bad : bad = Judge(fc, d)
  OBVIOUS
<1>5. PICK err : err = IF bad # NMBS_ERROR_NONE THEN bad
                ELSE IF cb # NMBS_ERROR_NONE THEN ExceptionOf(cb)
                ELSE IF fc = 23 /\ ~broadcast /\ cbRead # NMBS_ERROR_NONE
                THEN ExceptionOf(cbRead)
                ELSE NMBS_ERROR_NONE
  OBVIOUS
<1>6. Replies(s, m, err, broadcast)
  BY <1>2, <1>3, <1>4, <1>5 DEF HandleRequest, Replies
<1>7. Verdict(fc, d, cb, cbRead, broadcast, err)
  <2>1. \A e : ExceptionOf(e) \in 0..4 /\ ExceptionOf(e) # NMBS_ERROR_NONE
               /\ (~is_exception(e) => ExceptionOf(e) = DEVICE_FAILURE)
    BY DEF ExceptionOf, is_exception, DEVICE_FAILURE, NMBS_ERROR_NONE
  <2>2. NMBS_ERROR_NONE \in 0..4
    BY Verdicts
  <2> QED
    BY <2>1, <2>2, <1>4, <1>5 DEF Verdict
<1>8. broadcast <=> Transport = "RTU"
                      /\ UnitOf(node[s].buf) = NMBS_BROADCAST_ADDRESS
  BY <1>1
<1>9. /\ node[s].stage = "footer" /\ Arrived(s) /\ CrcOK(m)
      /\ node[s].kind = "req" /\ ~node[s].ignored
      /\ node' = [node EXCEPT ![s] = Poll]
      /\ rx' = [rx EXCEPT ![s] = Left(s)]
      /\ UNCHANGED <<current_tid, calls, result, calm, faults>>
  BY <1>2 DEF HandleRequest, Receive
<1> QED
  BY <1>3, <1>6, <1>7, <1>8, <1>9

LEMMA CallsIsByte ==
  ASSUME TypeInv
  PROVE  calls \in Byte
BY DEF TypeInv, CountsOK, RightUse, Byte

LEMMA TypeReply ==
  ASSUME CrcIsWord, TypeInv, setup' = setup, NEW s \in Servers, NEW m,
         UnitOf(m) \in Byte, TidOf(m) \in Word,
         NEW fc \in Byte, NEW length \in Small, NEW data \in Bytes,
         Reply(s, m, fc, length, data),
         fc > 128 \/ Transport # "RTU" \/ UnitOf(m) # NMBS_BROADCAST_ADDRESS
  PROVE  AirOK' /\ BroadcastsUnanswered'
<1>1. Transport \in {"RTU", "TCP"} /\ s \in Nat
  BY Transports DEF TypeInv
<1>2. PICK w : w = Message(TidOf(m), UnitOf(m), fc, length, data)
  OBVIOUS
<1>3. w \in Bytes
  BY <1>1, <1>2, MessageIsBytes
<1>4. PICK u : u = UnitOf(m)
  OBVIOUS
<1>5. /\ air' = Append(air, [from |-> s, bytes |-> w])
      /\ sent' = sent \cup {[unit |-> u, fc |-> fc, data |-> data,
                             call |-> calls]}
  BY <1>2, <1>4 DEF Reply
<1>6. AirOK'
  BY <1>1, <1>3, <1>5, PutOnAir DEF TypeInv
<1>7. Transport' = Transport
  BY SameSetup
<1>8. BroadcastsUnanswered
  BY DEF TypeInv
<1>9. BroadcastsUnanswered'
  BY <1>4, <1>5, <1>7, <1>8 DEF BroadcastsUnanswered
<1> QED
  BY <1>6, <1>9

LEMMA TypeServe ==
  ASSUME CrcIsWord, TypeInv, setup' = setup, NEW s \in Servers,
         NEW cb, NEW cbRead, Serve(s, cb, cbRead)
  PROVE  TypeInv'
<1>1. PICK m : m = Got(s).buf
  OBVIOUS
<1>2. /\ node[s].stage = "footer" /\ Arrived(s) /\ node[s].kind = "req"
      /\ node' = [node EXCEPT ![s] = Poll]
      /\ rx' = [rx EXCEPT ![s] = Left(s)]
      /\ UNCHANGED <<current_tid, calls>>
  BY <1>1, ServeIs
<1>3. PICK err, broadcast :
        /\ broadcast <=> Transport = "RTU"
             /\ UnitOf(node[s].buf) = NMBS_BROADCAST_ADDRESS
        /\ \E cb1, cbRead1 :
             Verdict(FcOf(m), DataOf(m), cb1, cbRead1, broadcast, err)
        /\ Replies(s, m, err, broadcast)
  BY <1>1, ServeIs
<1>4. PICK fc, d : fc = FcOf(m) /\ d = DataOf(m)
  OBVIOUS
<1>5. /\ fc \in FunctionCodes /\ UnitOf(m) \in Byte /\ TidOf(m) \in Word
      /\ HasShape(d, ReqShape(fc)) /\ UnitOf(m) = UnitOf(node[s].buf)
  BY <1>1, <1>2, <1>4, GotRequest
<1>6. Judge(fc, d) \in 0..4
  BY <1>5, JudgeIsError
<1>7. err \in 0..4 /\ (err = NMBS_ERROR_NONE => Judge(fc, d) = NMBS_ERROR_NONE)
  BY <1>3, <1>4, <1>6 DEF Verdict
<1>8. fc \in Byte /\ fc + 128 \in Byte /\ fc + 128 > 128
  BY <1>5 DEF FunctionCodes, Byte
<1>9. AirOK' /\ BroadcastsUnanswered'
  <2>1. CASE err # NMBS_ERROR_NONE
    <3>1. PICK e : e = <<err>>
      OBVIOUS
    <3>2. Reply(s, m, fc + 128, 1, e)
      BY <2>1, <3>1, <1>3, <1>4 DEF Replies, ReplyException
    <3>3. e \in Bytes
      <4>1. err \in Byte
        BY <1>7 DEF Byte
      <4> QED
        BY <4>1, <3>1, OneByte
    <3>4. 1 \in Small
      BY DEF Small
    <3> QED
      BY <3>2, <3>3, <3>4, <1>5, <1>8, TypeReply
  <2>2. CASE err = NMBS_ERROR_NONE /\ broadcast
    <3>1. UNCHANGED <<air, sent>>
      BY <2>2, <1>3 DEF Replies
    <3> QED
      BY <3>1, KeepAir, KeepSent DEF TypeInv
  <2>3. CASE err = NMBS_ERROR_NONE /\ ~broadcast
    <3>1. PICK a : a = Answer(fc, d, calls)
      OBVIOUS
    <3>2. PICK n : n = AnswerLength(fc, a)
      OBVIOUS
    <3>3. Reply(s, m, fc, n, a)
      BY <2>3, <3>1, <3>2, <1>3, <1>4 DEF Replies
    <3>4. Sendable(a, n)
      BY <2>3, <3>1, <3>2, <1>5, <1>7, CallsIsByte, AnswerIsBytes
    <3>5. Transport # "RTU" \/ UnitOf(m) # NMBS_BROADCAST_ADDRESS
      BY <2>3, <1>3, <1>5
    <3> QED
      BY <3>3, <3>4, <3>5, <1>5, <1>8, TypeReply DEF Sendable
  <2> QED
    BY <2>1, <2>2, <2>3
<1>10. Left(s) \in Bytes
  BY <1>2, ServerIs, RestIs
<1>11. SoFar(Poll) /\ Poll.stage \notin {"idle", "sent"}
  BY PollIs
<1> QED
  BY <1>2, <1>9, <1>10, <1>11, SetServer

-----------------------------------------------------------------------------
LEMMA HearIs ==
  ASSUME TypeInv, setup' = setup, NEW b \in Bytes, Hear(b)
  PROVE  RxOK'
<1>1. Nodes' = Nodes
  BY SameSetup
<1>2. \A n \in Nodes : rx[n] \in Bytes /\ rx[n] \o b \in Bytes
  BY CatIs DEF TypeInv, RxOK, IsCat
<1> QED
  BY <1>1, <1>2 DEF Hear, RxOK

LEMMA FirstOnAir ==
  ASSUME TypeInv, air # <<>>
  PROVE  /\ Head(air) \in SentBytes /\ Tail(air) \in Seq(SentBytes)
         /\ Len(air) \in Nat /\ Len(air) >= 1 /\ Head(air) = air[1]
         /\ Head(air).bytes \in Bytes /\ Head(air).from \in Nat
<1>1. air \in Seq(SentBytes)
  BY DEF TypeInv, AirOK
<1>2. Head(air) \in SentBytes /\ Tail(air) \in Seq(SentBytes)
  BY <1>1, HeadTailProperties
<1>3. Len(air) \in Nat /\ Len(air) >= 1
  BY <1>1, EmptySeq
<1>4. Head(air) = air[1]
  BY <1>1
<1> QED
  BY <1>2, <1>3, <1>4 DEF SentBytes

LEMMA LineKeeps ==
  ASSUME TypeInv, setup' = setup,
         UNCHANGED <<node, current_tid, calls, sent>>, RxOK', AirOK'
  PROVE  TypeInv'
BY KeepNodes, KeepCounts, KeepSent, Put DEF TypeInv

LEMMA TypeDeliver ==
  ASSUME TypeInv, setup' = setup, Deliver
  PROVE  TypeInv'
<1>1. /\ air # <<>> /\ Hear(Head(air).bytes) /\ air' = Tail(air)
      /\ UNCHANGED <<node, current_tid, calls, sent>>
  BY DEF Deliver
<1>2. RxOK'
  BY <1>1, FirstOnAir, HearIs
<1>3. AirOK'
  BY <1>1, FirstOnAir DEF AirOK
<1> QED
  BY <1>1, <1>2, <1>3, LineKeeps

LEMMA TypeLose ==
  ASSUME TypeInv, setup' = setup, Lose
  PROVE  TypeInv'
<1>1. /\ air # <<>> /\ rx' = rx /\ air' = Tail(air)
      /\ UNCHANGED <<node, current_tid, calls, sent>>
  BY DEF Lose, Fault
<1>2. RxOK'
  BY <1>1, KeepRx DEF TypeInv
<1>3. AirOK'
  BY <1>1, FirstOnAir DEF AirOK
<1> QED
  BY <1>1, <1>2, <1>3, LineKeeps

LEMMA TypePause ==
  ASSUME TypeInv, setup' = setup, NEW k \in Places, Pause(k)
  PROVE  TypeInv'
<1>1. PICK b : b = Head(air).bytes
  OBVIOUS
<1>2. /\ air # <<>> /\ k < Len(b) /\ Hear(SubSeq(b, 1, k))
      /\ air' = [air EXCEPT ![1].bytes = SubSeq(b, k + 1, Len(b))]
      /\ UNCHANGED <<node, current_tid, calls, sent>>
  BY <1>1 DEF Pause, Fault
<1>3. b \in Bytes /\ k \in Nat
  BY <1>1, <1>2, FirstOnAir DEF TypeInv, RightUse
<1>4. Len(b) \in Nat
  BY <1>3, LenIsNat
<1>5. SubSeq(b, 1, k) \in Bytes /\ SubSeq(b, k + 1, Len(b)) \in Bytes
  <2>1. PICK n : n = Len(b)
    OBVIOUS
  <2>2. /\ 1 \in Nat /\ 1 >= 1 /\ k \in Int /\ k <= n
        /\ k + 1 \in Nat /\ k + 1 >= 1 /\ n \in Int /\ n <= n
    BY <2>1, <1>2, <1>3, <1>4
  <2>3. SubSeq(b, 1, k) \in Bytes
    BY <2>1, <2>2, <1>3, PartOfBytes
  <2>4. SubSeq(b, k + 1, n) \in Bytes
    BY <2>1, <2>2, <1>3, PartOfBytes
  <2> QED
    BY <2>1, <2>3, <2>4
<1>6. RxOK'
  BY <1>2, <1>5, HearIs
<1>7. AirOK'
  <2>1. PICK t : t = SubSeq(b, k + 1, Len(b))
    OBVIOUS
  <2>2. air' = [air EXCEPT ![1] = [air[1] EXCEPT !.bytes = t]]
    BY <1>2, <2>1
  <2>3. air[1] \in SentBytes /\ air \in Seq(SentBytes) /\ 1 \in 1..Len(air)
    BY <1>2, FirstOnAir DEF TypeInv, AirOK
  <2>4. [air[1] EXCEPT !.bytes = t] \in SentBytes
    BY <2>1, <2>3, <1>5 DEF SentBytes
  <2> QED
    BY <2>2, <2>3, <2>4, ExceptSeq DEF AirOK
<1> QED
  BY <1>2, <1>6, <1>7, LineKeeps

LEMMA TypeCorrupt ==
  ASSUME TypeInv, setup' = setup, NEW k \in Places, Corrupt(k)
  PROVE  TypeInv'
<1>1. PICK b : b = air[1].bytes
  OBVIOUS
<1>2. /\ air # <<>> /\ rx' = rx
      /\ air' = [air EXCEPT ![1].bytes[k] = (@ + 1) % 256]
      /\ UNCHANGED <<node, current_tid, calls, sent>>
  BY DEF Corrupt, Fault
<1>3. /\ air[1] \in SentBytes /\ air \in Seq(SentBytes) /\ 1 \in 1..Len(air)
      /\ b \in Bytes
  BY <1>1, <1>2, FirstOnAir DEF TypeInv, AirOK, SentBytes
<1>4. PICK x : x = (b[k] + 1) % 256
  OBVIOUS
<1>5. PICK c : c = [b EXCEPT ![k] = x]
  OBVIOUS
<1>6. air' = [air EXCEPT ![1] = [air[1] EXCEPT !.bytes = c]]
  BY <1>1, <1>2, <1>4, <1>5
<1>7. c \in Bytes
  <2>1. b \in Seq(Byte)
    BY <1>3 DEF Bytes
  <2>2. CASE k \in 1..Len(b)
    <3>1. b[k] \in Byte
      BY <2>2, <1>3, LenIsNat
    <3>2. PICK y : y = b[k]
      OBVIOUS
    <3>3. y \in Nat
      BY <3>1, <3>2 DEF Byte
    <3>4. (y + 1) % 256 \in 0..255
      BY <3>3
    <3>5. x \in Byte
      BY <3>2, <3>4, <1>4 DEF Byte
    <3> QED
      BY <3>5, <2>1, <2>2, <1>5, ExceptSeq DEF Bytes
  <2>3. CASE k \notin 1..Len(b)
    <3>1. DOMAIN b = 1..Len(b) /\ b = [i \in 1..Len(b) |-> b[i]]
      BY <2>1, LenProperties
    <3>2. c = b
      BY <3>1, <2>3, <1>5
    <3> QED
      BY <3>2, <1>3
  <2> QED
    BY <2>2, <2>3
<1>8. AirOK'
  <2>1. [air[1] EXCEPT !.bytes = c] \in SentBytes
    BY <1>3, <1>7 DEF SentBytes
  <2> QED
    BY <2>1, <1>3, <1>6, ExceptSeq DEF AirOK
<1>9. RxOK'
  BY <1>2, KeepRx DEF TypeInv
<1> QED
  BY <1>2, <1>8, <1>9, LineKeeps

-----------------------------------------------------------------------------
(* So every step does.                                                     *)
LEMMA TypeInit ==
  ASSUME BusInit, RightUse
  PROVE  TypeInv
<1>1. setup \in DOMAIN Setups
  BY DEF BusInit
<1>2. node = [n \in Nodes |-> IF n = Client THEN Idle(NoReq) ELSE Poll]
  BY DEF BusInit
<1>3. NodeOK(Client, Idle(NoReq))
  BY NoReqIs, ClientRecords
<1>4. \A n : n # Client => NodeOK(n, Poll)
  BY PollIs DEF NodeOK
<1>5. \A n \in Nodes : NodeOK(n, node[n])
  BY <1>2, <1>3, <1>4
<1>6. NodesOK
  BY <1>2, <1>5 DEF NodesOK
<1>7. RxOK
  BY EmptyIsBytes DEF BusInit, RxOK
<1>8. AirOK
  BY DEF BusInit, AirOK
<1>9. CountsOK
  BY DEF BusInit, CountsOK, RightUse, Byte
<1>10. BroadcastsUnanswered
  BY DEF BusInit, BroadcastsUnanswered
<1> QED
  BY <1>1, <1>6, <1>7, <1>8, <1>9, <1>10 DEF TypeInv

LEMMA TypeStep ==
  ASSUME CrcIsWord, TypeInv, setup' = setup, BusStep
  PROVE  TypeInv'
<1>1. CASE \E op \in Ops : Call(op) \/ CallRefused(op)
  BY <1>1, TypeCall, TypeCallRefused
<1>2. CASE \E op \in Ops, k \in Places : CallFails(op, k)
  BY <1>2, TypeCallFails
<1>3. CASE ClientStep \/ ClientTimeout
  BY <1>3, TypeAskRaw, TypeClientReceive, TypeClientFooter, TypeClientTimeout
  DEF ClientStep
<1>4. CASE \E s \in Servers : ServerStep(s)
  <2>1. PICK s \in Servers : ServerStep(s)
    BY <1>4
  <2>2. \/ ServerReceive(s) \/ ServerDiscard(s) \/ ServerIgnore(s)
        \/ ServerTimeout(s) \/ \E cb, cbRead : Serve(s, cb, cbRead)
    BY <2>1 DEF ServerStep
  <2> QED
    BY <2>2, TypeServerReceive, TypeServerDiscard, TypeServerIgnore,
       TypeServerTimeout, TypeServe
<1>5. CASE Line
  BY <1>5, TypeDeliver, TypeLose, TypePause, TypeCorrupt DEF Line
<1> QED
  BY <1>1, <1>2, <1>3, <1>4, <1>5 DEF BusStep

LEMMA TypeStutter ==
  ASSUME TypeInv, UNCHANGED <<busVars, setup>>
  PROVE  TypeInv'
<1>1. /\ setup' = setup /\ node' = node /\ rx' = rx /\ air' = air
      /\ current_tid' = current_tid /\ calls' = calls /\ sent' = sent
  BY DEF busVars
<1> QED
  BY <1>1, KeepNodes, KeepRx, KeepAir, KeepCounts, KeepSent, Put DEF TypeInv

LEMMA AreBytes ==
  ASSUME NEW q \in Bytes
  PROVE  OnlyBytes(q)
<1>1. \A i \in DOMAIN q : q[i] \in Byte
  BY LenIsNat
<1>2. \A x \in Byte : x \in 0..255
  BY DEF Byte
<1> QED
  BY <1>1, <1>2 DEF Range, OnlyBytes

LEMMA TypeInvGives ==
  ASSUME TypeInv
  PROVE  BusTypeOK /\ BroadcastsUnanswered
<1>1. ASSUME NEW n \in Nodes
      PROVE  /\ node[n].stage \in {"idle", "sent", "first", "header", "fixed",
                                   "data", "footer"}
             /\ OnlyBytes(rx[n]) /\ OnlyBytes(node[n].buf)
  BY <1>1, AreBytes DEF TypeInv, NodesOK, NodeOK, SoFar, Stages, RxOK
<1>2. ASSUME NEW i \in DOMAIN air
      PROVE  OnlyBytes(air[i].bytes)
  <2>1. air[i] \in SentBytes
    BY <1>2 DEF TypeInv, AirOK
  <2> QED
    BY <2>1, AreBytes DEF SentBytes
<1>3. current_tid \in Nat /\ current_tid <= 65535
  BY DEF TypeInv, CountsOK, Word
<1>4. BroadcastsUnanswered
  BY DEF TypeInv
<1> QED
  BY <1>1, <1>2, <1>3, <1>4 DEF BusTypeOK

\* Whatever the line does, every node is between two recv() calls, and a server
\* that serves a broadcast sends nothing but a refusal.
THEOREM LineTypes ==
  ASSUME CrcIsWord
  PROVE  BusSpec /\ RightUse => [](BusTypeOK /\ BroadcastsUnanswered)
<1>1. BusInit /\ RightUse => TypeInv
  BY TypeInit
<1>2. TypeInv /\ [BusNext]_<<busVars, setup>> => TypeInv'
  BY TypeStep, TypeStutter DEF BusNext
<1>3. TypeInv => BusTypeOK /\ BroadcastsUnanswered
  BY TypeInvGives
<1> QED
  BY <1>1, <1>2, <1>3, PTL DEF BusSpec

-----------------------------------------------------------------------------
\* What has been read of a message after k bytes, and what is to come.
Prefix(m, k) == SubSeq(m, 1, k)
Suffix(m, k) == SubSeq(m, k + 1, Len(m))

LEMMA SameBytes ==
  ASSUME NEW s \in Bytes, NEW t \in Bytes, Len(s) = Len(t),
         \A i \in 1..Len(s) : s[i] = t[i]
  PROVE  s = t
BY DEF Bytes

LEMMA Parts ==
  ASSUME NEW m \in Bytes, NEW k \in Nat, k <= Len(m)
  PROVE  /\ Prefix(m, k) \in Bytes /\ Len(Prefix(m, k)) = k
         /\ \A i \in 1..k : Prefix(m, k)[i] = m[i]
         /\ Suffix(m, k) \in Bytes /\ Len(Suffix(m, k)) = Len(m) - k
         /\ \A i \in 1..(Len(m) - k) : Suffix(m, k)[i] = m[k + i]
<1>1. PICK n : n = Len(m)
  OBVIOUS
<1>2. n \in Nat /\ k <= n
  BY <1>1, LenIsNat
<1>3. /\ 1 \in Nat /\ 1 >= 1 /\ k \in Int /\ k <= n
      /\ k + 1 \in Nat /\ k + 1 >= 1 /\ n \in Int /\ n <= n
      /\ (IF 1 <= k THEN k - 1 + 1 ELSE 0) = k
      /\ (IF k + 1 <= n THEN n - (k + 1) + 1 ELSE 0) = n - k
      /\ k - 1 + 1 = k /\ n - (k + 1) + 1 = n - k
  BY <1>2
<1>4. PICK p : p = SubSeq(m, 1, k)
  OBVIOUS
<1>5. p \in Bytes /\ Len(p) = k /\ \A i \in 1..k : p[i] = m[1 + i - 1]
  BY <1>1, <1>3, <1>4, PartOfBytes
<1>6. PICK s : s = SubSeq(m, k + 1, n)
  OBVIOUS
<1>7. /\ s \in Bytes /\ Len(s) = n - k
      /\ \A i \in 1..(n - k) : s[i] = m[(k + 1) + i - 1]
  <2>1. /\ s \in Bytes /\ Len(s) = IF k + 1 <= n THEN n - (k + 1) + 1 ELSE 0
        /\ \A i \in 1..(n - (k + 1) + 1) : s[i] = m[(k + 1) + i - 1]
    BY <1>1, <1>3, <1>6, PartOfBytes
  <2> QED
    BY <2>1, <1>3
<1>8. \A i \in 1..k : p[i] = m[i]
  BY <1>3, <1>5
<1>9. \A i \in 1..(n - k) : s[i] = m[k + i]
  BY <1>2, <1>3, <1>7
<1> QED
  BY <1>1, <1>4, <1>5, <1>6, <1>7, <1>8, <1>9 DEF Prefix, Suffix

\* One recv() moves the boundary between the two.
LEMMA Cut ==
  ASSUME NEW m \in Bytes, NEW k \in Nat, NEW w \in Nat, k + w <= Len(m)
  PROVE  /\ Prefix(m, k) \o SubSeq(Suffix(m, k), 1, w) = Prefix(m, k + w)
         /\ SubSeq(Suffix(m, k), w + 1, Len(Suffix(m, k))) = Suffix(m, k + w)
         /\ Len(Suffix(m, k)) >= w /\ Suffix(m, k) \in Bytes
<1>1. PICK n : n = Len(m)
  OBVIOUS
<1>2. n \in Nat /\ k <= n /\ k + w \in Nat /\ k + w <= n /\ w <= n - k
      /\ n - k \in Nat
  BY <1>1, LenIsNat
<1>3. PICK p, s, a, z : /\ p = Prefix(m, k) /\ s = Suffix(m, k)
                        /\ a = Prefix(m, k + w) /\ z = Suffix(m, k + w)
  OBVIOUS
<1>4. /\ p \in Bytes /\ Len(p) = k /\ \A i \in 1..k : p[i] = m[i]
      /\ s \in Bytes /\ Len(s) = n - k /\ \A i \in 1..(n - k) : s[i] = m[k + i]
  BY <1>1, <1>2, <1>3, Parts
<1>5. /\ a \in Bytes /\ Len(a) = k + w /\ \A i \in 1..(k + w) : a[i] = m[i]
      /\ z \in Bytes /\ Len(z) = n - (k + w)
      /\ \A i \in 1..(n - (k + w)) : z[i] = m[(k + w) + i]
  BY <1>1, <1>2, <1>3, Parts
<1>6. PICK b, l : b = Prefix(s, w) /\ l = Suffix(s, w)
  OBVIOUS
<1>7. /\ b \in Bytes /\ Len(b) = w /\ \A i \in 1..w : b[i] = s[i]
      /\ l \in Bytes /\ Len(l) = (n - k) - w
      /\ \A i \in 1..((n - k) - w) : l[i] = s[w + i]
  <2>1. w <= Len(s)
    BY <1>2, <1>4
  <2>2. /\ b \in Bytes /\ Len(b) = w /\ \A i \in 1..w : b[i] = s[i]
        /\ l \in Bytes /\ Len(l) = Len(s) - w
        /\ \A i \in 1..(Len(s) - w) : l[i] = s[w + i]
    BY <2>1, <1>4, <1>6, Parts
  <2> QED
    BY <2>2, <1>4
<1>8. p \o b = a
  <2>1. PICK c : c = p \o b
    OBVIOUS
  <2>2. IsCat(c, p, b)
    BY <2>1, <1>4, <1>7, CatIs
  <2>3. /\ c \in Bytes /\ Len(c) = k + w /\ \A i \in 1..k : c[i] = p[i]
        /\ \A i \in 1..w : c[k + i] = b[i]
    BY <2>2, <1>4, <1>7 DEF IsCat
  <2>4. ASSUME NEW i \in 1..(k + w)
        PROVE  c[i] = a[i]
    <3>1. CASE i <= k
      BY <3>1, <2>3, <1>2, <1>4, <1>5
    <3>2. CASE i > k
      <4>1. PICK j : j = i - k
        OBVIOUS
      <4>2. j \in 1..w /\ j \in 1..(n - k) /\ k + j = i
        BY <3>2, <4>1, <1>2
      <4>3. c[i] = b[j] /\ b[j] = s[j] /\ s[j] = m[i]
        BY <4>2, <2>3, <1>4, <1>7
      <4> QED
        BY <4>3, <1>5
    <3> QED
      BY <3>1, <3>2, <1>2
  <2>5. c = a
    BY <2>3, <2>4, <1>5, SameBytes
  <2> QED
    BY <2>1, <2>5
<1>9. l = z
  <2>1. (n - k) - w = n - (k + w)
    BY <1>2
  <2>2. ASSUME NEW i \in 1..(n - (k + w))
        PROVE  l[i] = z[i]
    <3>1. i \in 1..((n - k) - w) /\ w + i \in 1..(n - k)
          /\ k + (w + i) = (k + w) + i
      BY <1>2
    <3>2. l[i] = s[w + i] /\ s[w + i] = m[k + (w + i)]
      BY <3>1, <1>4, <1>7
    <3>3. z[i] = m[(k + w) + i]
      BY <1>5
    <3> QED
      BY <3>1, <3>2, <3>3
  <2>3. Len(l) = Len(z)
    BY <2>1, <1>5, <1>7
  <2>4. \A i \in 1..Len(l) : l[i] = z[i]
    BY <2>1, <2>2, <1>7
  <2> QED
    BY <2>3, <2>4, <1>5, <1>7, SameBytes
<1>10. Len(s) >= w
  BY <1>2, <1>4
<1> QED
  BY <1>3, <1>4, <1>6, <1>8, <1>9, <1>10 DEF Prefix, Suffix

-----------------------------------------------------------------------------
(* A node that reads one message, recv() by recv().                        *)

\* The record of a node that has read b of the message it waits for with x.
Rec(stage, x, b, sh, ign) ==
  [stage |-> stage, kind |-> x.kind, buf |-> b, req |-> x.req, shape |-> sh,
   ignored |-> ign]

At(stage, x, m, sh, ign, k) ==
  <<Rec(stage, x, Prefix(m, k), sh, ign), Suffix(m, k)>>

\* Where a node is that reads the message m and nothing else, from the state x
\* in which it waits for it: before one of its recv() calls.
Footer(x, m, sh, ign) == At("footer", x, m, sh, ign, Len(m) - FooterLen)
Points(x, m, sh, ign) ==
  {<<x, m>>, At("header", x, m, Fixed(0), FALSE, 1),
   At("fixed", x, m, sh, ign, HeaderLen), Footer(x, m, sh, ign)}
  \cup (IF sh.counted THEN {At("data", x, m, sh, ign, HeaderLen + sh.fixed)}
        ELSE {})

\* The message m is as long as the shape sh says.
Fits(m, sh) ==
  /\ m \in Bytes /\ IsShape(sh) /\ HeaderLen + sh.fixed + FooterLen <= Len(m)
  /\ Len(m) = HeaderLen + sh.fixed
                + (IF sh.counted THEN m[HeaderLen + sh.fixed] ELSE 0)
                + FooterLen

IsWaiting(x) == \E kind, req : x = Waiting(kind, req)

\* The recv() call after this one.
NextRec(g, sh, ign) ==
  IF g.stage = "header" THEN [Further(g, sh) EXCEPT !.ignored = ign]
  ELSE Further(g, g.shape)

Goes(x, m, sh, ign, r, q) ==
  /\ q \in Bytes /\ Want(r) \in Nat /\ Want(r) <= Len(q)
  /\ r.kind = x.kind /\ r.req = x.req
  /\ r.stage \in {"first", "header", "fixed", "data", "footer"}
  /\ r.stage = "header" =>
       Grow(r, q) = Rec("header", x, Prefix(m, HeaderLen), Fixed(0), FALSE)
  /\ r.stage = "footer" =>
       /\ <<r, q>> = Footer(x, m, sh, ign) /\ r.ignored = ign
       /\ Grow(r, q) = Rec("footer", x, m, sh, ign) /\ Rest(r, q) = <<>>
  /\ r.stage # "footer" =>
       <<NextRec(Grow(r, q), sh, ign), Rest(r, q)>> \in Points(x, m, sh, ign)
  /\ Grow(r, q).stage = r.stage

LEMMA GrowRec ==
  ASSUME NEW r, IsRecord(r), NEW m \in Bytes, NEW k \in Nat,
         r.buf = Prefix(m, k), Want(r) \in Nat, k + Want(r) <= Len(m)
  PROVE  /\ Grow(r, Suffix(m, k)) =
              [stage |-> r.stage, kind |-> r.kind,
               buf |-> Prefix(m, k + Want(r)), req |-> r.req,
               shape |-> r.shape, ignored |-> r.ignored]
         /\ Rest(r, Suffix(m, k)) = Suffix(m, k + Want(r))
         /\ Want(r) <= Len(Suffix(m, k)) /\ Suffix(m, k) \in Bytes
<1>1. PICK w, q, b : w = Want(r) /\ q = Suffix(m, k) /\ b = Prefix(m, k + w)
  OBVIOUS
<1>2. /\ Prefix(m, k) \o SubSeq(q, 1, w) = b
      /\ SubSeq(q, w + 1, Len(q)) = Suffix(m, k + w)
      /\ Len(q) >= w /\ q \in Bytes
  BY <1>1, Cut
<1>3. Grow(r, q) = [r EXCEPT !.buf = b]
  BY <1>1, <1>2 DEF Grow, IsRecord
<1>4. Grow(r, q) = [stage |-> r.stage, kind |-> r.kind, buf |-> b,
                    req |-> r.req, shape |-> r.shape, ignored |-> r.ignored]
  BY <1>3 DEF IsRecord
<1>5. w <= Len(q)
  <2>1. Len(q) \in Nat /\ w \in Nat
    BY <1>1, <1>2, LenIsNat
  <2> QED
    BY <2>1, <1>2
<1> QED
  BY <1>1, <1>2, <1>4, <1>5 DEF Rest

LEMMA AllAhead ==
  ASSUME NEW m \in Bytes
  PROVE  /\ Prefix(m, 0) = <<>> /\ Suffix(m, 0) = m
         /\ Prefix(m, Len(m)) = m /\ Suffix(m, Len(m)) = <<>>
<1>1. Len(m) \in Nat /\ m \in Seq(Byte)
  BY LenIsNat
<1>2. Prefix(m, 0) = <<>>
  BY SubSeqEmpty DEF Prefix
<1>3. Suffix(m, 0) = m /\ Prefix(m, Len(m)) = m
  BY <1>1, SubSeqFull DEF Suffix, Prefix
<1>4. Suffix(m, Len(m)) = <<>>
  <2>1. Len(m) + 1 \in Int /\ Len(m) \in Int /\ Len(m) < Len(m) + 1
    BY <1>1
  <2> QED
    BY <2>1, SubSeqEmpty DEF Suffix
<1> QED
  BY <1>2, <1>3, <1>4

LEMMA NextRecIs ==
  ASSUME NEW g, IsRecord(g), NEW sh, NEW ign
  PROVE  /\ g.stage = "first" =>
              NextRec(g, sh, ign) = Rec("header", g, g.buf, g.shape, g.ignored)
         /\ g.stage = "header" =>
              NextRec(g, sh, ign) = Rec("fixed", g, g.buf, sh, ign)
         /\ g.stage = "fixed" =>
              NextRec(g, sh, ign) =
                Rec(IF g.shape.counted THEN "data" ELSE "footer",
                    g, g.buf, g.shape, g.ignored)
         /\ g.stage = "data" =>
              NextRec(g, sh, ign) = Rec("footer", g, g.buf, g.shape, g.ignored)
<1>1. ASSUME g.stage = "first"
      PROVE  NextRec(g, sh, ign) = Rec("header", g, g.buf, g.shape, g.ignored)
  <2>1. NextRec(g, sh, ign) = [g EXCEPT !.stage = "header"]
    BY <1>1 DEF NextRec, Further
  <2> QED
    BY <2>1 DEF IsRecord, Rec
<1>2. ASSUME g.stage = "header"
      PROVE  NextRec(g, sh, ign) = Rec("fixed", g, g.buf, sh, ign)
  <2>1. PICK h, k, f : /\ h = [g EXCEPT !.stage = "fixed"]
                       /\ k = [g EXCEPT !.stage = "fixed", !.shape = sh]
                       /\ f = Further(g, sh)
    OBVIOUS
  <2>2. f = k
    BY <1>2, <2>1 DEF Further
  <2>3. k = [h EXCEPT !.shape = sh]
    BY <2>1
  <2>4. h = Rec("fixed", g, g.buf, g.shape, g.ignored)
    BY <2>1 DEF IsRecord, Rec
  <2>5. k = Rec("fixed", g, g.buf, sh, g.ignored)
    BY <2>3, <2>4 DEF Rec
  <2>6. [k EXCEPT !.ignored = ign] = Rec("fixed", g, g.buf, sh, ign)
    BY <2>5 DEF Rec
  <2>7. NextRec(g, sh, ign) = [f EXCEPT !.ignored = ign]
    BY <1>2, <2>1 DEF NextRec
  <2> QED
    BY <2>2, <2>6, <2>7
<1>3. ASSUME g.stage = "fixed"
      PROVE  NextRec(g, sh, ign) =
               Rec(IF g.shape.counted THEN "data" ELSE "footer",
                   g, g.buf, g.shape, g.ignored)
  <2>1. PICK stage : stage = IF g.shape.counted THEN "data" ELSE "footer"
    OBVIOUS
  <2>2. NextRec(g, sh, ign) = [g EXCEPT !.stage = stage]
    BY <1>3, <2>1 DEF NextRec, Further
  <2>3. NextRec(g, sh, ign) = Rec(stage, g, g.buf, g.shape, g.ignored)
    BY <2>2 DEF IsRecord, Rec
  <2> QED
    BY <2>1, <2>3
<1>4. ASSUME g.stage = "data"
      PROVE  NextRec(g, sh, ign) = Rec("footer", g, g.buf, g.shape, g.ignored)
  <2>1. NextRec(g, sh, ign) = [g EXCEPT !.stage = "footer"]
    BY <1>4 DEF NextRec, Further
  <2> QED
    BY <2>1 DEF IsRecord, Rec
<1> QED
  BY <1>1, <1>2, <1>3, <1>4

LEMMA RecIs ==
  /\ \A stage, x, b, sh, ign :
       /\ IsRecord(Rec(stage, x, b, sh, ign))
       /\ Rec(stage, x, b, sh, ign).stage = stage
       /\ Rec(stage, x, b, sh, ign).kind = x.kind
       /\ Rec(stage, x, b, sh, ign).req = x.req
       /\ Rec(stage, x, b, sh, ign).buf = b
       /\ Rec(stage, x, b, sh, ign).shape = sh
       /\ Rec(stage, x, b, sh, ign).ignored = ign
BY DEF Rec, IsRecord

-----------------------------------------------------------------------------
(* From each of these points the next recv() leads to another, up to the   *)
(* last.                                                                   *)
LEMMA RecOf ==
  \A g, x : g.kind = x.kind /\ g.req = x.req =>
    \A stage, b, sh, ign : Rec(stage, g, b, sh, ign) = Rec(stage, x, b, sh, ign)
BY DEF Rec

\* One recv() of a node that has read k bytes of m.
LEMMA GrowAt ==
  ASSUME NEW m \in Bytes, NEW k \in Nat, NEW r, IsRecord(r),
         r.buf = Prefix(m, k), NEW w \in Nat, Want(r) = w, k + w <= Len(m)
  PROVE  /\ Grow(r, Suffix(m, k)) =
              Rec(r.stage, r, Prefix(m, k + w), r.shape, r.ignored)
         /\ Rest(r, Suffix(m, k)) = Suffix(m, k + w)
         /\ Want(r) \in Nat /\ Want(r) <= Len(Suffix(m, k))
         /\ Suffix(m, k) \in Bytes
BY GrowRec DEF Rec

Recv(m, k, r, w) ==
  /\ Grow(r, Suffix(m, k)) =
       Rec(r.stage, r, Prefix(m, k + w), r.shape, r.ignored)
  /\ Rest(r, Suffix(m, k)) = Suffix(m, k + w)
  /\ Want(r) \in Nat /\ Want(r) <= Len(Suffix(m, k))
  /\ Suffix(m, k) \in Bytes

LEMMA RecvIs ==
  ASSUME NEW m \in Bytes, NEW k \in Nat, NEW r, IsRecord(r),
         r.buf = Prefix(m, k), NEW w \in Nat, Want(r) = w, k + w <= Len(m)
  PROVE  Recv(m, k, r, w)
BY GrowAt DEF Recv

LEMMA WaitingRec ==
  ASSUME NEW x, IsWaiting(x)
  PROVE  /\ x = Rec("first", x, <<>>, Fixed(0), FALSE) /\ IsRecord(x)
         /\ x.stage = "first" /\ x.buf = <<>> /\ x.shape = Fixed(0)
         /\ x.ignored = FALSE
BY DEF IsWaiting, Waiting, Rec, IsRecord

LEMMA FromFirst ==
  ASSUME NEW x, IsWaiting(x), NEW m, NEW sh, Fits(m, sh), NEW ign
  PROVE  Goes(x, m, sh, ign, x, m)
<1>1. /\ x.stage = "first" /\ x.buf = <<>> /\ x.shape = Fixed(0)
      /\ x.ignored = FALSE /\ IsRecord(x)
  BY WaitingRec
<1>2. m \in Bytes /\ Len(m) >= 1 /\ Len(m) \in Nat
  BY LengthsOf, LenIsNat DEF Fits, IsShape
<1>3. x.buf = Prefix(m, 0) /\ m = Suffix(m, 0)
  BY <1>1, <1>2, AllAhead
<1>4. Want(x) = 1
  BY <1>1 DEF Want
<1>5. 0 \in Nat /\ 1 \in Nat /\ 0 + 1 <= Len(m) /\ 0 + 1 = 1
  BY <1>2
<1>6. PICK g, l : g = Grow(x, m) /\ l = Rest(x, m)
  OBVIOUS
<1>7. /\ g = Rec("first", x, Prefix(m, 1), Fixed(0), FALSE)
      /\ l = Suffix(m, 1) /\ Want(x) \in Nat /\ Want(x) <= Len(m)
  <2>1. /\ Grow(x, Suffix(m, 0)) =
             Rec(x.stage, x, Prefix(m, 0 + 1), x.shape, x.ignored)
        /\ Rest(x, Suffix(m, 0)) = Suffix(m, 0 + 1)
        /\ Want(x) \in Nat /\ Want(x) <= Len(Suffix(m, 0))
    BY <1>1, <1>2, <1>3, <1>4, <1>5, GrowAt
  <2> QED
    BY <2>1, <1>1, <1>3, <1>5, <1>6
<1>8. /\ IsRecord(g) /\ g.stage = "first" /\ g.kind = x.kind /\ g.req = x.req
      /\ g.buf = Prefix(m, 1) /\ g.shape = Fixed(0) /\ g.ignored = FALSE
  BY <1>7 DEF Rec, IsRecord
<1>9. NextRec(g, sh, ign) = Rec("header", g, Prefix(m, 1), Fixed(0), FALSE)
  BY <1>8, NextRecIs
<1>10. NextRec(g, sh, ign) = Rec("header", x, Prefix(m, 1), Fixed(0), FALSE)
  BY <1>8, <1>9 DEF Rec
<1>11. <<NextRec(g, sh, ign), l>> \in Points(x, m, sh, ign)
  BY <1>7, <1>10 DEF Points, At
<1> QED
  BY <1>1, <1>2, <1>6, <1>7, <1>8, <1>11 DEF Goes

LEMMA FromHeader ==
  ASSUME NEW x, IsWaiting(x), NEW m, NEW sh, Fits(m, sh), NEW ign,
         NEW r, r = Rec("header", x, Prefix(m, 1), Fixed(0), FALSE)
  PROVE  Goes(x, m, sh, ign, r, Suffix(m, 1))
<1>1. /\ r.stage = "header" /\ r.buf = Prefix(m, 1) /\ r.shape = Fixed(0)
      /\ r.ignored = FALSE /\ IsRecord(r) /\ r.kind = x.kind /\ r.req = x.req
  BY DEF Rec, IsRecord
<1>2. PICK h : h = HeaderLen
  OBVIOUS
<1>3. m \in Bytes /\ Len(m) >= h /\ Len(m) \in Nat /\ h \in Nat /\ h >= 2
  BY <1>2, LengthsOf, LenIsNat DEF Fits, IsShape
<1>4. Want(r) = h - 1
  BY <1>1, <1>2 DEF Want
<1>5. 1 \in Nat /\ h - 1 \in Nat /\ 1 + (h - 1) <= Len(m) /\ 1 + (h - 1) = h
  BY <1>3
<1>6. PICK q : q = Suffix(m, 1)
  OBVIOUS
<1>7. PICK g, l : g = Grow(r, q) /\ l = Rest(r, q)
  OBVIOUS
<1>8. /\ g = Rec("header", r, Prefix(m, h), Fixed(0), FALSE)
      /\ l = Suffix(m, h) /\ Want(r) \in Nat /\ Want(r) <= Len(q)
      /\ q \in Bytes
  <2>1. PICK k, w : k = 1 /\ w = h - 1
    OBVIOUS
  <2>2. w \in Nat /\ k \in Nat /\ k + w <= Len(m) /\ k + w = h
    BY <2>1, <1>5
  <2>4. /\ m \in Bytes /\ IsRecord(r) /\ r.buf = Prefix(m, k) /\ Want(r) = w
    BY <2>1, <1>1, <1>3, <1>4
  <2>3. /\ Grow(r, Suffix(m, k)) =
             Rec(r.stage, r, Prefix(m, k + w), r.shape, r.ignored)
        /\ Rest(r, Suffix(m, k)) = Suffix(m, k + w)
        /\ Want(r) \in Nat /\ Want(r) <= Len(Suffix(m, k))
        /\ Suffix(m, k) \in Bytes
    <3>1. Recv(m, k, r, w)
      BY <2>2, <2>4, RecvIs
    <3> QED
      BY <3>1 DEF Recv
  <2> QED
    BY <2>1, <2>2, <2>3, <1>1, <1>6, <1>7
<1>9. g = Rec("header", x, Prefix(m, h), Fixed(0), FALSE)
  BY <1>1, <1>8 DEF Rec
<1>10. /\ IsRecord(g) /\ g.stage = "header" /\ g.kind = x.kind
       /\ g.req = x.req /\ g.buf = Prefix(m, h)
  BY <1>9 DEF Rec, IsRecord
<1>11. NextRec(g, sh, ign) = Rec("fixed", g, Prefix(m, h), sh, ign)
  BY <1>10, NextRecIs
<1>12. NextRec(g, sh, ign) = Rec("fixed", x, Prefix(m, h), sh, ign)
  BY <1>10, <1>11 DEF Rec
<1>13. <<NextRec(g, sh, ign), l>> \in Points(x, m, sh, ign)
  BY <1>2, <1>8, <1>12 DEF Points, At
<1> QED
  BY <1>1, <1>2, <1>6, <1>7, <1>8, <1>9, <1>10, <1>13 DEF Goes

\* The arithmetic of the two parts behind the header.
LEMMA FitsIs ==
  ASSUME NEW m, NEW sh, Fits(m, sh)
  PROVE  \E h, f, e \in Nat :
           /\ h = HeaderLen /\ f = sh.fixed /\ e = Len(m) - FooterLen
           /\ h >= 2 /\ h + f \in Nat /\ h + f <= e /\ e <= Len(m)
           /\ e + FooterLen = Len(m)
           /\ Len(m) \in Nat /\ m \in Bytes /\ FooterLen \in Nat
           /\ sh.counted => m[h + f] \in Nat /\ e = (h + f) + m[h + f]
           /\ ~sh.counted => e = h + f
<1>1. PICK h, f, n, t : /\ h = HeaderLen /\ f = sh.fixed /\ n = Len(m)
                        /\ t = FooterLen
  OBVIOUS
<1>2. /\ h \in Nat /\ h >= 2 /\ t \in Nat /\ f \in Nat /\ n \in Nat
      /\ m \in Bytes /\ h + f + t <= n
  BY <1>1, LengthsOf, LenIsNat DEF Fits, IsShape
<1>3. PICK e : e = n - t
  OBVIOUS
<1>4. e \in Nat /\ h + f <= e /\ e <= n /\ e + t = n /\ h + f \in Nat
  BY <1>2, <1>3
<1>5. ASSUME ~sh.counted
      PROVE  e = h + f
  <2>1. n = h + f + 0 + t
    BY <1>1, <1>5 DEF Fits
  <2> QED
    BY <2>1, <1>2, <1>3
<1>6. ASSUME sh.counted
      PROVE  m[h + f] \in Nat /\ e = (h + f) + m[h + f]
  <2>1. PICK c : c = m[h + f]
    OBVIOUS
  <2>2. n = h + f + c + t
    BY <1>1, <1>6, <2>1 DEF Fits
  <2>3. h + f \in 1..n
    BY <1>2, <1>4
  <2>4. c \in Byte
    BY <2>1, <2>3, <1>1, <1>2, LenIsNat
  <2>5. c \in Nat
    BY <2>4 DEF Byte
  <2>6. e = (h + f) + c
    BY <2>2, <2>5, <1>2, <1>3
  <2> QED
    BY <2>1, <2>5, <2>6
<1> QED
  BY <1>1, <1>2, <1>3, <1>4, <1>5, <1>6

LEMMA FromFixed ==
  ASSUME NEW x, IsWaiting(x), NEW m, NEW sh, Fits(m, sh), NEW ign,
         NEW r, r = Rec("fixed", x, Prefix(m, HeaderLen), sh, ign)
  PROVE  Goes(x, m, sh, ign, r, Suffix(m, HeaderLen))
<1>1. PICK h, f, e \in Nat :
           /\ h = HeaderLen /\ f = sh.fixed /\ e = Len(m) - FooterLen
           /\ h >= 2 /\ h + f \in Nat /\ h + f <= e /\ e <= Len(m)
           /\ e + FooterLen = Len(m)
           /\ Len(m) \in Nat /\ m \in Bytes /\ FooterLen \in Nat
           /\ sh.counted => m[h + f] \in Nat /\ e = (h + f) + m[h + f]
           /\ ~sh.counted => e = h + f
  BY FitsIs
<1>2. /\ r.stage = "fixed" /\ r.buf = Prefix(m, h) /\ r.shape = sh
      /\ r.ignored = ign /\ IsRecord(r) /\ r.kind = x.kind /\ r.req = x.req
  BY <1>1 DEF Rec, IsRecord
<1>3. Want(r) = f
  BY <1>1, <1>2 DEF Want
<1>4. h + f <= Len(m)
  BY <1>1
<1>5. PICK q : q = Suffix(m, h)
  OBVIOUS
<1>6. PICK g, l : g = Grow(r, q) /\ l = Rest(r, q)
  OBVIOUS
<1>7. /\ g = Rec("fixed", r, Prefix(m, h + f), sh, ign)
      /\ l = Suffix(m, h + f) /\ Want(r) \in Nat /\ Want(r) <= Len(q)
      /\ q \in Bytes
  <2>1. /\ Grow(r, Suffix(m, h)) =
             Rec(r.stage, r, Prefix(m, h + f), r.shape, r.ignored)
        /\ Rest(r, Suffix(m, h)) = Suffix(m, h + f)
        /\ Want(r) \in Nat /\ Want(r) <= Len(Suffix(m, h))
        /\ Suffix(m, h) \in Bytes
    BY <1>1, <1>2, <1>3, <1>4, GrowAt
  <2> QED
    BY <2>1, <1>2, <1>5, <1>6
<1>8. /\ IsRecord(g) /\ g.stage = "fixed" /\ g.kind = x.kind
      /\ g.req = x.req /\ g.buf = Prefix(m, h + f) /\ g.shape = sh
      /\ g.ignored = ign
  BY <1>2, <1>7 DEF Rec, IsRecord
<1>9. PICK stage : stage = IF sh.counted THEN "data" ELSE "footer"
  OBVIOUS
<1>10. NextRec(g, sh, ign) = Rec(stage, x, Prefix(m, h + f), sh, ign)
  <2>1. NextRec(g, sh, ign) = Rec(stage, g, Prefix(m, h + f), sh, ign)
    BY <1>8, <1>9, NextRecIs
  <2> QED
    BY <2>1, <1>8 DEF Rec
<1>11. <<NextRec(g, sh, ign), l>> = At(stage, x, m, sh, ign, h + f)
  BY <1>7, <1>10 DEF At
<1>12. At(stage, x, m, sh, ign, h + f) \in Points(x, m, sh, ign)
  <2>1. CASE sh.counted
    BY <2>1, <1>1, <1>9 DEF Points
  <2>2. CASE ~sh.counted
    <3>1. At("footer", x, m, sh, ign, h + f) = Footer(x, m, sh, ign)
      BY <2>2, <1>1 DEF Footer
    <3> QED
      BY <3>1, <2>2, <1>9 DEF Points
  <2> QED
    BY <2>1, <2>2
<1>13. <<NextRec(g, sh, ign), l>> \in Points(x, m, sh, ign)
  BY <1>11, <1>12
<1> QED
  BY <1>1, <1>2, <1>5, <1>6, <1>7, <1>8, <1>13 DEF Goes

LEMMA FromData ==
  ASSUME NEW x, IsWaiting(x), NEW m, NEW sh, Fits(m, sh), NEW ign, sh.counted,
         NEW r, r = Rec("data", x, Prefix(m, HeaderLen + sh.fixed), sh, ign)
  PROVE  Goes(x, m, sh, ign, r, Suffix(m, HeaderLen + sh.fixed))
<1>1. PICK h, f, e \in Nat :
           /\ h = HeaderLen /\ f = sh.fixed /\ e = Len(m) - FooterLen
           /\ h >= 2 /\ h + f \in Nat /\ h + f <= e /\ e <= Len(m)
           /\ e + FooterLen = Len(m)
           /\ Len(m) \in Nat /\ m \in Bytes /\ FooterLen \in Nat
           /\ sh.counted => m[h + f] \in Nat /\ e = (h + f) + m[h + f]
           /\ ~sh.counted => e = h + f
  BY FitsIs
<1>2. PICK k : k = h + f
  OBVIOUS
<1>3. PICK w : w = m[k]
  OBVIOUS
<1>4. k \in Nat /\ w \in Nat /\ e = k + w /\ k >= 1 /\ k <= Len(m)
  <2>1. w \in Nat /\ e = k + w
    BY <1>1, <1>2, <1>3
  <2>2. k \in Nat /\ k >= 1
    <3>1. h \in Nat /\ f \in Nat /\ h >= 2
      BY <1>1
    <3> QED
      BY <3>1, <1>2
  <2>3. k <= Len(m)
    <3>1. k <= e /\ e <= Len(m) /\ Len(m) \in Nat
      BY <1>1, <1>2
    <3> QED
      BY <3>1, <2>2
  <2> QED
    BY <2>1, <2>2, <2>3
<1>5. /\ r.stage = "data" /\ r.buf = Prefix(m, k) /\ r.shape = sh
      /\ r.ignored = ign /\ IsRecord(r) /\ r.kind = x.kind /\ r.req = x.req
  BY <1>1, <1>2 DEF Rec, IsRecord
<1>6. Want(r) = w
  <2>1. Len(Prefix(m, k)) = k /\ \A i \in 1..k : Prefix(m, k)[i] = m[i]
    <3>1. m \in Bytes
      BY <1>1
    <3>2. k \in Nat /\ k <= Len(m)
      BY <1>4
    <3> QED
      BY <3>1, <3>2, Parts
  <2>2. k \in 1..k
    BY <1>4
  <2> QED
    BY <2>1, <2>2, <1>3, <1>5 DEF Want
<1>7. k + w <= Len(m)
  BY <1>1, <1>4
<1>8. PICK q : q = Suffix(m, k)
  OBVIOUS
<1>9. PICK g, l : g = Grow(r, q) /\ l = Rest(r, q)
  OBVIOUS
<1>10. /\ g = Rec("data", r, Prefix(m, e), sh, ign)
       /\ l = Suffix(m, e) /\ Want(r) \in Nat /\ Want(r) <= Len(q)
       /\ q \in Bytes
  <2>1. /\ Grow(r, Suffix(m, k)) =
             Rec(r.stage, r, Prefix(m, k + w), r.shape, r.ignored)
        /\ Rest(r, Suffix(m, k)) = Suffix(m, k + w)
        /\ Want(r) \in Nat /\ Want(r) <= Len(Suffix(m, k))
        /\ Suffix(m, k) \in Bytes
    BY <1>1, <1>4, <1>5, <1>6, <1>7, GrowAt
  <2> QED
    BY <2>1, <1>4, <1>5, <1>8, <1>9
<1>11. /\ IsRecord(g) /\ g.stage = "data" /\ g.kind = x.kind
       /\ g.req = x.req /\ g.buf = Prefix(m, e) /\ g.shape = sh
       /\ g.ignored = ign
  BY <1>5, <1>10 DEF Rec, IsRecord
<1>12. NextRec(g, sh, ign) = Rec("footer", x, Prefix(m, e), sh, ign)
  <2>1. NextRec(g, sh, ign) = Rec("footer", g, Prefix(m, e), sh, ign)
    BY <1>11, NextRecIs
  <2> QED
    BY <2>1, <1>11 DEF Rec
<1>13. <<NextRec(g, sh, ign), l>> = Footer(x, m, sh, ign)
  BY <1>1, <1>10, <1>12 DEF At, Footer
<1>14. <<NextRec(g, sh, ign), l>> \in Points(x, m, sh, ign)
  BY <1>13 DEF Points
<1> QED
  BY <1>1, <1>2, <1>5, <1>8, <1>9, <1>10, <1>11, <1>14 DEF Goes

LEMMA FromFooter ==
  ASSUME NEW x, IsWaiting(x), NEW m, NEW sh, Fits(m, sh), NEW ign,
         NEW r, r = Rec("footer", x, Prefix(m, Len(m) - FooterLen), sh, ign)
  PROVE  Goes(x, m, sh, ign, r, Suffix(m, Len(m) - FooterLen))
<1>1. PICK h, f, e \in Nat :
           /\ h = HeaderLen /\ f = sh.fixed /\ e = Len(m) - FooterLen
           /\ h >= 2 /\ h + f \in Nat /\ h + f <= e /\ e <= Len(m)
           /\ e + FooterLen = Len(m)
           /\ Len(m) \in Nat /\ m \in Bytes /\ FooterLen \in Nat
           /\ sh.counted => m[h + f] \in Nat /\ e = (h + f) + m[h + f]
           /\ ~sh.counted => e = h + f
  BY FitsIs
<1>2. PICK w : w = FooterLen
  OBVIOUS
<1>3. w \in Nat /\ e + w = Len(m) /\ e + w <= Len(m)
  BY <1>1, <1>2
<1>5. /\ r.stage = "footer" /\ r.buf = Prefix(m, e) /\ r.shape = sh
      /\ r.ignored = ign /\ IsRecord(r) /\ r.kind = x.kind /\ r.req = x.req
  BY <1>1 DEF Rec, IsRecord
<1>6. Want(r) = w
  BY <1>2, <1>5 DEF Want
<1>8. PICK q : q = Suffix(m, e)
  OBVIOUS
<1>9. PICK g, l : g = Grow(r, q) /\ l = Rest(r, q)
  OBVIOUS
<1>10. /\ g = Rec("footer", r, m, sh, ign)
       /\ l = <<>> /\ Want(r) \in Nat /\ Want(r) <= Len(q)
       /\ q \in Bytes
  <2>1. /\ Grow(r, Suffix(m, e)) =
             Rec(r.stage, r, Prefix(m, e + w), r.shape, r.ignored)
        /\ Rest(r, Suffix(m, e)) = Suffix(m, e + w)
        /\ Want(r) \in Nat /\ Want(r) <= Len(Suffix(m, e))
        /\ Suffix(m, e) \in Bytes
    <3>1. m \in Bytes /\ e \in Nat
      BY <1>1
    <3>2. r.buf = Prefix(m, e) /\ IsRecord(r)
      BY <1>5
    <3> QED
      BY <3>1, <3>2, <1>3, <1>6, GrowAt
  <2>2. Prefix(m, e + w) = m /\ Suffix(m, e + w) = <<>>
    BY <1>1, <1>3, AllAhead
  <2> QED
    BY <2>1, <2>2, <1>5, <1>8, <1>9
<1>11. g = Rec("footer", x, m, sh, ign) /\ g.stage = "footer"
  BY <1>5, <1>10 DEF Rec
<1>12. <<r, q>> = Footer(x, m, sh, ign)
  BY <1>1, <1>8 DEF Footer, At
<1> QED
  BY <1>1, <1>5, <1>8, <1>9, <1>10, <1>11, <1>12 DEF Goes

LEMMA Advance ==
  ASSUME NEW x, IsWaiting(x), NEW m, NEW sh, Fits(m, sh), NEW ign
  PROVE  \A r, q : <<r, q>> \in Points(x, m, sh, ign) =>
                      Goes(x, m, sh, ign, r, q)
<1>1. SUFFICES ASSUME NEW r, NEW q, <<r, q>> \in Points(x, m, sh, ign)
               PROVE  Goes(x, m, sh, ign, r, q)
  OBVIOUS
<1>2. CASE <<r, q>> = <<x, m>>
  BY <1>2, FromFirst
<1>3. CASE <<r, q>> = At("header", x, m, Fixed(0), FALSE, 1)
  BY <1>3, FromHeader DEF At
<1>4. CASE <<r, q>> = At("fixed", x, m, sh, ign, HeaderLen)
  BY <1>4, FromFixed DEF At
<1>5. CASE /\ sh.counted
           /\ <<r, q>> = At("data", x, m, sh, ign, HeaderLen + sh.fixed)
  BY <1>5, FromData DEF At
<1>6. CASE <<r, q>> = Footer(x, m, sh, ign)
  BY <1>6, FromFooter DEF At, Footer
<1> QED
  BY <1>1, <1>2, <1>3, <1>4, <1>5, <1>6 DEF Points

-----------------------------------------------------------------------------
\* The messages of the calls.
MsgOf(q) == Message(q.tid, q.unit, q.fc, Len(q.data), q.data)

RightReq(q) == RightCall(q) /\ q.data # Refused /\ q.tid \in Word

LEMMA DataIs ==
  ASSUME NEW m, NEW tid, NEW unit, NEW fc, NEW d \in Bytes,
         IsMessage(m, tid, unit, fc, d)
  PROVE  DataOf(m) = d
<1>1. PICK h, t, n : h = HeaderLen /\ t = FooterLen /\ n = Len(d)
  OBVIOUS
<1>2. h \in Nat /\ t \in Nat /\ n \in Nat /\ m \in Bytes /\ Len(m) = h + n + t
      /\ \A j \in 1..n : m[h + j] = d[j]
  BY <1>1, LengthsOf, LenIsNat DEF IsMessage
<1>3. PICK a, z : a = h + 1 /\ z = h + n
  OBVIOUS
<1>4. /\ a \in Nat /\ a >= 1 /\ z \in Int /\ z <= Len(m) /\ z = Len(m) - t
      /\ (IF a <= z THEN z - a + 1 ELSE 0) = n /\ z - a + 1 = n
  BY <1>2, <1>3
<1>5. PICK s : s = SubSeq(m, a, z)
  OBVIOUS
<1>6. s \in Bytes /\ Len(s) = n /\ \A k \in 1..n : s[k] = m[a + k - 1]
  <2>1. /\ s \in Bytes /\ Len(s) = IF a <= z THEN z - a + 1 ELSE 0
        /\ \A k \in 1..(z - a + 1) : s[k] = m[a + k - 1]
    BY <1>2, <1>4, <1>5, PartOfBytes
  <2> QED
    BY <2>1, <1>4
<1>7. \A k \in 1..n : s[k] = d[k]
  <2>1. \A k \in 1..n : a + k - 1 = h + k
    BY <1>2, <1>3
  <2> QED
    BY <2>1, <1>2, <1>6
<1>8. s = d
  BY <1>1, <1>6, <1>7, SameBytes
<1>9. DataOf(m) = s
  BY <1>1, <1>3, <1>4, <1>5 DEF DataOf
<1> QED
  BY <1>8, <1>9

LEMMA MessageFits ==
  ASSUME NEW m, NEW tid, NEW unit, NEW fc, NEW d,
         IsMessage(m, tid, unit, fc, d), NEW sh, IsShape(sh), HasShape(d, sh)
  PROVE  Fits(m, sh)
<1>1. PICK h, t, n, f : h = HeaderLen /\ t = FooterLen /\ n = Len(d)
                        /\ f = sh.fixed
  OBVIOUS
<1>2. /\ h \in Nat /\ t \in Nat /\ n \in Nat /\ f \in Nat /\ n >= f
      /\ d \in Bytes /\ m \in Bytes
      /\ Len(m) = h + n + t /\ \A j \in 1..n : m[h + j] = d[j]
      /\ sh.counted => f >= 1
  BY <1>1, LengthsOf, LenIsNat DEF IsMessage, HasShape, IsShape
<1>3. PICK c : c = IF sh.counted THEN m[h + f] ELSE 0
  OBVIOUS
<1>4. n = f + c
  <2>1. CASE sh.counted
    <3>1. f \in 1..n
      BY <2>1, <1>2
    <3>2. c = d[f]
      BY <3>1, <2>1, <1>2, <1>3
    <3> QED
      BY <3>2, <2>1, <1>1 DEF HasShape
  <2>2. CASE ~sh.counted
    <3>1. n = f + 0
      BY <2>2, <1>1 DEF HasShape
    <3> QED
      BY <3>1, <2>2, <1>3
  <2> QED
    BY <2>1, <2>2
<1>5. c \in Nat
  <2>1. CASE sh.counted
    <3>1. f \in 1..n
      BY <2>1, <1>2
    <3>2. c = d[f] /\ d[f] \in Byte
      BY <3>1, <2>1, <1>1, <1>2, <1>3, LenIsNat
    <3> QED
      BY <3>2 DEF Byte
  <2>2. CASE ~sh.counted
    BY <2>2, <1>3
  <2> QED
    BY <2>1, <2>2
<1>6. h + f + t <= Len(m) /\ Len(m) = h + f + c + t
  BY <1>2, <1>4, <1>5
<1> QED
  BY <1>1, <1>2, <1>3, <1>6 DEF Fits

\* A message that says how long it is, and what a node finds in it.
IsSent(m, tid, unit, fc, d) ==
  /\ IsMessage(m, tid, unit, fc, d) /\ MbapOK(m) /\ DataOf(m) = d
  /\ UnitOf(m) = unit /\ FcOf(m) = fc /\ CrcOK(m) /\ m \in Bytes
  /\ Transport = "TCP" => TidOf(m) = tid
  /\ \A sh : IsShape(sh) /\ HasShape(d, sh) => Fits(m, sh)

LEMMA SentLooksSo ==
  ASSUME CrcIsWord, Transport \in {"RTU", "TCP"},
         NEW tid \in Word, NEW unit \in Byte, NEW fc \in Byte, NEW d \in Bytes,
         NEW length \in Small, length <= 253,
         NEW m, m = Message(tid, unit, fc, length, d)
  PROVE  IsSent(m, tid, unit, fc, d)
<1>1. IsMessage(m, tid, unit, fc, d) /\ MbapOK(m)
  <2>1. CASE Transport = "RTU"
    BY <2>1, RtuLayout DEF MbapOK
  <2>2. CASE Transport = "TCP"
    <3>1. length \in Nat /\ length <= 1000
      BY DEF Small
    <3> QED
      BY <2>2, <3>1, TcpLayout
  <2> QED
    BY <2>1, <2>2
<1>2. DataOf(m) = d
  BY <1>1, DataIs
<1>3. ASSUME NEW sh, IsShape(sh), HasShape(d, sh)
      PROVE  Fits(m, sh)
  BY <1>1, <1>3, MessageFits
<1> QED
  BY <1>1, <1>2, <1>3 DEF IsSent, IsMessage

LEMMA RequestLooksSo ==
  ASSUME CrcIsWord, setup \in DOMAIN Setups, NEW q, RightReq(q)
  PROVE  /\ IsSent(MsgOf(q), q.tid, q.unit, q.fc, q.data)
         /\ GoodRequest(q.fc, q.data) /\ q.fc \in FunctionCodes
         /\ q.unit \in Byte /\ q.tid \in Word
         /\ Fits(MsgOf(q), ReqShape(q.fc))
<1>1. Transport \in {"RTU", "TCP"}
  BY Transports
<1>2. RightCall(q) /\ q.data # Refused /\ q.tid \in Word
  BY DEF RightReq
<1>3. /\ GoodRequest(q.fc, q.data) /\ q.data \in Bytes
      /\ Len(q.data) <= 253 /\ Len(q.data) \in Small
      /\ q.unit \in Byte /\ q.fc \in Byte /\ q.fc \in FunctionCodes
  BY <1>2, CallIsGood
<1>4. IsSent(MsgOf(q), q.tid, q.unit, q.fc, q.data)
  BY <1>1, <1>2, <1>3, SentLooksSo DEF MsgOf
<1>5. IsShape(ReqShape(q.fc)) /\ HasShape(q.data, ReqShape(q.fc))
  BY <1>3, Shapes DEF GoodRequest
<1> QED
  BY <1>2, <1>3, <1>4, <1>5 DEF IsSent

-----------------------------------------------------------------------------
\* What a server goes on with after the recv() that gave it g.
ReqOf(m) == [unit |-> UnitOf(m), fc |-> FcOf(m), tid |-> TidOf(m),
             data |-> DataOf(m), raw |-> 0]

ServerNext(s, g) ==
  IF g.stage = "footer"
  THEN IF g.kind = "req" /\ g.ignored THEN Waiting("res", ReqOf(g.buf))
       ELSE Poll
  ELSE IF g.stage # "header" THEN Further(g, g.shape)
  ELSE IF HeaderEnds(g) THEN Poll
  ELSE [Further(g, ServerShape(g)) EXCEPT
          !.ignored = g.kind = "req" /\ ~ForMe(s, g)]

\* It does that without a word: the message is good, and is an answer, or a
\* request to somebody else, or a broadcast.
Silent(g) ==
  g.stage = "footer" =>
    /\ CrcOK(g.buf)
    /\ g.kind # "req" => g.kind = "res" /\ ~g.ignored
    /\ g.kind = "req" /\ ~g.ignored =>
         \E b : RightReq(b) /\ Broadcast(b) /\ g.buf = MsgOf(b)

Moves(s, T, r, q) ==
  /\ q \in Bytes /\ Want(r) \in Nat /\ Want(r) <= Len(q)
  /\ Silent(Grow(r, q)) /\ <<ServerNext(s, Grow(r, q)), Rest(r, q)>> \in T

\* From every pair of a state and what has arrived in T, the server reads on in
\* silence, within T, or has come to e.
Leads(s, T, e) ==
  \A p \in T : p = <<p[1], p[2]>> /\ (p = e \/ Moves(s, T, p[1], p[2]))

\* A server in the state r, to which q has arrived, lags behind e.
Lags(s, r, q, e) == \E T : Leads(s, T, e) /\ <<r, q>> \in T

LEMMA LagsNot ==
  ASSUME NEW s, NEW r, NEW q
  PROVE  Lags(s, r, q, <<r, q>>)
<1>1. PICK T : T = {<<r, q>>}
  OBVIOUS
<1>2. Leads(s, T, <<r, q>>) /\ <<r, q>> \in T
  BY <1>1 DEF Leads
<1> QED
  BY <1>2 DEF Lags

LEMMA Behind ==
  ASSUME NEW v \in Bytes, NEW X \in Bytes, NEW w \in Nat, w <= Len(v)
  PROVE  /\ SubSeq(v \o X, 1, w) = SubSeq(v, 1, w)
         /\ SubSeq(v \o X, w + 1, Len(v \o X)) = SubSeq(v, w + 1, Len(v)) \o X
         /\ v \o X \in Bytes /\ w <= Len(v \o X)
<1>1. PICK c : c = v \o X
  OBVIOUS
<1>2. PICK n, k : n = Len(v) /\ k = Len(X)
  OBVIOUS
<1>3. /\ n \in Nat /\ k \in Nat /\ c \in Bytes /\ Len(c) = n + k
      /\ \A i \in 1..n : c[i] = v[i]
      /\ \A i \in 1..k : c[n + i] = X[i]
  BY <1>1, <1>2, CatIs, LenIsNat DEF IsCat
<1>4. w <= n /\ w <= Len(c)
  BY <1>2, <1>3
<1>5. PICK a, b, y, z : /\ a = Prefix(c, w) /\ b = Prefix(v, w)
                        /\ y = Suffix(c, w) /\ z = Suffix(v, w)
  OBVIOUS
<1>6. /\ a \in Bytes /\ Len(a) = w /\ \A i \in 1..w : a[i] = c[i]
      /\ y \in Bytes /\ Len(y) = Len(c) - w
      /\ \A i \in 1..(Len(c) - w) : y[i] = c[w + i]
  BY <1>3, <1>4, <1>5, Parts
<1>7. /\ b \in Bytes /\ Len(b) = w /\ \A i \in 1..w : b[i] = v[i]
      /\ z \in Bytes /\ Len(z) = n - w
      /\ \A i \in 1..(n - w) : z[i] = v[w + i]
  BY <1>2, <1>4, <1>5, Parts
<1>8. a = b
  <2>1. \A i \in 1..w : a[i] = b[i]
    BY <1>3, <1>4, <1>6, <1>7
  <2> QED
    BY <2>1, <1>6, <1>7, SameBytes
<1>9. y = z \o X
  <2>1. PICK d : d = z \o X
    OBVIOUS
  <2>2. IsCat(d, z, X)
    BY <2>1, <1>7, CatIs
  <2>3. /\ d \in Bytes /\ Len(d) = (n - w) + k
        /\ \A i \in 1..(n - w) : d[i] = z[i]
        /\ \A i \in 1..k : d[(n - w) + i] = X[i]
    BY <2>2, <1>2, <1>7 DEF IsCat
  <2>4. Len(c) - w = (n - w) + k
    BY <1>3, <1>4
  <2>5. ASSUME NEW i \in 1..((n - w) + k)
        PROVE  y[i] = d[i]
    <3>1. y[i] = c[w + i]
      BY <2>4, <1>6
    <3>2. CASE i <= n - w
      <4>1. i \in 1..(n - w) /\ w + i \in 1..n
        BY <3>2, <1>3, <1>4
      <4> QED
        BY <4>1, <3>1, <2>3, <1>3, <1>7
    <3>3. CASE i > n - w
      <4>1. PICK j : j = i - (n - w)
        OBVIOUS
      <4>2. j \in 1..k /\ (n - w) + j = i /\ w + i = n + j
        BY <3>3, <4>1, <1>3, <1>4
      <4> QED
        BY <4>2, <3>1, <2>3, <1>3
    <3> QED
      BY <3>2, <3>3, <1>3, <1>4
  <2>6. y = d
    <3>1. Len(y) = Len(d) /\ Len(y) = (n - w) + k
      BY <2>3, <2>4, <1>6
    <3> QED
      BY <3>1, <2>3, <2>5, <1>6, SameBytes
  <2> QED
    BY <2>1, <2>6
<1> QED
  BY <1>1, <1>2, <1>3, <1>4, <1>5, <1>8, <1>9 DEF Prefix, Suffix

\* What comes behind does not change the next recv().
LEMMA MoreBehind ==
  ASSUME NEW r, NEW v \in Bytes, NEW X \in Bytes, Want(r) \in Nat,
         Want(r) <= Len(v)
  PROVE  /\ Grow(r, v \o X) = Grow(r, v) /\ Rest(r, v \o X) = Rest(r, v) \o X
         /\ v \o X \in Bytes /\ Want(r) <= Len(v \o X)
<1>1. PICK w : w = Want(r)
  OBVIOUS
<1>2. /\ SubSeq(v \o X, 1, w) = SubSeq(v, 1, w)
      /\ SubSeq(v \o X, w + 1, Len(v \o X)) = SubSeq(v, w + 1, Len(v)) \o X
      /\ v \o X \in Bytes /\ w <= Len(v \o X)
  BY <1>1, Behind
<1> QED
  BY <1>1, <1>2 DEF Grow, Rest

\* A message behind: first the server catches up, then it reads the message.
LEMMA AppendBehind ==
  ASSUME NEW s, NEW r, NEW q, NEW f, Lags(s, r, q, <<f, <<>>>>),
         NEW X \in Bytes, NEW e, Lags(s, f, X, e)
  PROVE  Lags(s, r, q \o X, e)
<1>1. PICK T1 : Leads(s, T1, <<f, <<>>>>) /\ <<r, q>> \in T1
  BY DEF Lags
<1>2. PICK T2 : Leads(s, T2, e) /\ <<f, X>> \in T2
  BY DEF Lags
<1>3. PICK T : T = {<<p[1], p[2] \o X>> : p \in T1} \cup T2
  OBVIOUS
<1>4. ASSUME NEW t, NEW v, <<t, v>> \in T1
      PROVE  <<t, v \o X>> \in T
  <2>1. PICK p : p = <<t, v>>
    OBVIOUS
  <2>2. p \in T1 /\ p[1] = t /\ p[2] = v
    BY <2>1, <1>4
  <2>3. <<p[1], p[2] \o X>> \in T
    BY <2>2, <1>3
  <2> QED
    BY <2>2, <2>3
<1>5. ASSUME NEW p \in T2
      PROVE  p = <<p[1], p[2]>> /\ (p = e \/ Moves(s, T, p[1], p[2]))
  BY <1>2, <1>3 DEF Leads, Moves
<1>6. ASSUME NEW p \in T1
      PROVE  LET c == <<p[1], p[2] \o X>> IN c = e \/ Moves(s, T, c[1], c[2])
  <2>1. PICK t, v : t = p[1] /\ v = p[2]
    OBVIOUS
  <2>2. p = <<t, v>> /\ (p = <<f, <<>>>> \/ Moves(s, T1, t, v))
    BY <2>1, <1>1 DEF Leads
  <2>3. CASE p = <<f, <<>>>>
    <3>1. t = f /\ v = <<>>
      BY <2>2, <2>3
    <3>2. X \in Seq(Byte)
      BY DEF Bytes
    <3>3. <<>> \o X = X
      BY <3>2, ConcatEmptySeq
    <3>4. <<t, v \o X>> \in T2
      BY <3>1, <3>3, <1>2
    <3>5. PICK c : c = <<t, v \o X>>
      OBVIOUS
    <3>6. c = e \/ Moves(s, T, c[1], c[2])
      BY <3>4, <3>5, <1>5
    <3> QED
      BY <3>5, <3>6, <2>1
  <2>4. CASE Moves(s, T1, t, v)
    <3>1. /\ v \in Bytes /\ Want(t) \in Nat /\ Want(t) <= Len(v)
          /\ Silent(Grow(t, v))
          /\ <<ServerNext(s, Grow(t, v)), Rest(t, v)>> \in T1
      BY <2>4 DEF Moves
    <3>2. /\ Grow(t, v \o X) = Grow(t, v) /\ Rest(t, v \o X) = Rest(t, v) \o X
          /\ v \o X \in Bytes /\ Want(t) <= Len(v \o X)
      BY <3>1, MoreBehind
    <3>3. <<ServerNext(s, Grow(t, v)), Rest(t, v) \o X>> \in T
      BY <3>1, <1>4
    <3>4. Moves(s, T, t, v \o X)
      BY <3>1, <3>2, <3>3 DEF Moves
    <3> QED
      BY <3>4, <2>1
  <2> QED
    BY <2>2, <2>3, <2>4
<1>7. Leads(s, T, e)
  <2>1. SUFFICES ASSUME NEW c \in T
                 PROVE  c = <<c[1], c[2]>> /\ (c = e \/ Moves(s, T, c[1], c[2]))
    BY DEF Leads
  <2>2. CASE c \in T2
    BY <2>2, <1>5
  <2>3. CASE c \notin T2
    <3>1. PICK p \in T1 : c = <<p[1], p[2] \o X>>
      BY <2>3, <1>3
    <3> QED
      BY <3>1, <1>6
  <2> QED
    BY <2>2, <2>3
<1>8. <<r, q \o X>> \in T
  BY <1>1, <1>4
<1> QED
  BY <1>7, <1>8 DEF Lags

-----------------------------------------------------------------------------
(* A server hears a whole message, from the poll for its first byte on.    *)

\* The header of m lets a server in the state x go on as the shape sh says.
HeadsOn(s, x, m, sh, ign) ==
  LET g == Rec("header", x, Prefix(m, HeaderLen), Fixed(0), FALSE) IN
    /\ ~HeaderEnds(g) /\ ServerShape(g) = sh
    /\ ign = (g.kind = "req" /\ ~ForMe(s, g))

LEMMA StepOn ==
  ASSUME NEW s, NEW x, NEW m, NEW sh, NEW ign, HeadsOn(s, x, m, sh, ign),
         NEW r, NEW q, Goes(x, m, sh, ign, r, q), r.stage # "footer"
  PROVE  ServerNext(s, Grow(r, q)) = NextRec(Grow(r, q), sh, ign)
<1>1. PICK g : g = Grow(r, q)
  OBVIOUS
<1>2. g.stage = r.stage /\ (r.stage = "header" =>
        g = Rec("header", x, Prefix(m, HeaderLen), Fixed(0), FALSE))
  BY <1>1 DEF Goes
<1>3. CASE r.stage = "header"
  <2>1. /\ ~HeaderEnds(g) /\ ServerShape(g) = sh
        /\ ign = (g.kind = "req" /\ ~ForMe(s, g))
    BY <1>2, <1>3 DEF HeadsOn
  <2>2. ServerNext(s, g) =
          [Further(g, sh) EXCEPT !.ignored = g.kind = "req" /\ ~ForMe(s, g)]
    BY <2>1, <1>2, <1>3 DEF ServerNext
  <2> QED
    BY <2>1, <2>2, <1>1, <1>2, <1>3 DEF NextRec
<1>4. CASE r.stage # "header"
  BY <1>1, <1>2, <1>4 DEF ServerNext, NextRec
<1> QED
  BY <1>3, <1>4

LEMMA ReadsOn ==
  ASSUME NEW s, NEW x, IsWaiting(x), NEW m, NEW sh, Fits(m, sh), NEW ign,
         HeadsOn(s, x, m, sh, ign)
  PROVE  Leads(s, Points(x, m, sh, ign), Footer(x, m, sh, ign))
<1>1. PICK T : T = Points(x, m, sh, ign)
  OBVIOUS
<1>2. SUFFICES ASSUME NEW p \in T
               PROVE  /\ p = <<p[1], p[2]>>
                      /\ p = Footer(x, m, sh, ign) \/ Moves(s, T, p[1], p[2])
  BY <1>1 DEF Leads
<1>3. PICK r, q : r = p[1] /\ q = p[2]
  OBVIOUS
<1>4. p = <<r, q>>
  <2>1. \/ p = <<x, m>> \/ p = At("header", x, m, Fixed(0), FALSE, 1)
        \/ p = At("fixed", x, m, sh, ign, HeaderLen)
        \/ p = Footer(x, m, sh, ign)
        \/ p = At("data", x, m, sh, ign, HeaderLen + sh.fixed)
    BY <1>1, <1>2 DEF Points
  <2>2. \E a, b : p = <<a, b>>
    BY <2>1 DEF At, Footer
  <2> QED
    BY <2>2, <1>3
<1>5. Goes(x, m, sh, ign, r, q)
  BY <1>1, <1>2, <1>4, Advance
<1>6. CASE r.stage = "footer"
  BY <1>3, <1>4, <1>5, <1>6 DEF Goes
<1>7. CASE r.stage # "footer"
  <2>1. ServerNext(s, Grow(r, q)) = NextRec(Grow(r, q), sh, ign)
    BY <1>5, <1>7, StepOn
  <2>2. <<NextRec(Grow(r, q), sh, ign), Rest(r, q)>> \in T
    BY <1>1, <1>5, <1>7 DEF Goes
  <2>3. Silent(Grow(r, q))
    BY <1>5, <1>7 DEF Goes, Silent
  <2>4. Moves(s, T, r, q)
    BY <2>1, <2>2, <2>3, <1>5 DEF Goes, Moves
  <2> QED
    BY <2>4, <1>3, <1>4
<1> QED
  BY <1>6, <1>7

LEMMA ReadsUpToFooter ==
  ASSUME NEW s, NEW x, IsWaiting(x), NEW m, NEW sh, Fits(m, sh), NEW ign,
         HeadsOn(s, x, m, sh, ign)
  PROVE  Lags(s, x, m, Footer(x, m, sh, ign))
<1>1. Leads(s, Points(x, m, sh, ign), Footer(x, m, sh, ign))
  BY ReadsOn
<1>2. <<x, m>> \in Points(x, m, sh, ign)
  BY DEF Points
<1> QED
  BY <1>1, <1>2 DEF Lags

LEMMA ReadsAll ==
  ASSUME NEW s, NEW x, IsWaiting(x), NEW m, NEW sh, Fits(m, sh), NEW ign,
         HeadsOn(s, x, m, sh, ign), Silent(Rec("footer", x, m, sh, ign)),
         NEW y, y = ServerNext(s, Rec("footer", x, m, sh, ign))
  PROVE  Lags(s, x, m, <<y, <<>>>>)
<1>1. PICK P, e, z : /\ P = Points(x, m, sh, ign)
                     /\ e = Footer(x, m, sh, ign) /\ z = <<y, <<>>>>
  OBVIOUS
<1>2. Leads(s, P, e)
  BY <1>1, ReadsOn
<1>3. PICK T : T = P \cup {z}
  OBVIOUS
<1>4. PICK r, q : e = <<r, q>>
  BY <1>1 DEF Footer, At
<1>5. e \in P
  BY <1>1 DEF Points
<1>6. Goes(x, m, sh, ign, r, q)
  BY <1>1, <1>4, <1>5, Advance
<1>7. r.stage = "footer"
  BY <1>1, <1>4 DEF Footer, At, Rec
<1>8. Grow(r, q) = Rec("footer", x, m, sh, ign) /\ Rest(r, q) = <<>>
  BY <1>6, <1>7 DEF Goes
<1>9. Moves(s, T, r, q)
  <2>1. <<ServerNext(s, Grow(r, q)), Rest(r, q)>> = z
    BY <1>1, <1>8
  <2>2. q \in Bytes /\ Want(r) \in Nat /\ Want(r) <= Len(q)
    BY <1>6 DEF Goes
  <2>3. Silent(Grow(r, q))
    BY <1>8
  <2> QED
    BY <2>1, <2>2, <2>3, <1>3 DEF Moves
<1>10. Leads(s, T, z)
  <2>1. SUFFICES ASSUME NEW p \in T
                 PROVE  p = <<p[1], p[2]>> /\ (p = z \/ Moves(s, T, p[1], p[2]))
    BY DEF Leads
  <2>2. CASE p = z
    BY <2>2, <1>1
  <2>3. CASE p = e
    BY <2>3, <1>4, <1>9
  <2>4. CASE p \in P /\ p # e
    <3>1. p = <<p[1], p[2]>> /\ Moves(s, P, p[1], p[2])
      BY <2>4, <1>2 DEF Leads
    <3> QED
      BY <3>1, <1>3 DEF Moves
  <2> QED
    BY <2>1, <2>2, <2>3, <2>4, <1>3
<1>11. <<x, m>> \in T
  BY <1>1, <1>3 DEF Points
<1> QED
  BY <1>1, <1>10, <1>11 DEF Lags

-----------------------------------------------------------------------------
\* What is left to do for a server that has heard the request q: to serve it,
\* nothing, or to hear the answer.
Mine(s, q) == Transport = "TCP" \/ q.unit = s

HeardBy(s, q) ==
  IF Mine(s, q) THEN Footer(Poll, MsgOf(q), ReqShape(q.fc), FALSE)
  ELSE IF Broadcast(q) THEN <<Poll, <<>>>>
  ELSE <<Waiting("res", ReqOf(MsgOf(q))), <<>>>>

IsAnswer(m, q, v) ==
  \E fc, d :
    /\ IsSent(m, q.tid, q.unit, fc, d)
    /\ \/ /\ fc = q.fc /\ HasShape(d, ResShape(fc))
          /\ q.raw > 0 => Len(d) = q.raw
          /\ Accept(fc, q.data, d) = NMBS_ERROR_NONE
          /\ fc \in Reads \cup {23} => d[Len(d)] = v
       \/ fc = q.fc + 128 /\ d = <<DEVICE_FAILURE>>

\* The header of a message.
LEMMA HeadOf ==
  ASSUME NEW m, NEW sh, Fits(m, sh), NEW b, b = Prefix(m, HeaderLen)
  PROVE  /\ UnitOf(b) = UnitOf(m) /\ FcOf(b) = FcOf(m) /\ TidOf(b) = TidOf(m)
         /\ MbapOK(b) <=> MbapOK(m)
<1>1. m \in Bytes /\ HeaderLen \in Nat /\ HeaderLen <= Len(m)
  <2>1. /\ m \in Bytes /\ sh.fixed \in Nat
        /\ HeaderLen + sh.fixed + FooterLen <= Len(m)
    BY DEF Fits, IsShape
  <2> QED
    BY <2>1, LengthsOf, LenIsNat
<1>2. PICK h : h = HeaderLen
  OBVIOUS
<1>3. b \in Bytes /\ Len(b) = h /\ \A i \in 1..h : b[i] = m[i]
  BY <1>1, <1>2, Parts
<1>4. Len(b) >= HeaderLen /\ \A i \in 1..Len(b) : m[i] = b[i]
  BY <1>1, <1>2, <1>3
<1> QED
  BY <1>1, <1>3, <1>4, SameHeader

LEMMA HearsRequest ==
  ASSUME CrcIsWord, setup \in DOMAIN Setups, NEW q, RightReq(q),
         NEW s \in Servers
  PROVE  Lags(s, Poll, MsgOf(q), HeardBy(s, q))
<1>1. PICK m, sh : m = MsgOf(q) /\ sh = ReqShape(q.fc)
  OBVIOUS
<1>2. /\ IsSent(m, q.tid, q.unit, q.fc, q.data) /\ Fits(m, sh)
      /\ q.fc \in FunctionCodes
  BY <1>1, RequestLooksSo
<1>3. PICK ign : ign = ~(Transport = "TCP" \/ q.unit \in {0, s})
  OBVIOUS
<1>4. PICK x : x = Poll
  OBVIOUS
<1>5. IsWaiting(x) /\ x.kind = "req"
  BY <1>4 DEF IsWaiting, Poll, Waiting
<1>6. HeadsOn(s, x, m, sh, ign)
  <2>1. PICK b : b = Prefix(m, HeaderLen)
    OBVIOUS
  <2>2. UnitOf(b) = q.unit /\ FcOf(b) = q.fc /\ MbapOK(b)
    BY <2>1, <1>2, HeadOf DEF IsSent
  <2>3. PICK g : g = Rec("header", x, b, Fixed(0), FALSE)
    OBVIOUS
  <2>4. g.kind = "req" /\ g.buf = b
    BY <2>3, <1>5 DEF Rec
  <2>5. ~HeaderEnds(g)
    BY <2>2, <2>4, <1>2 DEF HeaderEnds
  <2>6. ServerShape(g) = sh
    BY <2>2, <2>4, <1>1 DEF ServerShape
  <2>7. ForMe(s, g) = (Transport = "TCP" \/ q.unit \in {0, s})
    BY <2>2, <2>4 DEF ForMe, NMBS_BROADCAST_ADDRESS
  <2>8. ign = (g.kind = "req" /\ ~ForMe(s, g))
    BY <2>4, <2>7, <1>3
  <2> QED
    BY <2>1, <2>3, <2>5, <2>6, <2>8 DEF HeadsOn
<1>7. PICK k : k = Rec("footer", x, m, sh, ign)
  OBVIOUS
<1>8. k.stage = "footer" /\ k.kind = "req" /\ k.buf = m /\ k.ignored = ign
  BY <1>5, <1>7 DEF Rec
<1>9. CASE Mine(s, q)
  <2>1. ign = FALSE
    BY <1>3, <1>9 DEF Mine
  <2>2. Lags(s, x, m, Footer(x, m, sh, ign))
    BY <1>2, <1>5, <1>6, ReadsUpToFooter
  <2> QED
    BY <2>1, <2>2, <1>1, <1>4, <1>9 DEF HeardBy
<1>10. CASE ~Mine(s, q) /\ Broadcast(q)
  <2>1. ign = FALSE
    BY <1>3, <1>10 DEF Broadcast, NMBS_BROADCAST_ADDRESS
  <2>2. Silent(k)
    BY <2>1, <1>1, <1>2, <1>8, <1>10 DEF Silent, IsSent
  <2>3. ServerNext(s, k) = Poll
    BY <2>1, <1>8 DEF ServerNext
  <2>4. Lags(s, x, m, <<Poll, <<>>>>)
    BY <2>2, <2>3, <1>2, <1>5, <1>6, <1>7, ReadsAll
  <2> QED
    BY <2>4, <1>1, <1>4, <1>10 DEF HeardBy
<1>11. CASE ~Mine(s, q) /\ ~Broadcast(q)
  <2>1. ign = TRUE
    <3>1. Transport = "RTU"
      BY <1>11, Transports DEF Mine
    <3> QED
      BY <3>1, <1>3, <1>11 DEF Mine, Broadcast, NMBS_BROADCAST_ADDRESS
  <2>2. Silent(k)
    BY <2>1, <1>1, <1>2, <1>8, <1>11 DEF Silent, IsSent
  <2>3. ServerNext(s, k) = Waiting("res", ReqOf(m))
    BY <2>1, <1>8 DEF ServerNext
  <2>4. Lags(s, x, m, <<Waiting("res", ReqOf(m)), <<>>>>)
    BY <2>2, <2>3, <1>2, <1>5, <1>6, <1>7, ReadsAll
  <2> QED
    BY <2>4, <1>1, <1>4, <1>11 DEF HeardBy
<1> QED
  BY <1>9, <1>10, <1>11

-----------------------------------------------------------------------------
\* What everybody finds in an answer.
ClientSees(m, q) ==
  IF FcOf(m) = q.fc + 128 THEN ExceptionShape
  ELSE IF q.raw > 0 THEN Fixed(q.raw) ELSE ResShape(q.fc)
OthersSee(m, q) ==
  IF FcOf(m) = q.fc + 128 THEN ExceptionShape ELSE ResShape(q.fc)

LEMMA ExceptionData ==
  HasShape(<<DEVICE_FAILURE>>, ExceptionShape) /\ <<DEVICE_FAILURE>> \in Bytes
<1>1. DEVICE_FAILURE \in Byte
  BY DEF Byte, DEVICE_FAILURE
<1>2. PICK d : d = <<DEVICE_FAILURE>>
  OBVIOUS
<1>3. d \in Bytes /\ Len(d) = 1
  BY <1>1, <1>2, OneByte
<1> QED
  BY <1>2, <1>3 DEF HasShape, ExceptionShape, Fixed

LEMMA AnswerIs ==
  ASSUME NEW q, q.fc \in FunctionCodes, q.raw \in Nat, NEW m, NEW v,
         IsAnswer(m, q, v)
  PROVE  /\ m \in Bytes /\ MbapOK(m) /\ CrcOK(m) /\ UnitOf(m) = q.unit
         /\ Transport = "TCP" => TidOf(m) = q.tid
         /\ FcOf(m) \in {q.fc, q.fc + 128}
         /\ Fits(m, ClientSees(m, q)) /\ Fits(m, OthersSee(m, q))
<1>1. PICK fc, d :
        /\ IsSent(m, q.tid, q.unit, fc, d)
        /\ \/ /\ fc = q.fc /\ HasShape(d, ResShape(fc))
              /\ q.raw > 0 => Len(d) = q.raw
              /\ Accept(fc, q.data, d) = NMBS_ERROR_NONE
              /\ fc \in Reads \cup {23} => d[Len(d)] = v
           \/ fc = q.fc + 128 /\ d = <<DEVICE_FAILURE>>
  BY DEF IsAnswer
<1>2. /\ m \in Bytes /\ MbapOK(m) /\ CrcOK(m) /\ UnitOf(m) = q.unit
      /\ FcOf(m) = fc /\ (Transport = "TCP" => TidOf(m) = q.tid)
      /\ \A sh : IsShape(sh) /\ HasShape(d, sh) => Fits(m, sh)
  BY <1>1 DEF IsSent
<1>3. fc \in {q.fc, q.fc + 128}
  BY <1>1
<1>4. q.fc \in Nat /\ q.fc + 128 # q.fc
  BY DEF FunctionCodes
<1>5. CASE fc = q.fc + 128
  <2>1. d = <<DEVICE_FAILURE>>
    BY <1>1, <1>4, <1>5
  <2>2. Fits(m, ExceptionShape)
    BY <2>1, <1>2, Shapes, ExceptionData
  <2> QED
    BY <2>2, <1>2, <1>3, <1>5 DEF ClientSees, OthersSee
<1>6. CASE fc = q.fc
  <2>1. HasShape(d, ResShape(q.fc)) /\ (q.raw > 0 => Len(d) = q.raw)
    BY <1>1, <1>4, <1>6
  <2>2. Fits(m, ResShape(q.fc))
    BY <2>1, <1>2, Shapes
  <2>3. ASSUME q.raw > 0
        PROVE  Fits(m, Fixed(q.raw))
    <3>1. HasShape(d, Fixed(q.raw))
      BY <2>1, <2>3 DEF HasShape, Fixed
    <3> QED
      BY <3>1, <1>2, Shapes
  <2> QED
    BY <2>2, <2>3, <1>2, <1>3, <1>4, <1>6 DEF ClientSees, OthersSee
<1> QED
  BY <1>3, <1>5, <1>6

\* The server that ignored a request reads the answer to it and drops it.
LEMMA HearsAnswer ==
  ASSUME CrcIsWord, setup \in DOMAIN Setups, NEW q, RightReq(q),
         NEW s \in Servers, ~Mine(s, q), NEW A, NEW v, IsAnswer(A, q, v)
  PROVE  Lags(s, Waiting("res", ReqOf(MsgOf(q))), A, <<Poll, <<>>>>)
<1>1. PICK m : m = MsgOf(q)
  OBVIOUS
<1>2. /\ IsSent(m, q.tid, q.unit, q.fc, q.data) /\ q.fc \in FunctionCodes
      /\ q.raw \in Nat
  BY <1>1, RequestLooksSo DEF RightReq, RightCall
<1>3. PICK req : req = ReqOf(m)
  OBVIOUS
<1>4. req.unit = q.unit /\ req.fc = q.fc
  BY <1>2, <1>3 DEF IsSent, ReqOf
<1>5. PICK x : x = Waiting("res", req)
  OBVIOUS
<1>6. IsWaiting(x) /\ x.kind = "res" /\ x.req = req
  BY <1>5 DEF IsWaiting, Waiting
<1>7. Transport # "TCP" /\ Transport = "RTU" /\ q.unit # s
  BY Transports DEF Mine
<1>8. q.fc # 23
  BY <1>7 DEF RightReq, RightCall
<1>9. PICK sh : sh = OthersSee(A, q)
  OBVIOUS
<1>10. /\ A \in Bytes /\ MbapOK(A) /\ CrcOK(A) /\ UnitOf(A) = q.unit
       /\ FcOf(A) \in {q.fc, q.fc + 128} /\ Fits(A, sh)
  BY <1>2, <1>9, AnswerIs
<1>11. HeadsOn(s, x, A, sh, FALSE)
  <2>1. PICK b : b = Prefix(A, HeaderLen)
    OBVIOUS
  <2>2. UnitOf(b) = q.unit /\ FcOf(b) = FcOf(A) /\ MbapOK(b)
    BY <2>1, <1>10, HeadOf
  <2>3. PICK g : g = Rec("header", x, b, Fixed(0), FALSE)
    OBVIOUS
  <2>4. g.kind = "res" /\ g.buf = b /\ g.req = req
    BY <2>3, <1>6 DEF Rec
  <2>5. q.fc \in Nat /\ q.fc + 128 # q.fc /\ (q.fc + 128) - 128 = q.fc
        /\ q.fc - 128 # q.fc
    BY <1>2 DEF FunctionCodes
  <2>6. IsException(g) <=> FcOf(A) = q.fc + 128
    BY <2>2, <2>4, <2>5, <1>4, <1>10 DEF IsException
  <2>7. HeaderError(g) = NMBS_ERROR_NONE
    BY <2>2, <2>4, <2>6, <1>4, <1>7, <1>10 DEF HeaderError
  <2>8. ~HeaderEnds(g)
    BY <2>4, <2>7 DEF HeaderEnds
  <2>9. ServerShape(g) = sh
    BY <2>4, <2>6, <1>4, <1>8, <1>9 DEF ServerShape, OthersSee, IgnoredShape
  <2>10. FALSE = (g.kind = "req" /\ ~ForMe(s, g))
    BY <2>4
  <2> QED
    BY <2>1, <2>3, <2>8, <2>9, <2>10 DEF HeadsOn
<1>12. PICK k : k = Rec("footer", x, A, sh, FALSE)
  OBVIOUS
<1>13. k.stage = "footer" /\ k.kind = "res" /\ k.buf = A /\ k.ignored = FALSE
  BY <1>6, <1>12 DEF Rec
<1>14. Silent(k) /\ ServerNext(s, k) = Poll
  BY <1>10, <1>13 DEF Silent, ServerNext
<1>15. Lags(s, x, A, <<Poll, <<>>>>)
  BY <1>6, <1>10, <1>11, <1>12, <1>14, ReadsAll
<1> QED
  BY <1>1, <1>3, <1>5, <1>15

-----------------------------------------------------------------------------
\* A server that lags behind steps on without a word.
Onward(s, r, q) ==
  /\ node' = [node EXCEPT ![s] = r] /\ rx' = [rx EXCEPT ![s] = q]
  /\ UNCHANGED <<air, current_tid, calls, result>>

LEMMA ServeBroadcast ==
  ASSUME CrcIsWord, TypeInv, NEW s \in Servers,
         NEW cb \in CallbackResults, NEW cbRead \in CallbackResults,
         Serve(s, cb, cbRead), NEW b, RightReq(b), Broadcast(b),
         Got(s).buf = MsgOf(b)
  PROVE  Onward(s, Poll, Left(s))
<1>1. PICK m : m = Got(s).buf
  OBVIOUS
<1>2. /\ node[s].stage = "footer" /\ Arrived(s) /\ node[s].kind = "req"
      /\ node' = [node EXCEPT ![s] = Poll]
      /\ rx' = [rx EXCEPT ![s] = Left(s)]
      /\ UNCHANGED <<current_tid, calls, result>>
  BY <1>1, ServeIs
<1>3. PICK err, broadcast :
        /\ broadcast <=> Transport = "RTU"
             /\ UnitOf(node[s].buf) = NMBS_BROADCAST_ADDRESS
        /\ Verdict(FcOf(m), DataOf(m), cb, cbRead, broadcast, err)
        /\ Replies(s, m, err, broadcast)
  BY <1>1, ServeIs
<1>4. IsSent(m, b.tid, b.unit, b.fc, b.data) /\ GoodRequest(b.fc, b.data)
  BY <1>1, RequestLooksSo DEF TypeInv
<1>5. UnitOf(m) = UnitOf(node[s].buf)
  BY <1>1, <1>2, GotRequest
<1>6. broadcast
  BY <1>3, <1>4, <1>5 DEF IsSent, Broadcast
<1>7. cb = NMBS_ERROR_NONE
  BY DEF RightReq, RightCall
<1>8. err = NMBS_ERROR_NONE
  BY <1>3, <1>4, <1>6, <1>7 DEF IsSent, GoodRequest, Verdict
<1>9. UNCHANGED <<air, sent>>
  BY <1>3, <1>6, <1>8 DEF Replies
<1> QED
  BY <1>2, <1>9 DEF Onward

LEMMA Follow ==
  ASSUME CrcIsWord, TypeInv, NEW s \in Servers, NEW e,
         Lags(s, node[s], rx[s], e), ServerStep(s), calm',
         <<node[s], rx[s]>> # e
  PROVE  \E r, q : Onward(s, r, q) /\ Lags(s, r, q, e)
<1>1. PICK T : Leads(s, T, e) /\ <<node[s], rx[s]>> \in T
  BY DEF Lags
<1>2. PICK p : p = <<node[s], rx[s]>>
  OBVIOUS
<1>3. p = e \/ Moves(s, T, p[1], p[2])
  BY <1>1, <1>2 DEF Leads
<1>4. p[1] = node[s] /\ p[2] = rx[s] /\ p # e
  BY <1>2
<1>5. Moves(s, T, node[s], rx[s])
  BY <1>3, <1>4
<1>6. PICK g, l : g = Got(s) /\ l = Left(s)
  OBVIOUS
<1>7. g = Grow(node[s], rx[s]) /\ l = Rest(node[s], rx[s])
  BY <1>6, GotIs
<1>8. /\ Want(node[s]) \in Nat /\ Want(node[s]) <= Len(rx[s])
      /\ rx[s] \in Bytes /\ Silent(g) /\ <<ServerNext(s, g), l>> \in T
  BY <1>5, <1>7 DEF Moves
<1>9. Arrived(s)
  BY <1>8, GotIs, LenIsNat
<1>10. /\ g.stage = node[s].stage /\ g.kind = node[s].kind
       /\ g.ignored = node[s].ignored
  <2>1. s \in Nodes /\ node[s].stage \notin {"idle", "sent"}
    BY ServerIs
  <2>2. PICK r : r = node[s]
    OBVIOUS
  <2>3. Grown(g, l, r, rx[s])
    BY <2>1, <2>2, <1>6, <1>9, RestIs
  <2> QED
    BY <2>2, <2>3 DEF Grown
<1>11. Lags(s, ServerNext(s, g), l, e)
  BY <1>1, <1>8 DEF Lags
<1>12. SUFFICES Onward(s, ServerNext(s, g), l)
  BY <1>11
<1>13. CASE ServerReceive(s)
  <2>1. PICK y : y = IF g.stage # "header" THEN Further(g, g.shape)
                     ELSE IF HeaderEnds(g) THEN Poll
                     ELSE [Further(g, ServerShape(g)) EXCEPT
                             !.ignored = g.kind = "req" /\ ~ForMe(s, g)]
    OBVIOUS
  <2>2. /\ node[s].stage # "footer" /\ Receive(s, y)
        /\ UNCHANGED <<air, current_tid, calls, result>>
    BY <2>1, <1>6, <1>13 DEF ServerReceive
  <2>3. y = ServerNext(s, g)
    BY <2>1, <2>2, <1>10 DEF ServerNext
  <2> QED
    BY <2>2, <2>3, <1>6 DEF Receive, Onward
<1>14. CASE ServerDiscard(s)
  <2>1. /\ node[s].stage = "footer" /\ (node[s].kind = "res" \/ ~CrcOK(g.buf))
        /\ node' = [node EXCEPT ![s] = Poll]
        /\ rx' = [rx EXCEPT ![s] = IF node[s].ignored THEN <<>> ELSE l]
        /\ UNCHANGED <<air, current_tid, calls, result>>
    BY <1>6, <1>14 DEF ServerDiscard
  <2>2. g.kind = "res" /\ ~g.ignored
    BY <2>1, <1>8, <1>10 DEF Silent
  <2>3. ServerNext(s, g) = Poll
    BY <2>1, <2>2, <1>10 DEF ServerNext
  <2> QED
    BY <2>1, <2>2, <2>3, <1>10 DEF Onward
<1>15. CASE ServerIgnore(s)
  <2>1. /\ node[s].stage = "footer" /\ node[s].kind = "req" /\ node[s].ignored
        /\ Receive(s, Waiting("res", ReqOf(g.buf)))
        /\ UNCHANGED <<air, current_tid, calls, result>>
    BY <1>6, <1>15 DEF ServerIgnore, ReqOf
  <2>2. ServerNext(s, g) = Waiting("res", ReqOf(g.buf))
    BY <2>1, <1>10 DEF ServerNext
  <2> QED
    BY <2>1, <2>2, <1>6 DEF Receive, Onward
<1>16. CASE ServerTimeout(s)
  BY <1>16 DEF ServerTimeout
<1>17. CASE \E cb, cbRead \in CallbackResults : Serve(s, cb, cbRead)
  <2>1. PICK cb \in CallbackResults, cbRead \in CallbackResults :
          Serve(s, cb, cbRead)
    BY <1>17
  <2>2. /\ node[s].stage = "footer" /\ node[s].kind = "req" /\ ~node[s].ignored
    BY <2>1, ServeIs
  <2>3. PICK b : RightReq(b) /\ Broadcast(b) /\ g.buf = MsgOf(b)
    BY <2>2, <1>8, <1>10 DEF Silent
  <2>4. Onward(s, Poll, l)
    BY <2>1, <2>3, <1>6, ServeBroadcast
  <2>5. ServerNext(s, g) = Poll
    BY <2>2, <1>10 DEF ServerNext
  <2> QED
    BY <2>4, <2>5
<1> QED
  BY <1>13, <1>14, <1>15, <1>16, <1>17 DEF ServerStep

-----------------------------------------------------------------------------
\* A node that waits for a byte has none.
LEMMA NothingThere ==
  ASSUME NEW n, NEW y, IsWaiting(y), node[n] = y, rx[n] = <<>>
  PROVE  ~Arrived(n)
<1>1. Want(node[n]) = 1
  BY WaitingRec DEF Want
<1> QED
  BY <1>1, EmptyIsBytes DEF Arrived

LEMMA NothingToDo ==
  ASSUME NEW s, NEW y, IsWaiting(y), node[s] = y, rx[s] = <<>>,
         ServerStep(s), calm'
  PROVE  FALSE
<1>1. ~Arrived(s)
  BY NothingThere
<1> QED
  BY <1>1 DEF ServerStep, ServerReceive, ServerDiscard, ServerIgnore,
              ServerTimeout, Serve, HandleRequest

LEMMA AnyTid ==
  ASSUME NEW m, NEW t, NEW tid, NEW unit, NEW fc, NEW d,
         IsSent(m, t, unit, fc, d), Transport = "TCP" => t = tid
  PROVE  IsSent(m, tid, unit, fc, d)
BY DEF IsSent, IsMessage

\* The message of a server's answer to the request q is one.
LEMMA RepliesAnswer ==
  ASSUME CrcIsWord, TypeInv, NEW q, RightReq(q), NEW m, m = MsgOf(q),
         NEW fc \in Byte, NEW d \in Bytes, NEW n \in Small, n <= 253,
         NEW A, A = Message(TidOf(m), UnitOf(m), fc, n, d),
         TidOf(m) \in Word
  PROVE  IsSent(A, q.tid, q.unit, fc, d)
<1>1. /\ IsSent(m, q.tid, q.unit, q.fc, q.data) /\ q.unit \in Byte
      /\ Transport \in {"RTU", "TCP"}
  BY RequestLooksSo, Transports DEF TypeInv
<1>2. UnitOf(m) = q.unit /\ (Transport = "TCP" => TidOf(m) = q.tid)
  BY <1>1 DEF IsSent
<1>3. PICK t : t = TidOf(m)
  OBVIOUS
<1>4. IsSent(A, t, q.unit, fc, d)
  BY <1>1, <1>2, <1>3, SentLooksSo
<1> QED
  BY <1>2, <1>3, <1>4, AnyTid

\* A server that has read a request to itself does nothing but answer it.
Answers(s, A) ==
  /\ node' = [node EXCEPT ![s] = Poll] /\ rx' = [rx EXCEPT ![s] = <<>>]
  /\ air' = Append(air, [from |-> s, bytes |-> A])
  /\ UNCHANGED <<current_tid, calls, result>>

LEMMA HasHeard ==
  ASSUME CrcIsWord, TypeInv, NEW s \in Servers, NEW q, RightReq(q),
         <<node[s], rx[s]>> = Footer(Poll, MsgOf(q), ReqShape(q.fc), FALSE)
  PROVE  /\ node[s].stage = "footer" /\ node[s].kind = "req"
         /\ ~node[s].ignored /\ Got(s).buf = MsgOf(q) /\ Left(s) = <<>>
         /\ CrcOK(MsgOf(q))
<1>1. PICK m, sh : m = MsgOf(q) /\ sh = ReqShape(q.fc)
  OBVIOUS
<1>2. IsSent(m, q.tid, q.unit, q.fc, q.data) /\ Fits(m, sh)
  BY <1>1, RequestLooksSo DEF TypeInv
<1>3. PICK x : x = Poll
  OBVIOUS
<1>4. IsWaiting(x) /\ x.kind = "req"
  BY <1>3 DEF IsWaiting, Poll, Waiting
<1>5. PICK r, w : r = node[s] /\ w = rx[s]
  OBVIOUS
<1>6. <<r, w>> = Footer(x, m, sh, FALSE)
  BY <1>1, <1>3, <1>5
<1>7. <<r, w>> \in Points(x, m, sh, FALSE)
  BY <1>6 DEF Points
<1>8. Goes(x, m, sh, FALSE, r, w)
  BY <1>2, <1>4, <1>7, Advance
<1>9. r.stage = "footer"
  BY <1>6 DEF Footer, At, Rec
<1>10. /\ r.ignored = FALSE /\ r.kind = "req"
       /\ Grow(r, w) = Rec("footer", x, m, sh, FALSE) /\ Rest(r, w) = <<>>
  BY <1>4, <1>8, <1>9 DEF Goes
<1>11. Grow(r, w).buf = m
  BY <1>10 DEF Rec
<1> QED
  BY <1>1, <1>2, <1>5, <1>9, <1>10, <1>11, GotIs DEF IsSent

LEMMA ServerAnswers ==
  ASSUME CrcIsWord, TypeInv, NEW s \in Servers, NEW q, RightReq(q),
         Mine(s, q),
         <<node[s], rx[s]>> = Footer(Poll, MsgOf(q), ReqShape(q.fc), FALSE),
         ServerStep(s), calm'
  PROVE  \E A : IsAnswer(A, q, calls) /\ Answers(s, A)
<1>1. PICK m : m = MsgOf(q)
  OBVIOUS
<1>2. /\ node[s].stage = "footer" /\ node[s].kind = "req"
      /\ ~node[s].ignored /\ Got(s).buf = m /\ Left(s) = <<>> /\ CrcOK(m)
  BY <1>1, HasHeard
<1>3. PICK cb \in CallbackResults, cbRead \in CallbackResults :
        Serve(s, cb, cbRead)
  BY <1>2 DEF ServerStep, ServerReceive, ServerDiscard, ServerIgnore,
              ServerTimeout
<1>4. /\ Arrived(s) /\ node' = [node EXCEPT ![s] = Poll]
      /\ rx' = [rx EXCEPT ![s] = <<>>]
      /\ UNCHANGED <<current_tid, calls, result>>
  BY <1>2, <1>3, ServeIs
<1>5. PICK err, broadcast :
        /\ broadcast <=> Transport = "RTU"
             /\ UnitOf(node[s].buf) = NMBS_BROADCAST_ADDRESS
        /\ Verdict(FcOf(m), DataOf(m), cb, cbRead, broadcast, err)
        /\ Replies(s, m, err, broadcast)
  BY <1>2, <1>3, ServeIs
<1>6. /\ IsSent(m, q.tid, q.unit, q.fc, q.data) /\ GoodRequest(q.fc, q.data)
      /\ q.fc \in FunctionCodes
  BY <1>1, RequestLooksSo DEF TypeInv
<1>7. UnitOf(m) = UnitOf(node[s].buf) /\ TidOf(m) \in Word
  BY <1>2, <1>4, GotRequest
<1>8. ~broadcast
  <2>1. s # 0
    BY Transports DEF TypeInv
  <2>2. Transport = "RTU" => q.unit # 0
    BY <2>1 DEF Mine
  <2> QED
    BY <2>2, <1>5, <1>6, <1>7 DEF IsSent, NMBS_BROADCAST_ADDRESS
<1>9. PICK fc, d : fc = q.fc /\ d = q.data
  OBVIOUS
<1>10. FcOf(m) = fc /\ DataOf(m) = d /\ Judge(fc, d) = NMBS_ERROR_NONE
  BY <1>6, <1>9 DEF IsSent, GoodRequest
<1>11. err \in {NMBS_ERROR_NONE, DEVICE_FAILURE}
  <2>1. ~is_exception(cb) /\ ~is_exception(cbRead)
    BY DEF TypeInv, RightUse
  <2> QED
    BY <2>1, <1>5, <1>10 DEF Verdict
<1>12. fc \in Byte /\ fc + 128 \in Byte /\ fc \in FunctionCodes
  BY <1>6, <1>9 DEF FunctionCodes, Byte
<1>13. CASE err # NMBS_ERROR_NONE
  <2>1. PICK e : e = <<DEVICE_FAILURE>>
    OBVIOUS
  <2>2. Reply(s, m, fc + 128, 1, e)
    BY <2>1, <1>5, <1>10, <1>11, <1>13 DEF Replies, ReplyException
  <2>3. PICK A : A = Message(TidOf(m), UnitOf(m), fc + 128, 1, e)
    OBVIOUS
  <2>4. 1 \in Small /\ 1 <= 253 /\ e \in Bytes
    BY <2>1, ExceptionData DEF Small
  <2>5. IsSent(A, q.tid, q.unit, fc + 128, e)
    BY <2>3, <2>4, <1>1, <1>7, <1>12, RepliesAnswer
  <2>6. IsAnswer(A, q, calls)
    BY <2>1, <2>5, <1>9 DEF IsAnswer
  <2>7. Answers(s, A)
    BY <2>2, <2>3, <1>4 DEF Reply, Answers
  <2> QED
    BY <2>6, <2>7
<1>14. CASE err = NMBS_ERROR_NONE
  <2>1. PICK a : a = Answer(fc, d, calls)
    OBVIOUS
  <2>2. PICK n : n = AnswerLength(fc, a)
    OBVIOUS
  <2>3. Reply(s, m, fc, n, a)
    BY <2>1, <2>2, <1>5, <1>8, <1>10, <1>14 DEF Replies
  <2>4. PICK A : A = Message(TidOf(m), UnitOf(m), fc, n, a)
    OBVIOUS
  <2>5. calls \in Byte
    BY CallsIsByte
  <2>6. GoodAnswer(fc, d, calls)
    BY <2>5, <1>6, <1>9 DEF GoodRequest
  <2>7. /\ HasShape(a, ResShape(fc)) /\ n \in 0..253
        /\ Accept(fc, d, a) = NMBS_ERROR_NONE
        /\ fc \in Reads \cup {23} => a[Len(a)] = calls
    BY <2>1, <2>2, <2>6 DEF GoodAnswer
  <2>8. n \in Small /\ n <= 253 /\ a \in Bytes
    <3>1. n \in Small /\ n <= 253
      BY <2>7 DEF Small
    <3>2. a \in Bytes
      BY <2>7 DEF HasShape
    <3> QED
      BY <3>1, <3>2
  <2>9. IsSent(A, q.tid, q.unit, fc, a)
    BY <2>4, <2>8, <1>1, <1>7, <1>12, RepliesAnswer
  <2>10. q.raw > 0 => Len(a) = q.raw
    BY <2>1, <2>5, <1>9 DEF RightReq, RightCall
  <2>11. IsAnswer(A, q, calls)
    BY <2>7, <2>9, <2>10, <1>9 DEF IsAnswer
  <2>12. Answers(s, A)
    BY <2>3, <2>4, <1>4 DEF Reply, Answers
  <2> QED
    BY <2>11, <2>12
<1> QED
  BY <1>13, <1>14

-----------------------------------------------------------------------------
(* What a calm line goes through, from one call to the next: the nodes nd, *)
(* what has arrived at them rv, and what is under way ar.                  *)
Waits(nd, rv) == \A s \in Servers : Lags(s, nd[s], rv[s], <<Poll, <<>>>>)

HaveHeard(nd, rv, q) ==
  \A s \in Servers : Lags(s, nd[s], rv[s], HeardBy(s, q))

Asking(c, q) == c = Waiting("res", q) \/ c = [Idle(q) EXCEPT !.stage = "sent"]

FromClient(q) == [from |-> Client, bytes |-> MsgOf(q)]

AreBroadcasts(a) ==
  /\ a \in Seq(SentBytes)
  /\ \A i \in 1..Len(a) :
       \E b : RightReq(b) /\ Broadcast(b) /\ a[i] = FromClient(b)

\* The result of the n-th call is one that a calm line allows.
Fine(res, n) ==
  /\ res.err \in {NMBS_ERROR_NONE, NMBS_ERROR_INVALID_ARGUMENT, DEVICE_FAILURE}
  /\ res.op.fc \in Reads \cup {23} /\ res.err = NMBS_ERROR_NONE =>
       res.data[Len(res.data)] = n

Quiet(nd, rv, ar, n, res) ==
  /\ nd[Client].stage = "idle" /\ rv[Client] = <<>>
  /\ AreBroadcasts(ar) /\ Waits(nd, rv) /\ Fine(res, n)

Asked(nd, rv, ar, q) ==
  /\ Asking(nd[Client], q) /\ rv[Client] = <<>> /\ Waits(nd, rv)
  /\ \E a : AreBroadcasts(a) /\ ar = Append(a, FromClient(q))

Heard(nd, rv, ar, q) ==
  /\ Asking(nd[Client], q) /\ rv[Client] = <<>> /\ ar = <<>>
  /\ HaveHeard(nd, rv, q)

ReplyFrom(t, A, nd, rv, ar, q, n) ==
  /\ IsAnswer(A, q, n) /\ Mine(t, q) /\ ar = <<[from |-> t, bytes |-> A]>>
  /\ Lags(t, nd[t], rv[t], <<Poll, <<>>>>)
  /\ \A s \in Servers :
       s # t => ~Mine(s, q) /\ Lags(s, nd[s], rv[s], HeardBy(s, q))

Replied(nd, rv, ar, q, n) ==
  /\ Asking(nd[Client], q) /\ rv[Client] = <<>>
  /\ \E t \in Servers : \E A : ReplyFrom(t, A, nd, rv, ar, q, n)

Within(c, w, A, q) ==
  \/ Asking(c, q) /\ w = A
  \/ <<c, w>> \in Points(Waiting("res", q), A, ClientSees(A, q), FALSE)

Reading(nd, rv, ar, q, n) ==
  /\ ar = <<>> /\ Waits(nd, rv)
  /\ \E A : IsAnswer(A, q, n) /\ Within(nd[Client], rv[Client], A, q)

InOrder(nd, rv, ar, n, res) ==
  \/ Quiet(nd, rv, ar, n, res)
  \/ \E q : /\ RightReq(q)
            /\ \/ Asked(nd, rv, ar, q) \/ Heard(nd, rv, ar, q)
               \/ Replied(nd, rv, ar, q, n) \/ Reading(nd, rv, ar, q, n)

-----------------------------------------------------------------------------
\* One server's step.
Others(s) ==
  \A k \in Nodes : k # s => node'[k] = node[k] /\ rx'[k] = rx[k]

LEMMA Updated ==
  ASSUME TypeInv, NEW n \in Nodes, NEW r, NEW q,
         node' = [node EXCEPT ![n] = r], rx' = [rx EXCEPT ![n] = q]
  PROVE  node'[n] = r /\ rx'[n] = q /\ Others(n)
<1>1. node = [k \in Nodes |-> node[k]]
  BY DEF TypeInv, NodesOK
<1>2. rx \in [Nodes -> Bytes]
  BY DEF TypeInv, RxOK
<1>3. node'[n] = r /\ \A k \in Nodes : k # n => node'[k] = node[k]
  BY <1>1
<1>4. rx'[n] = q /\ \A k \in Nodes : k # n => rx'[k] = rx[k]
  BY <1>2
<1> QED
  BY <1>3, <1>4 DEF Others

LEMMA StepBehind ==
  ASSUME CrcIsWord, TypeInv, NEW s \in Servers, NEW e,
         Lags(s, node[s], rx[s], e), ServerStep(s), calm',
         <<node[s], rx[s]>> # e
  PROVE  /\ Lags(s, node'[s], rx'[s], e) /\ Others(s)
         /\ UNCHANGED <<air, current_tid, calls, result>>
<1>1. PICK r, q : Onward(s, r, q) /\ Lags(s, r, q, e)
  BY Follow
<1>2. s \in Nodes
  BY ServerIs
<1>3. node'[s] = r /\ rx'[s] = q /\ Others(s)
  BY <1>1, <1>2, Updated DEF Onward
<1> QED
  BY <1>1, <1>3 DEF Onward

LEMMA Waiters ==
  IsWaiting(Poll) /\ \A q : IsWaiting(Waiting("res", q))
BY DEF IsWaiting, Poll

LEMMA StepToPoll ==
  ASSUME CrcIsWord, TypeInv, NEW s \in Servers, NEW y, IsWaiting(y),
         Lags(s, node[s], rx[s], <<y, <<>>>>), ServerStep(s), calm'
  PROVE  /\ Lags(s, node'[s], rx'[s], <<y, <<>>>>) /\ Others(s)
         /\ UNCHANGED <<air, current_tid, calls, result>>
<1>1. CASE <<node[s], rx[s]>> = <<y, <<>>>>
  <2>1. node[s] = y /\ rx[s] = <<>>
    BY <1>1
  <2> QED
    BY <2>1, NothingToDo
<1>2. CASE <<node[s], rx[s]>> # <<y, <<>>>>
  BY <1>2, StepBehind
<1> QED
  BY <1>1, <1>2

\* All servers on their way to a poll: they stay so.
LEMMA WaitsOn ==
  ASSUME CrcIsWord, TypeInv, NEW s \in Servers, ServerStep(s), calm',
         Waits(node, rx)
  PROVE  /\ Waits(node', rx') /\ node'[Client] = node[Client]
         /\ rx'[Client] = rx[Client]
         /\ UNCHANGED <<air, current_tid, calls, result>>
<1>1. Lags(s, node[s], rx[s], <<Poll, <<>>>>)
  BY DEF Waits
<1>2. /\ Lags(s, node'[s], rx'[s], <<Poll, <<>>>>) /\ Others(s)
      /\ UNCHANGED <<air, current_tid, calls, result>>
  BY <1>1, Waiters, StepToPoll
<1>3. Client \in Nodes /\ Client # s /\ Servers \subseteq Nodes
  BY ServerIs, Transports DEF TypeInv, Nodes
<1>4. ASSUME NEW t \in Servers
      PROVE  Lags(t, node'[t], rx'[t], <<Poll, <<>>>>)
  <2>1. CASE t = s
    BY <2>1, <1>2
  <2>2. CASE t # s
    <3>1. node'[t] = node[t] /\ rx'[t] = rx[t]
      BY <2>2, <1>2, <1>3 DEF Others
    <3> QED
      BY <3>1 DEF Waits
  <2> QED
    BY <2>1, <2>2
<1> QED
  BY <1>2, <1>3, <1>4 DEF Waits, Others

-----------------------------------------------------------------------------
\* What a server has left to do that is not asked.
LEMMA NotMine ==
  ASSUME NEW s, NEW q, ~Mine(s, q)
  PROVE  \E y : IsWaiting(y) /\ HeardBy(s, q) = <<y, <<>>>>
<1>1. CASE Broadcast(q)
  BY <1>1, Waiters DEF HeardBy
<1>2. CASE ~Broadcast(q)
  BY <1>2, Waiters DEF HeardBy
<1> QED
  BY <1>1, <1>2

\* There is one server that a request is for.
LEMMA OnlyMine ==
  ASSUME TypeInv, NEW q, NEW s \in Servers, Mine(s, q),
         NEW t \in Servers, t # s
  PROVE  ~Mine(t, q)
<1>1. Transport # "TCP"
  BY DEF TypeInv, RightUse
<1> QED
  BY <1>1 DEF Mine

LEMMA ServerHeard ==
  ASSUME CrcIsWord, TypeInv, NEW s \in Servers, ServerStep(s), calm',
         NEW q, RightReq(q), Heard(node, rx, air, q)
  PROVE  \/ Heard(node', rx', air', q) /\ UNCHANGED <<calls, result>>
         \/ Replied(node', rx', air', q, calls) /\ UNCHANGED <<calls, result>>
<1>1. /\ Asking(node[Client], q) /\ rx[Client] = <<>> /\ air = <<>>
      /\ \A t \in Servers : Lags(t, node[t], rx[t], HeardBy(t, q))
  BY DEF Heard, HaveHeard
<1>2. Client \in Nodes /\ Client # s /\ Servers \subseteq Nodes /\ s \in Nodes
  BY ServerIs, Transports DEF TypeInv, Nodes
<1>3. ASSUME Others(s)
      PROVE  /\ node'[Client] = node[Client] /\ rx'[Client] = rx[Client]
             /\ \A t \in Servers : t # s =>
                  Lags(t, node'[t], rx'[t], HeardBy(t, q))
  <2>1. \A t \in Servers : t # s => node'[t] = node[t] /\ rx'[t] = rx[t]
    BY <1>2, <1>3 DEF Others
  <2> QED
    BY <2>1, <1>1, <1>2, <1>3 DEF Others
<1>4. ASSUME /\ Lags(s, node'[s], rx'[s], HeardBy(s, q)) /\ Others(s)
             /\ UNCHANGED air
      PROVE  Heard(node', rx', air', q)
  BY <1>1, <1>3, <1>4 DEF Heard, HaveHeard
<1>5. CASE <<node[s], rx[s]>> # HeardBy(s, q)
  <2>1. PICK e : e = HeardBy(s, q)
    OBVIOUS
  <2>2. /\ Lags(s, node'[s], rx'[s], e) /\ Others(s)
        /\ UNCHANGED <<air, current_tid, calls, result>>
    BY <2>1, <1>1, <1>5, StepBehind
  <2> QED
    BY <2>1, <2>2, <1>4
<1>6. CASE <<node[s], rx[s]>> = HeardBy(s, q) /\ ~Mine(s, q)
  <2>1. PICK y : IsWaiting(y) /\ HeardBy(s, q) = <<y, <<>>>>
    BY <1>6, NotMine
  <2>2. /\ Lags(s, node'[s], rx'[s], <<y, <<>>>>) /\ Others(s)
        /\ UNCHANGED <<air, current_tid, calls, result>>
    BY <2>1, <1>1, StepToPoll
  <2> QED
    BY <2>1, <2>2, <1>4
<1>7. CASE <<node[s], rx[s]>> = HeardBy(s, q) /\ Mine(s, q)
  <2>1. <<node[s], rx[s]>> = Footer(Poll, MsgOf(q), ReqShape(q.fc), FALSE)
    BY <1>7 DEF HeardBy
  <2>2. PICK A : IsAnswer(A, q, calls) /\ Answers(s, A)
    BY <2>1, <1>7, ServerAnswers
  <2>3. /\ node' = [node EXCEPT ![s] = Poll] /\ rx' = [rx EXCEPT ![s] = <<>>]
        /\ air' = Append(air, [from |-> s, bytes |-> A])
        /\ UNCHANGED <<calls, result>>
    BY <2>2 DEF Answers
  <2>4. node'[s] = Poll /\ rx'[s] = <<>> /\ Others(s)
    BY <2>3, <1>2, Updated
  <2>5. air' = <<[from |-> s, bytes |-> A]>>
    BY <2>3, <1>1
  <2>6. Lags(s, node'[s], rx'[s], <<Poll, <<>>>>)
    BY <2>4, LagsNot
  <2>7. \A t \in Servers : t # s =>
          ~Mine(t, q) /\ Lags(t, node'[t], rx'[t], HeardBy(t, q))
    BY <2>4, <1>3, <1>7, OnlyMine
  <2>8. ReplyFrom(s, A, node', rx', air', q, calls)
    BY <2>2, <2>5, <2>6, <2>7, <1>7 DEF ReplyFrom
  <2> QED
    BY <2>3, <2>4, <2>8, <1>1, <1>3 DEF Replied
<1> QED
  BY <1>5, <1>6, <1>7

LEMMA ServerReplied ==
  ASSUME CrcIsWord, TypeInv, NEW s \in Servers, ServerStep(s), calm',
         NEW q, Replied(node, rx, air, q, calls)
  PROVE  Replied(node', rx', air', q, calls) /\ UNCHANGED <<calls, result>>
<1>0. PICK t \in Servers : \E A : ReplyFrom(t, A, node, rx, air, q, calls)
  BY DEF Replied
<1>1. PICK A : ReplyFrom(t, A, node, rx, air, q, calls)
  BY <1>0
<1>2. /\ IsAnswer(A, q, calls) /\ Mine(t, q)
      /\ air = <<[from |-> t, bytes |-> A]>>
      /\ Lags(t, node[t], rx[t], <<Poll, <<>>>>)
      /\ \A k \in Servers :
           k # t => ~Mine(k, q) /\ Lags(k, node[k], rx[k], HeardBy(k, q))
  BY <1>1 DEF ReplyFrom
<1>3. Client \in Nodes /\ Client # s /\ Servers \subseteq Nodes
  BY ServerIs, Transports DEF TypeInv, Nodes
<1>4. PICK e : /\ Lags(s, node[s], rx[s], e)
               /\ \E y : IsWaiting(y) /\ e = <<y, <<>>>>
               /\ s = t => e = <<Poll, <<>>>>
               /\ s # t => e = HeardBy(s, q)
  <2>1. CASE s = t
    BY <2>1, <1>2, Waiters
  <2>2. CASE s # t
    BY <2>2, <1>2, NotMine
  <2> QED
    BY <2>1, <2>2
<1>5. /\ Lags(s, node'[s], rx'[s], e) /\ Others(s)
      /\ UNCHANGED <<air, current_tid, calls, result>>
  <2>1. PICK y : IsWaiting(y) /\ e = <<y, <<>>>>
    BY <1>4
  <2> QED
    BY <2>1, <1>4, StepToPoll
<1>6. \A k \in Nodes : k # s => node'[k] = node[k] /\ rx'[k] = rx[k]
  BY <1>5 DEF Others
<1>7. Lags(t, node'[t], rx'[t], <<Poll, <<>>>>)
  <2>1. CASE s = t
    BY <2>1, <1>4, <1>5
  <2>2. CASE s # t
    BY <2>2, <1>2, <1>3, <1>6
  <2> QED
    BY <2>1, <2>2
<1>8. ASSUME NEW k \in Servers, k # t
      PROVE  ~Mine(k, q) /\ Lags(k, node'[k], rx'[k], HeardBy(k, q))
  <2>1. CASE k = s
    BY <2>1, <1>2, <1>4, <1>5, <1>8
  <2>2. CASE k # s
    BY <2>2, <1>2, <1>3, <1>6, <1>8
  <2> QED
    BY <2>1, <2>2
<1>9. ReplyFrom(t, A, node', rx', air', q, calls)
  BY <1>2, <1>5, <1>7, <1>8 DEF ReplyFrom
<1>10. Asking(node'[Client], q) /\ rx'[Client] = <<>>
  BY <1>3, <1>6 DEF Replied
<1> QED
  BY <1>5, <1>9, <1>10 DEF Replied

\* A server's step keeps the line in order.
LEMMA OrderServer ==
  ASSUME CrcIsWord, TypeInv, NEW s \in Servers, ServerStep(s), calm',
         InOrder(node, rx, air, calls, result)
  PROVE  InOrder(node', rx', air', calls', result')
<1>1. CASE Quiet(node, rx, air, calls, result)
  <2>1. /\ Waits(node', rx') /\ node'[Client] = node[Client]
        /\ rx'[Client] = rx[Client]
        /\ UNCHANGED <<air, current_tid, calls, result>>
    BY <1>1, WaitsOn DEF Quiet
  <2>2. Quiet(node', rx', air', calls', result')
    BY <2>1, <1>1 DEF Quiet
  <2> QED
    BY <2>2 DEF InOrder
<1>2. CASE ~Quiet(node, rx, air, calls, result)
  <2>1. PICK q : /\ RightReq(q)
                 /\ \/ Asked(node, rx, air, q) \/ Heard(node, rx, air, q)
                    \/ Replied(node, rx, air, q, calls)
                    \/ Reading(node, rx, air, q, calls)
    BY <1>2 DEF InOrder
  <2>2. ASSUME \/ Asked(node', rx', air', q) \/ Heard(node', rx', air', q)
               \/ Replied(node', rx', air', q, calls')
               \/ Reading(node', rx', air', q, calls')
        PROVE  InOrder(node', rx', air', calls', result')
    BY <2>1, <2>2 DEF InOrder
  <2>3. ASSUME Waits(node, rx)
        PROVE  /\ Waits(node', rx') /\ node'[Client] = node[Client]
               /\ rx'[Client] = rx[Client] /\ air' = air /\ calls' = calls
    BY <2>3, WaitsOn
  <2>4. CASE Asked(node, rx, air, q)
    <3>1. Asked(node', rx', air', q)
      BY <2>3, <2>4 DEF Asked
    <3> QED
      BY <3>1, <2>2
  <2>5. CASE Heard(node, rx, air, q)
    <3>1. \/ Heard(node', rx', air', q) /\ calls' = calls
          \/ Replied(node', rx', air', q, calls) /\ calls' = calls
      BY <2>1, <2>5, ServerHeard
    <3> QED
      BY <3>1, <2>2
  <2>6. CASE Replied(node, rx, air, q, calls)
    <3>1. Replied(node', rx', air', q, calls) /\ calls' = calls
      BY <2>6, ServerReplied
    <3> QED
      BY <3>1, <2>2
  <2>7. CASE Reading(node, rx, air, q, calls)
    <3>1. Reading(node', rx', air', q, calls')
      BY <2>3, <2>7 DEF Reading
    <3> QED
      BY <3>1, <2>2
  <2> QED
    BY <2>1, <2>4, <2>5, <2>6, <2>7
<1> QED
  BY <1>1, <1>2

-----------------------------------------------------------------------------
\* A request between two calls is not being made.
LEMMA AskingStage ==
  ASSUME NEW c, NEW q, Asking(c, q)
  PROVE  c.stage \in {"first", "sent"} /\ c.req = q
<1>1. PICK w : w = Waiting("res", q)
  OBVIOUS
<1>2. /\ w.stage = "first" /\ w.req = q
      /\ w = [stage |-> w.stage, kind |-> w.kind, buf |-> w.buf,
              req |-> w.req, shape |-> w.shape, ignored |-> w.ignored]
  BY <1>1 DEF Waiting
<1>3. PICK i : i = Idle(q)
  OBVIOUS
<1>4. i = [w EXCEPT !.stage = "idle"]
  BY <1>1, <1>3 DEF Idle
<1>5. /\ i.req = q
      /\ i = [stage |-> i.stage, kind |-> i.kind, buf |-> i.buf,
              req |-> i.req, shape |-> i.shape, ignored |-> i.ignored]
  BY <1>2, <1>4
<1>6. c = w \/ c = [i EXCEPT !.stage = "sent"]
  BY <1>1, <1>3 DEF Asking
<1> QED
  BY <1>2, <1>5, <1>6

LEMMA PointStage ==
  ASSUME NEW x, IsWaiting(x), NEW m, NEW sh, NEW ign,
         NEW r, NEW w, <<r, w>> \in Points(x, m, sh, ign)
  PROVE  r.stage \notin {"idle", "sent"}
<1>1. x.stage = "first"
  BY WaitingRec
<1>2. PICK p : p = <<r, w>>
  OBVIOUS
<1>3. \/ p = <<x, m>> \/ p = At("header", x, m, Fixed(0), FALSE, 1)
      \/ p = At("fixed", x, m, sh, ign, HeaderLen)
      \/ p = Footer(x, m, sh, ign)
      \/ p = At("data", x, m, sh, ign, HeaderLen + sh.fixed)
  BY <1>2 DEF Points
<1>4. p[1].stage \in {"first", "header", "fixed", "footer", "data"}
  BY <1>1, <1>3 DEF At, Footer, Rec
<1> QED
  BY <1>2, <1>4

LEMMA IdleIsQuiet ==
  ASSUME InOrder(node, rx, air, calls, result), node[Client].stage = "idle"
  PROVE  Quiet(node, rx, air, calls, result)
<1>1. ASSUME NEW q, \/ Asked(node, rx, air, q) \/ Heard(node, rx, air, q)
                    \/ Replied(node, rx, air, q, calls)
      PROVE  FALSE
  <2>1. Asking(node[Client], q)
    BY <1>1 DEF Asked, Heard, Replied
  <2> QED
    BY <2>1, AskingStage
<1>2. ASSUME NEW q, Reading(node, rx, air, q, calls)
      PROVE  FALSE
  <2>1. PICK A : Within(node[Client], rx[Client], A, q)
    BY <1>2 DEF Reading
  <2>2. CASE Asking(node[Client], q)
    BY <2>2, AskingStage
  <2>3. CASE ~Asking(node[Client], q)
    <3>1. PICK x : x = Waiting("res", q)
      OBVIOUS
    <3>2. PICK sh : sh = ClientSees(A, q)
      OBVIOUS
    <3>3. <<node[Client], rx[Client]>> \in Points(x, A, sh, FALSE)
      BY <2>1, <2>3, <3>1, <3>2 DEF Within
    <3>4. IsWaiting(x)
      BY <3>1, Waiters
    <3> QED
      BY <3>3, <3>4, PointStage
  <2> QED
    BY <2>2, <2>3
<1> QED
  BY <1>1, <1>2 DEF InOrder

LEMMA OrderCallRefused ==
  ASSUME NEW op, CallRefused(op), InOrder(node, rx, air, calls, result)
  PROVE  InOrder(node', rx', air', calls', result')
<1>1. /\ node[Client].stage = "idle" /\ calls' = calls + 1
      /\ Return(op, NMBS_ERROR_INVALID_ARGUMENT, <<>>)
      /\ UNCHANGED <<node, rx, air>>
  BY DEF CallRefused, Free
<1>2. Quiet(node, rx, air, calls, result)
  BY <1>1, IdleIsQuiet
<1>3. Fine(result', calls')
  <2>1. result'.err = NMBS_ERROR_INVALID_ARGUMENT
    BY <1>1 DEF Return
  <2>2. NMBS_ERROR_INVALID_ARGUMENT # NMBS_ERROR_NONE
    BY DEF NMBS_ERROR_INVALID_ARGUMENT, NMBS_ERROR_NONE
  <2> QED
    BY <2>1, <2>2 DEF Fine
<1>4. Quiet(node', rx', air', calls', result')
  BY <1>1, <1>2, <1>3 DEF Quiet
<1> QED
  BY <1>4 DEF InOrder

LEMMA RequestIsRight ==
  ASSUME TypeInv, NEW op \in Ops, op.data # Refused
  PROVE  /\ RightReq(Request(op))
         /\ Broadcast(Request(op)) <=> Broadcast(op)
         /\ MsgOf(Request(op)) =
              Message(NextTid, op.unit, op.fc, Len(op.data), op.data)
<1>1. RightCall(op) /\ NextTid \in Word
  BY NextTidIs DEF TypeInv, RightUse
<1>2. PICK q : q = Request(op)
  OBVIOUS
<1>3. /\ q.raw = op.raw /\ q.unit = op.unit /\ q.fc = op.fc
      /\ q.data = op.data /\ q.tid = NextTid
  BY <1>2, RequestIs
<1>4. Broadcast(q) <=> Broadcast(op)
  BY <1>3 DEF Broadcast
<1>5. RightCall(q)
  BY <1>1, <1>3, <1>4 DEF RightCall
<1>6. RightReq(q)
  BY <1>1, <1>3, <1>5 DEF RightReq
<1>7. MsgOf(q) = Message(NextTid, op.unit, op.fc, Len(op.data), op.data)
  BY <1>3 DEF MsgOf
<1> QED
  BY <1>2, <1>4, <1>6, <1>7

LEMMA FromClientIs ==
  ASSUME CrcIsWord, TypeInv, NEW q, RightReq(q)
  PROVE  FromClient(q) \in SentBytes
<1>1. IsSent(MsgOf(q), q.tid, q.unit, q.fc, q.data)
  BY RequestLooksSo DEF TypeInv
<1>2. MsgOf(q) \in Bytes /\ Client \in Nat
  BY <1>1 DEF IsSent, Client
<1> QED
  BY <1>2 DEF FromClient, SentBytes

LEMMA OneMoreBroadcast ==
  ASSUME CrcIsWord, TypeInv, NEW a, AreBroadcasts(a),
         NEW q, RightReq(q), Broadcast(q)
  PROVE  AreBroadcasts(Append(a, FromClient(q)))
<1>1. PICK f, b : f = FromClient(q) /\ b = Append(a, f)
  OBVIOUS
<1>2. f \in SentBytes /\ a \in Seq(SentBytes)
  BY <1>1, FromClientIs DEF AreBroadcasts
<1>3. /\ b \in Seq(SentBytes) /\ Len(b) = Len(a) + 1 /\ Len(a) \in Nat
      /\ \A i \in 1..Len(a) : b[i] = a[i]
      /\ b[Len(a) + 1] = f
  BY <1>1, <1>2, AppendProperties
<1>4. ASSUME NEW i \in 1..Len(b)
      PROVE  \E c : RightReq(c) /\ Broadcast(c) /\ b[i] = FromClient(c)
  <2>1. CASE i \in 1..Len(a)
    BY <2>1, <1>3 DEF AreBroadcasts
  <2>2. CASE i = Len(a) + 1
    BY <2>2, <1>1, <1>3
  <2> QED
    BY <2>1, <2>2, <1>3
<1> QED
  BY <1>1, <1>3, <1>4 DEF AreBroadcasts

LEMMA OrderCall ==
  ASSUME CrcIsWord, TypeInv, NEW op \in Ops, Call(op),
         InOrder(node, rx, air, calls, result)
  PROVE  InOrder(node', rx', air', calls', result')
<1>1. PICK q, f : q = Request(op) /\ f = FromClient(q)
  OBVIOUS
<1>2. /\ RightReq(q) /\ (Broadcast(q) <=> Broadcast(op))
      /\ MsgOf(q) = Message(NextTid, op.unit, op.fc, Len(op.data), op.data)
  BY <1>1, RequestIsRight DEF Call
<1>3. /\ node[Client].stage = "idle" /\ calls' = calls + 1
      /\ air' = Append(air, f) /\ rx' = rx
      /\ IF op.raw > 0 \/ (Broadcast(op) /\ op.fc \notin Reads)
         THEN /\ node' = [node EXCEPT ![Client] =
                   [Idle(q) EXCEPT
                      !.stage = IF op.raw > 0 THEN "sent" ELSE "idle"]]
              /\ Return(op, NMBS_ERROR_NONE, <<>>)
         ELSE /\ node' = [node EXCEPT ![Client] = Waiting("res", q)]
              /\ UNCHANGED result
  BY <1>1, <1>2 DEF Call, Free, FromClient
<1>4. /\ node[Client].stage = "idle" /\ rx[Client] = <<>>
      /\ AreBroadcasts(air) /\ Waits(node, rx) /\ Fine(result, calls)
  BY <1>3, IdleIsQuiet DEF Quiet
<1>5. ASSUME NEW r, node' = [node EXCEPT ![Client] = r]
      PROVE  node'[Client] = r /\ Waits(node', rx') /\ rx'[Client] = <<>>
  <2>1. node = [k \in Nodes |-> node[k]] /\ Client \in Nodes
        /\ Client \notin Servers
    BY Transports DEF TypeInv, NodesOK
  <2>2. node'[Client] = r /\ \A k \in Nodes : k # Client => node'[k] = node[k]
    BY <2>1, <1>5
  <2>3. \A s \in Servers : node'[s] = node[s]
    BY <2>1, <2>2 DEF Nodes
  <2> QED
    BY <2>2, <2>3, <1>3, <1>4 DEF Waits
<1>6. ASSUME Asking(node'[Client], q), Waits(node', rx'), rx'[Client] = <<>>
      PROVE  InOrder(node', rx', air', calls', result')
  <2>1. Asked(node', rx', air', q)
    BY <1>1, <1>3, <1>4, <1>6 DEF Asked
  <2> QED
    BY <2>1, <1>2 DEF InOrder
<1>7. CASE op.raw > 0
  <2>1. node' = [node EXCEPT ![Client] = [Idle(q) EXCEPT !.stage = "sent"]]
    BY <1>3, <1>7
  <2>2. Asking([Idle(q) EXCEPT !.stage = "sent"], q)
    BY DEF Asking
  <2> QED
    BY <2>1, <2>2, <1>5, <1>6
<1>8. CASE ~(op.raw > 0) /\ Broadcast(op) /\ op.fc \notin Reads
  <2>1. /\ node' = [node EXCEPT ![Client] = [Idle(q) EXCEPT !.stage = "idle"]]
        /\ Return(op, NMBS_ERROR_NONE, <<>>)
    BY <1>3, <1>8
  <2>2. node'[Client].stage = "idle" /\ Waits(node', rx') /\ rx'[Client] = <<>>
    <3>1. [Idle(q) EXCEPT !.stage = "idle"].stage = "idle"
      BY DEF Idle, Waiting
    <3> QED
      BY <3>1, <2>1, <1>5
  <2>3. AreBroadcasts(air')
    BY <1>1, <1>2, <1>3, <1>4, <1>8, OneMoreBroadcast
  <2>4. op.fc # 23
    BY <1>8 DEF TypeInv, RightUse, RightCall
  <2>5. Fine(result', calls')
    <3>1. result'.op = op /\ result'.err = NMBS_ERROR_NONE
      BY <2>1 DEF Return
    <3> QED
      BY <3>1, <2>4, <1>8 DEF Fine
  <2>6. Quiet(node', rx', air', calls', result')
    BY <2>2, <2>3, <2>5 DEF Quiet
  <2> QED
    BY <2>6 DEF InOrder
<1>9. CASE ~(op.raw > 0) /\ ~(Broadcast(op) /\ op.fc \notin Reads)
  <2>1. node' = [node EXCEPT ![Client] = Waiting("res", q)]
    BY <1>3, <1>9
  <2>2. Asking(Waiting("res", q), q)
    BY DEF Asking
  <2> QED
    BY <2>1, <2>2, <1>5, <1>6
<1> QED
  BY <1>7, <1>8, <1>9

LEMMA OrderAskRaw ==
  ASSUME TypeInv, nmbs_receive_raw_pdu_response,
         InOrder(node, rx, air, calls, result)
  PROVE  InOrder(node', rx', air', calls', result')
<1>1. /\ node[Client].stage = "sent"
      /\ node' = [node EXCEPT ![Client] = Waiting("res", @.req)]
      /\ UNCHANGED <<rx, air, calls, result>>
  BY DEF nmbs_receive_raw_pdu_response
<1>2. PICK c : c = node[Client]
  OBVIOUS
<1>3. node = [k \in Nodes |-> node[k]] /\ Client \in Nodes
      /\ Client \notin Servers
  BY Transports DEF TypeInv, NodesOK
<1>4. /\ node'[Client] = Waiting("res", c.req)
      /\ \A k \in Servers : node'[k] = node[k]
  <2>1. node' = [node EXCEPT ![Client] = Waiting("res", c.req)]
    BY <1>1, <1>2
  <2> QED
    BY <2>1, <1>3 DEF Nodes
<1>5. ~Quiet(node, rx, air, calls, result)
  BY <1>1 DEF Quiet
<1>6. PICK q : /\ RightReq(q)
               /\ \/ Asked(node, rx, air, q) \/ Heard(node, rx, air, q)
                  \/ Replied(node, rx, air, q, calls)
                  \/ Reading(node, rx, air, q, calls)
  BY <1>5 DEF InOrder
<1>7. ASSUME Asking(c, q)
      PROVE  Asking(node'[Client], q)
  <2>1. c.req = q
    BY <1>7, AskingStage
  <2> QED
    BY <2>1, <1>4 DEF Asking
<1>8. Waits(node, rx) => Waits(node', rx')
  BY <1>1, <1>4 DEF Waits
<1>9. ASSUME \/ Asked(node', rx', air', q) \/ Heard(node', rx', air', q)
             \/ Replied(node', rx', air', q, calls')
             \/ Reading(node', rx', air', q, calls')
      PROVE  InOrder(node', rx', air', calls', result')
  BY <1>6, <1>9 DEF InOrder
<1>10. CASE Asked(node, rx, air, q)
  <2>1. Asked(node', rx', air', q)
    BY <1>1, <1>2, <1>7, <1>8, <1>10 DEF Asked
  <2> QED
    BY <2>1, <1>9
<1>11. CASE Heard(node, rx, air, q)
  <2>1. HaveHeard(node', rx', q)
    BY <1>1, <1>4, <1>11 DEF Heard, HaveHeard
  <2>2. Heard(node', rx', air', q)
    BY <2>1, <1>1, <1>2, <1>7, <1>11 DEF Heard
  <2> QED
    BY <2>2, <1>9
<1>12. CASE Replied(node, rx, air, q, calls)
  <2>0. PICK t \in Servers : \E A : ReplyFrom(t, A, node, rx, air, q, calls)
    BY <1>12 DEF Replied
  <2>1. PICK A : ReplyFrom(t, A, node, rx, air, q, calls)
    BY <2>0
  <2>2. ReplyFrom(t, A, node', rx', air', q, calls')
    BY <2>1, <1>1, <1>4 DEF ReplyFrom
  <2>3. Replied(node', rx', air', q, calls')
    BY <2>2, <1>1, <1>2, <1>7, <1>12 DEF Replied
  <2> QED
    BY <2>3, <1>9
<1>13. CASE Reading(node, rx, air, q, calls)
  <2>1. PICK A : IsAnswer(A, q, calls) /\ Within(c, rx[Client], A, q)
    BY <1>2, <1>13 DEF Reading
  <2>2. PICK x, sh : x = Waiting("res", q) /\ sh = ClientSees(A, q)
    OBVIOUS
  <2>3. <<c, rx[Client]>> \notin Points(x, A, sh, FALSE)
    <3>1. IsWaiting(x)
      BY <2>2, Waiters
    <3> QED
      BY <3>1, <1>1, <1>2, PointStage
  <2>4. Asking(c, q) /\ rx[Client] = A
    BY <2>1, <2>2, <2>3 DEF Within
  <2>5. Within(node'[Client], rx'[Client], A, q)
    BY <2>4, <1>1, <1>7 DEF Within
  <2>6. Reading(node', rx', air', q, calls')
    BY <2>1, <2>5, <1>1, <1>8, <1>13 DEF Reading
  <2> QED
    BY <2>6, <1>9
<1> QED
  BY <1>6, <1>10, <1>11, <1>12, <1>13

-----------------------------------------------------------------------------
\* The client takes the header of an answer to its request.
TakesHead(q, A, x) ==
  LET g == Rec("header", x, Prefix(A, HeaderLen), Fixed(0), FALSE) IN
    HeaderError(g) = NMBS_ERROR_NONE /\ ClientShape(g) = ClientSees(A, q)

LEMMA ClientHead ==
  ASSUME NEW q, q.fc \in FunctionCodes, q.raw \in Nat,
         NEW A, NEW v, IsAnswer(A, q, v), NEW x, x = Waiting("res", q)
  PROVE  TakesHead(q, A, x)
<1> DEFINE g == Rec("header", x, Prefix(A, HeaderLen), Fixed(0), FALSE)
           sh == ClientSees(A, q)
<1>1. /\ A \in Bytes /\ MbapOK(A) /\ UnitOf(A) = q.unit
      /\ Transport = "TCP" => TidOf(A) = q.tid
      /\ FcOf(A) \in {q.fc, q.fc + 128} /\ Fits(A, sh)
  BY AnswerIs
<1>2. PICK b : b = Prefix(A, HeaderLen)
  OBVIOUS
<1>3. /\ UnitOf(b) = UnitOf(A) /\ FcOf(b) = FcOf(A) /\ TidOf(b) = TidOf(A)
      /\ MbapOK(b) <=> MbapOK(A)
  BY <1>1, <1>2, HeadOf
<1>4. g.buf = b /\ g.req = q
  BY <1>2 DEF Rec, Waiting
<1> HIDE DEF g
<1>5. q.fc \in Nat /\ q.fc + 128 # q.fc /\ (q.fc + 128) - 128 = q.fc
      /\ q.fc - 128 # q.fc
  BY DEF FunctionCodes
<1>6. IsException(g) <=> FcOf(A) = q.fc + 128
  BY <1>1, <1>3, <1>4, <1>5 DEF IsException
<1>7. HeaderError(g) = NMBS_ERROR_NONE
  BY <1>1, <1>3, <1>4, <1>6 DEF HeaderError
<1>8. ClientShape(g) = sh
  BY <1>4, <1>6 DEF ClientShape, ClientSees
<1> QED
  BY <1>7, <1>8 DEF TakesHead, g

LEMMA HeaderNext ==
  ASSUME NEW g, IsRecord(g), g.stage = "header", NEW sh, g.ignored = FALSE
  PROVE  Further(g, sh) = NextRec(g, sh, FALSE)
<1>1. PICK h, k : /\ h = [g EXCEPT !.stage = "fixed"]
                  /\ k = [g EXCEPT !.stage = "fixed", !.shape = sh]
  OBVIOUS
<1>2. Further(g, sh) = k
  BY <1>1 DEF Further
<1>3. k = [h EXCEPT !.shape = sh]
  BY <1>1
<1>4. h = Rec("fixed", g, g.buf, g.shape, g.ignored)
  BY <1>1 DEF IsRecord, Rec
<1>5. k = Rec("fixed", g, g.buf, sh, FALSE)
  BY <1>3, <1>4 DEF Rec
<1>6. NextRec(g, sh, FALSE) = Rec("fixed", g, g.buf, sh, FALSE)
  BY NextRecIs
<1> QED
  BY <1>2, <1>5, <1>6

\* A client that reads something reads the answer.
LEMMA BusyIsReading ==
  ASSUME InOrder(node, rx, air, calls, result), Busy, Arrived(Client)
  PROVE  \E q : RightReq(q) /\ Reading(node, rx, air, q, calls)
<1>1. node[Client].stage \notin {"idle", "sent"}
  BY DEF Busy
<1>2. ASSUME NEW q, Asking(node[Client], q), rx[Client] = <<>>
      PROVE  FALSE
  <2>1. PICK y : y = Waiting("res", q)
    OBVIOUS
  <2>2. [Idle(q) EXCEPT !.stage = "sent"].stage = "sent"
    BY DEF Idle, Waiting
  <2>3. node[Client] = y
    BY <2>1, <2>2, <1>1, <1>2 DEF Asking
  <2>4. IsWaiting(y)
    BY <2>1, Waiters
  <2> QED
    BY <2>3, <2>4, <1>2, NothingThere
<1>3. ~Quiet(node, rx, air, calls, result)
  BY <1>1 DEF Quiet
<1>4. ASSUME NEW q
      PROVE  /\ ~Asked(node, rx, air, q) /\ ~Heard(node, rx, air, q)
             /\ ~Replied(node, rx, air, q, calls)
  BY <1>2 DEF Asked, Heard, Replied
<1> QED
  BY <1>3, <1>4 DEF InOrder

\* It is at one of the points of the answer.
OnPoint(A, q) ==
  <<node[Client], rx[Client]>>
    \in Points(Waiting("res", q), A, ClientSees(A, q), FALSE)

LEMMA BusyIsThere ==
  ASSUME NEW A, NEW q, Within(node[Client], rx[Client], A, q), Busy
  PROVE  OnPoint(A, q)
<1>1. node[Client].stage # "sent"
  BY DEF Busy
<1>2. [Idle(q) EXCEPT !.stage = "sent"].stage = "sent"
  BY DEF Idle, Waiting
<1>3. CASE Asking(node[Client], q) /\ rx[Client] = A
  <2>1. node[Client] = Waiting("res", q)
    BY <1>1, <1>2, <1>3 DEF Asking
  <2> QED
    BY <2>1, <1>3 DEF OnPoint, Points
<1>4. CASE ~(Asking(node[Client], q) /\ rx[Client] = A)
  BY <1>4 DEF Within, OnPoint
<1> QED
  BY <1>3, <1>4

LEMMA ClientGoes ==
  ASSUME CrcIsWord, TypeInv, NEW q, RightReq(q),
         NEW A, NEW v, IsAnswer(A, q, v), OnPoint(A, q)
  PROVE  Goes(Waiting("res", q), A, ClientSees(A, q), FALSE,
              node[Client], rx[Client])
<1>1. PICK x, sh : x = Waiting("res", q) /\ sh = ClientSees(A, q)
  OBVIOUS
<1>2. PICK r, w : r = node[Client] /\ w = rx[Client]
  OBVIOUS
<1>3. q.fc \in FunctionCodes /\ q.raw \in Nat
  BY DEF RightReq, RightCall
<1>4. Fits(A, sh) /\ IsWaiting(x)
  BY <1>1, <1>3, AnswerIs, Waiters
<1>5. <<r, w>> \in Points(x, A, sh, FALSE)
  BY <1>1, <1>2 DEF OnPoint
<1>6. Goes(x, A, sh, FALSE, r, w)
  BY <1>4, <1>5, Advance
<1> QED
  BY <1>1, <1>2, <1>6

\* The client's step leaves the servers where they are.
LEMMA ServersStay ==
  ASSUME TypeInv, NEW r, NEW q, node' = [node EXCEPT ![Client] = r],
         rx' = [rx EXCEPT ![Client] = q], Waits(node, rx)
  PROVE  node'[Client] = r /\ rx'[Client] = q /\ Waits(node', rx')
<1>1. Client \in Nodes /\ Client \notin Servers /\ Servers \subseteq Nodes
  BY Transports DEF TypeInv, Nodes
<1>2. node'[Client] = r /\ rx'[Client] = q /\ Others(Client)
  BY <1>1, Updated
<1>3. \A s \in Servers : node'[s] = node[s] /\ rx'[s] = rx[s]
  BY <1>1, <1>2 DEF Others
<1> QED
  BY <1>2, <1>3 DEF Waits

LEMMA OrderClientReceive ==
  ASSUME CrcIsWord, TypeInv, ClientReceive,
         InOrder(node, rx, air, calls, result)
  PROVE  InOrder(node', rx', air', calls', result')
<1>1. /\ Busy /\ Arrived(Client) /\ node[Client].stage # "footer"
      /\ UNCHANGED <<air, calls>>
  BY DEF ClientReceive
<1>2. PICK q : RightReq(q) /\ Reading(node, rx, air, q, calls)
  BY <1>1, BusyIsReading
<1>3. PICK A : IsAnswer(A, q, calls) /\ Within(node[Client], rx[Client], A, q)
  BY <1>2 DEF Reading
<1>4. PICK x, sh : x = Waiting("res", q) /\ sh = ClientSees(A, q)
  OBVIOUS
<1>5. PICK c, w : c = node[Client] /\ w = rx[Client]
  OBVIOUS
<1>6. Goes(x, A, sh, FALSE, c, w)
  BY <1>1, <1>2, <1>3, <1>4, <1>5, BusyIsThere, ClientGoes
<1>7. PICK g, l : g = Grow(c, w) /\ l = Rest(c, w)
  OBVIOUS
<1>8. g = Got(Client) /\ l = Left(Client)
  BY <1>5, <1>7, GotIs
<1>9. /\ g.stage = c.stage /\ c.stage \in {"first", "header", "fixed", "data"}
      /\ <<NextRec(g, sh, FALSE), l>> \in Points(x, A, sh, FALSE)
      /\ c.stage = "header" =>
           g = Rec("header", x, Prefix(A, HeaderLen), Fixed(0), FALSE)
  BY <1>1, <1>5, <1>6, <1>7 DEF Goes
<1>10. q.fc \in FunctionCodes /\ q.raw \in Nat
  BY <1>2 DEF RightReq, RightCall
<1>11. /\ g.stage = "header" => HeaderError(g) = NMBS_ERROR_NONE
       /\ Further(g, ClientShape(g)) = NextRec(g, sh, FALSE)
  <2>1. CASE g.stage = "header"
    <3>1. g = Rec("header", x, Prefix(A, HeaderLen), Fixed(0), FALSE)
      BY <2>1, <1>9
    <3>5. TakesHead(q, A, x)
      BY <1>3, <1>4, <1>10, ClientHead
    <3>2. HeaderError(g) = NMBS_ERROR_NONE /\ ClientShape(g) = sh
      BY <3>1, <3>5, <1>4 DEF TakesHead
    <3>3. IsRecord(g) /\ g.ignored = FALSE
      BY <3>1 DEF Rec, IsRecord
    <3>4. Further(g, sh) = NextRec(g, sh, FALSE)
      BY <3>3, <2>1, HeaderNext
    <3> QED
      BY <3>2, <3>4
  <2>2. CASE g.stage # "header"
    BY <2>2, <1>9 DEF Further, NextRec
  <2> QED
    BY <2>1, <2>2
<1>12. Receive(Client, NextRec(g, sh, FALSE)) /\ result' = result
  BY <1>8, <1>11 DEF ClientReceive
<1>13. /\ node' = [node EXCEPT ![Client] = NextRec(g, sh, FALSE)]
       /\ rx' = [rx EXCEPT ![Client] = l]
  BY <1>8, <1>12 DEF Receive
<1>14. /\ node'[Client] = NextRec(g, sh, FALSE) /\ rx'[Client] = l
       /\ Waits(node', rx')
  BY <1>2, <1>13, ServersStay DEF Reading
<1>15. Within(node'[Client], rx'[Client], A, q)
  BY <1>4, <1>9, <1>14 DEF Within
<1>16. Reading(node', rx', air', q, calls')
  BY <1>1, <1>2, <1>3, <1>14, <1>15 DEF Reading
<1> QED
  BY <1>2, <1>16 DEF InOrder

\* What the client makes of an answer.
LEMMA VerdictIs ==
  ASSUME NEW q, q.fc \in FunctionCodes, NEW A, NEW v, IsAnswer(A, q, v),
         NEW g, g.buf = A, g.req = q,
         NEW res, res.op = q, res.err = ResponseVerdict(g),
         res.data = IF ResponseVerdict(g) = NMBS_ERROR_NONE
                    THEN DataOf(A) ELSE <<>>
  PROVE  Fine(res, v)
<1>1. PICK fc, d :
        /\ IsSent(A, q.tid, q.unit, fc, d)
        /\ \/ /\ fc = q.fc /\ HasShape(d, ResShape(fc))
              /\ q.raw > 0 => Len(d) = q.raw
              /\ Accept(fc, q.data, d) = NMBS_ERROR_NONE
              /\ fc \in Reads \cup {23} => d[Len(d)] = v
           \/ fc = q.fc + 128 /\ d = <<DEVICE_FAILURE>>
  BY DEF IsAnswer
<1>2. CrcOK(A) /\ FcOf(A) = fc /\ DataOf(A) = d
  BY <1>1 DEF IsSent
<1>3. q.fc + 128 # q.fc
  BY DEF FunctionCodes
<1>4. CASE fc = q.fc
  <2>1. /\ Accept(fc, q.data, d) = NMBS_ERROR_NONE
        /\ fc \in Reads \cup {23} => d[Len(d)] = v
    BY <1>1, <1>3, <1>4
  <2>2. ResponseVerdict(g) = NMBS_ERROR_NONE
    BY <2>1, <1>2, <1>4 DEF ResponseVerdict
  <2>3. res.err = NMBS_ERROR_NONE /\ res.data = d
    BY <2>2, <1>2
  <2> QED
    BY <2>1, <2>3, <1>4 DEF Fine
<1>5. CASE fc = q.fc + 128
  <2>1. d[1] = DEVICE_FAILURE
    BY <1>1, <1>3, <1>5
  <2>2. is_exception(DEVICE_FAILURE) /\ DEVICE_FAILURE # NMBS_ERROR_NONE
    BY DEF is_exception, DEVICE_FAILURE, NMBS_ERROR_NONE
  <2>3. ResponseVerdict(g) = DEVICE_FAILURE
    BY <2>1, <2>2, <1>2, <1>3, <1>5 DEF ResponseVerdict
  <2> QED
    BY <2>2, <2>3 DEF Fine
<1> QED
  BY <1>1, <1>4, <1>5

LEMMA NoBroadcasts == AreBroadcasts(<<>>)
<1>1. <<>> \in Seq(SentBytes) /\ Len(<<>>) = 0
  BY EmptySeq
<1> QED
  BY <1>1 DEF AreBroadcasts

LEMMA OrderClientFooter ==
  ASSUME CrcIsWord, TypeInv, ClientFooter,
         InOrder(node, rx, air, calls, result)
  PROVE  InOrder(node', rx', air', calls', result')
<1>1. /\ Busy /\ Arrived(Client) /\ node[Client].stage = "footer"
      /\ UNCHANGED <<air, calls>>
  BY DEF ClientFooter
<1>2. PICK q : RightReq(q) /\ Reading(node, rx, air, q, calls)
  BY <1>1, BusyIsReading
<1>3. PICK A : IsAnswer(A, q, calls) /\ Within(node[Client], rx[Client], A, q)
  BY <1>2 DEF Reading
<1>4. PICK x, sh : x = Waiting("res", q) /\ sh = ClientSees(A, q)
  OBVIOUS
<1>5. PICK c, w : c = node[Client] /\ w = rx[Client]
  OBVIOUS
<1>6. Goes(x, A, sh, FALSE, c, w)
  BY <1>1, <1>2, <1>3, <1>4, <1>5, BusyIsThere, ClientGoes
<1>7. PICK g : g = Got(Client)
  OBVIOUS
<1>8. g = Rec("footer", x, A, sh, FALSE) /\ Left(Client) = <<>>
  <2>1. Grow(c, w) = Rec("footer", x, A, sh, FALSE) /\ Rest(c, w) = <<>>
    BY <1>1, <1>5, <1>6 DEF Goes
  <2> QED
    BY <2>1, <1>5, <1>7, GotIs
<1>9. g.buf = A /\ g.req = q
  BY <1>4, <1>8 DEF Rec, Waiting
<1>10. PICK err : err = ResponseVerdict(g)
  OBVIOUS
<1>11. /\ node' = [node EXCEPT ![Client] = Idle(NoReq)]
       /\ rx' = [rx EXCEPT ![Client] = <<>>]
       /\ Return(q, err, IF err = NMBS_ERROR_NONE THEN DataOf(A) ELSE <<>>)
  BY <1>7, <1>8, <1>9, <1>10 DEF ClientFooter, Finish
<1>12. /\ node'[Client] = Idle(NoReq) /\ rx'[Client] = <<>>
       /\ Waits(node', rx')
  BY <1>2, <1>11, ServersStay DEF Reading
<1>13. Idle(NoReq).stage = "idle"
  BY DEF Idle, Waiting
<1>14. PICK res : res = result'
  OBVIOUS
<1>15. Fine(res, calls)
  <2>1. /\ res.op = q /\ res.err = ResponseVerdict(g)
        /\ res.data = IF ResponseVerdict(g) = NMBS_ERROR_NONE
                      THEN DataOf(A) ELSE <<>>
    BY <1>10, <1>11, <1>14 DEF Return
  <2>2. q.fc \in FunctionCodes
    BY <1>2 DEF RightReq, RightCall
  <2> QED
    BY <2>1, <2>2, <1>3, <1>9, VerdictIs
<1>16. AreBroadcasts(air')
  BY <1>1, <1>2, NoBroadcasts DEF Reading
<1>17. Quiet(node', rx', air', calls', result')
  BY <1>1, <1>12, <1>13, <1>14, <1>15, <1>16 DEF Quiet
<1> QED
  BY <1>17 DEF InOrder

-----------------------------------------------------------------------------
\* A message is delivered.
LEMMA NotToMany ==
  ASSUME setup \in DOMAIN Setups, NEW q, NEW s \in Servers
  PROVE  Mine(s, q) => ~Broadcast(q)
<1>1. s # 0
  BY Transports
<1> QED
  BY <1>1 DEF Mine, Broadcast, NMBS_BROADCAST_ADDRESS

LEMMA AllHear ==
  ASSUME TypeInv, Deliver, NEW f, NEW m, Head(air) = [from |-> f, bytes |-> m],
         f \in Nodes
  PROVE  /\ rx'[f] = rx[f]
         /\ \A n \in Nodes : n # f => rx'[n] = rx[n] \o m
<1>1. rx' = [n \in Nodes |-> IF n = Head(air).from THEN rx[n]
                             ELSE rx[n] \o Head(air).bytes]
  BY DEF Deliver, Hear
<1>2. Head(air).from = f /\ Head(air).bytes = m
  OBVIOUS
<1> QED
  BY <1>1, <1>2

LEMMA ClientSpeaks ==
  ASSUME CrcIsWord, TypeInv, Deliver, NEW q, RightReq(q),
         Head(air) = FromClient(q), Waits(node, rx)
  PROVE  HaveHeard(node', rx', q) /\ rx'[Client] = rx[Client]
<1>1. PICK m : m = MsgOf(q)
  OBVIOUS
<1>2. Client \in Nodes /\ Client \notin Servers /\ Servers \subseteq Nodes
  BY Transports DEF TypeInv, Nodes
<1>3. Head(air) = [from |-> Client, bytes |-> m]
  BY <1>1 DEF FromClient
<1>4. /\ rx'[Client] = rx[Client]
      /\ \A n \in Nodes : n # Client => rx'[n] = rx[n] \o m
  BY <1>2, <1>3, AllHear
<1>5. m \in Bytes
  <2>1. IsSent(m, q.tid, q.unit, q.fc, q.data)
    BY <1>1, RequestLooksSo DEF TypeInv
  <2> QED
    BY <2>1 DEF IsSent
<1>6. ASSUME NEW s \in Servers
      PROVE  Lags(s, node'[s], rx'[s], HeardBy(s, q))
  <2>1. rx'[s] = rx[s] \o m /\ node'[s] = node[s]
    BY <1>2, <1>4 DEF Deliver
  <2>2. PICK e, p : e = HeardBy(s, q) /\ p = Poll
    OBVIOUS
  <2>3. Lags(s, p, m, e)
    BY <2>2, <1>1, HearsRequest DEF TypeInv
  <2>4. PICK r, w : r = node[s] /\ w = rx[s]
    OBVIOUS
  <2>5. Lags(s, r, w, <<p, <<>>>>)
    BY <2>2, <2>4 DEF Waits
  <2>6. Lags(s, r, w \o m, e)
    BY <2>3, <2>5, <1>5, AppendBehind
  <2> QED
    BY <2>1, <2>2, <2>4, <2>6
<1> QED
  BY <1>4, <1>6 DEF HaveHeard

LEMMA BroadcastHeard ==
  ASSUME setup \in DOMAIN Setups, NEW q, Broadcast(q), NEW nd, NEW rv,
         HaveHeard(nd, rv, q)
  PROVE  Waits(nd, rv)
<1>1. \A s \in Servers : HeardBy(s, q) = <<Poll, <<>>>>
  BY NotToMany DEF HeardBy
<1> QED
  BY <1>1 DEF HaveHeard, Waits

LEMMA FirstBroadcast ==
  ASSUME NEW a, AreBroadcasts(a), a # <<>>
  PROVE  /\ \E b : RightReq(b) /\ Broadcast(b) /\ Head(a) = FromClient(b)
         /\ AreBroadcasts(Tail(a))
<1>1. a \in Seq(SentBytes)
  BY DEF AreBroadcasts
<1>2. PICK n : n = Len(a)
  OBVIOUS
<1>3. n \in Nat /\ n >= 1
  BY <1>1, <1>2, EmptySeq
<1>4. Head(a) = a[1]
  BY <1>1
<1>5. PICK t : t = Tail(a)
  OBVIOUS
<1>6. /\ t \in Seq(SentBytes) /\ Len(t) = n - 1
      /\ \A i \in 1..Len(t) : t[i] = a[i + 1]
  BY <1>1, <1>2, <1>5, HeadTailProperties
<1>7. \A i \in 1..n :
        \E b : RightReq(b) /\ Broadcast(b) /\ a[i] = FromClient(b)
  BY <1>2 DEF AreBroadcasts
<1>8. \A i \in 1..Len(t) : i + 1 \in 1..n
  BY <1>3, <1>6
<1>9. 1 \in 1..n
  BY <1>3
<1> QED
  BY <1>4, <1>5, <1>6, <1>7, <1>8, <1>9 DEF AreBroadcasts

LEMMA BehindFirst ==
  ASSUME NEW a \in Seq(SentBytes), NEW f \in SentBytes
  PROVE  IF a = <<>> THEN /\ Head(Append(a, f)) = f
                          /\ Tail(Append(a, f)) = <<>>
         ELSE /\ Head(Append(a, f)) = Head(a)
              /\ Tail(Append(a, f)) = Append(Tail(a), f)
OBVIOUS

LEMMA ServerSpeaks ==
  ASSUME CrcIsWord, TypeInv, Deliver, NEW q, RightReq(q), NEW t \in Servers,
         NEW A, ReplyFrom(t, A, node, rx, air, q, calls), rx[Client] = <<>>
  PROVE  Waits(node', rx') /\ rx'[Client] = A /\ air' = <<>>
<1>1. /\ IsAnswer(A, q, calls) /\ Mine(t, q)
      /\ air = <<[from |-> t, bytes |-> A]>>
      /\ Lags(t, node[t], rx[t], <<Poll, <<>>>>)
      /\ \A s \in Servers :
           s # t => ~Mine(s, q) /\ Lags(s, node[s], rx[s], HeardBy(s, q))
  BY DEF ReplyFrom
<1>2. Client \in Nodes /\ Client \notin Servers /\ Servers \subseteq Nodes
  BY Transports DEF TypeInv, Nodes
<1>3. Head(air) = [from |-> t, bytes |-> A] /\ Tail(air) = <<>>
  BY <1>1
<1>4. /\ rx'[t] = rx[t]
      /\ \A n \in Nodes : n # t => rx'[n] = rx[n] \o A
  BY <1>2, <1>3, AllHear
<1>5. A \in Bytes
  BY <1>1, AnswerIs DEF RightReq, RightCall
<1>6. rx'[Client] = A
  <2>1. rx'[Client] = <<>> \o A
    BY <1>2, <1>4
  <2>2. A \in Seq(Byte)
    BY <1>5 DEF Bytes
  <2> QED
    BY <2>1, <2>2, ConcatEmptySeq
<1>7. ~Broadcast(q)
  BY <1>1, NotToMany DEF TypeInv
<1>8. ASSUME NEW s \in Servers
      PROVE  Lags(s, node'[s], rx'[s], <<Poll, <<>>>>)
  <2>1. node'[s] = node[s]
    BY DEF Deliver
  <2>2. CASE s = t
    BY <2>1, <2>2, <1>1, <1>4
  <2>3. CASE s # t
    <3>1. PICK x, e : /\ x = Waiting("res", ReqOf(MsgOf(q)))
                      /\ e = <<Poll, <<>>>>
      OBVIOUS
    <3>2. PICK r, w : r = node[s] /\ w = rx[s]
      OBVIOUS
    <3>3. ~Mine(s, q) /\ Lags(s, r, w, HeardBy(s, q))
      BY <2>3, <3>2, <1>1
    <3>4. HeardBy(s, q) = <<x, <<>>>>
      BY <3>1, <3>3, <1>7 DEF HeardBy
    <3>5. Lags(s, r, w, <<x, <<>>>>)
      BY <3>3, <3>4
    <3>6. Lags(s, x, A, e)
      BY <3>1, <3>3, <1>1, HearsAnswer DEF TypeInv
    <3>7. Lags(s, r, w \o A, e)
      BY <3>5, <3>6, <1>5, AppendBehind
    <3>8. rx'[s] = w \o A
      BY <2>3, <3>2, <1>2, <1>4
    <3> QED
      BY <2>1, <3>1, <3>2, <3>7, <3>8
  <2> QED
    BY <2>2, <2>3
<1>9. air' = <<>>
  BY <1>3 DEF Deliver
<1> QED
  BY <1>6, <1>8, <1>9 DEF Waits

LEMMA OrderDeliver ==
  ASSUME CrcIsWord, TypeInv, Deliver, InOrder(node, rx, air, calls, result)
  PROVE  InOrder(node', rx', air', calls', result')
<1>1. /\ air # <<>> /\ air' = Tail(air)
      /\ UNCHANGED <<node, calls, result>>
  BY DEF Deliver
<1>2. ASSUME Waits(node, rx), AreBroadcasts(air)
      PROVE  /\ Waits(node', rx') /\ rx'[Client] = rx[Client]
             /\ AreBroadcasts(air')
  <2>1. PICK b : RightReq(b) /\ Broadcast(b) /\ Head(air) = FromClient(b)
    BY <1>1, <1>2, FirstBroadcast
  <2>2. HaveHeard(node', rx', b) /\ rx'[Client] = rx[Client]
    BY <2>1, <1>2, ClientSpeaks
  <2>3. Waits(node', rx')
    BY <2>1, <2>2, BroadcastHeard DEF TypeInv
  <2> QED
    BY <2>2, <2>3, <1>1, <1>2, FirstBroadcast
<1>3. CASE Quiet(node, rx, air, calls, result)
  <2>1. Quiet(node', rx', air', calls', result')
    BY <1>1, <1>2, <1>3 DEF Quiet
  <2> QED
    BY <2>1 DEF InOrder
<1>4. CASE ~Quiet(node, rx, air, calls, result)
  <2>1. PICK q : /\ RightReq(q)
                 /\ \/ Asked(node, rx, air, q) \/ Heard(node, rx, air, q)
                    \/ Replied(node, rx, air, q, calls)
                    \/ Reading(node, rx, air, q, calls)
    BY <1>4 DEF InOrder
  <2>2. ASSUME \/ Asked(node', rx', air', q) \/ Heard(node', rx', air', q)
               \/ Replied(node', rx', air', q, calls')
               \/ Reading(node', rx', air', q, calls')
        PROVE  InOrder(node', rx', air', calls', result')
    BY <2>1, <2>2 DEF InOrder
  <2>3. ~Heard(node, rx, air, q) /\ ~Reading(node, rx, air, q, calls)
    BY <1>1 DEF Heard, Reading
  <2>4. CASE Asked(node, rx, air, q)
    <3>1. PICK a, f : /\ AreBroadcasts(a) /\ f = FromClient(q)
                      /\ air = Append(a, f)
      BY <2>4 DEF Asked
    <3>2. f \in SentBytes /\ a \in Seq(SentBytes)
      BY <2>1, <3>1, FromClientIs DEF AreBroadcasts
    <3>3. Asking(node'[Client], q) /\ rx[Client] = <<>> /\ Waits(node, rx)
      BY <2>4, <1>1 DEF Asked
    <3>4. CASE a = <<>>
      <4>1. Head(air) = f /\ Tail(air) = <<>>
        BY <3>1, <3>2, <3>4, BehindFirst
      <4>2. HaveHeard(node', rx', q) /\ rx'[Client] = <<>>
        BY <4>1, <3>1, <3>3, <2>1, ClientSpeaks
      <4>3. Heard(node', rx', air', q)
        BY <4>1, <4>2, <3>3, <1>1 DEF Heard
      <4> QED
        BY <4>3, <2>2
    <3>5. CASE a # <<>>
      <4>1. Head(air) = Head(a) /\ Tail(air) = Append(Tail(a), f)
        BY <3>1, <3>2, <3>5, BehindFirst
      <4>2. PICK b : RightReq(b) /\ Broadcast(b) /\ Head(a) = FromClient(b)
        BY <3>1, <3>5, FirstBroadcast
      <4>3. HaveHeard(node', rx', b) /\ rx'[Client] = <<>>
        BY <4>1, <4>2, <3>3, ClientSpeaks
      <4>4. Waits(node', rx')
        BY <4>2, <4>3, BroadcastHeard DEF TypeInv
      <4>5. AreBroadcasts(Tail(a))
        BY <3>1, <3>5, FirstBroadcast
      <4>6. Asked(node', rx', air', q)
        BY <4>1, <4>3, <4>4, <4>5, <3>1, <3>3, <1>1 DEF Asked
      <4> QED
        BY <4>6, <2>2
    <3> QED
      BY <3>4, <3>5
  <2>5. CASE Replied(node, rx, air, q, calls)
    <3>0. PICK t \in Servers : \E A : ReplyFrom(t, A, node, rx, air, q, calls)
      BY <2>5 DEF Replied
    <3>1. PICK A : ReplyFrom(t, A, node, rx, air, q, calls)
      BY <3>0
    <3>2. Asking(node'[Client], q) /\ rx[Client] = <<>>
      BY <2>5, <1>1 DEF Replied
    <3>3. Waits(node', rx') /\ rx'[Client] = A /\ air' = <<>>
      BY <3>1, <3>2, <2>1, ServerSpeaks
    <3>4. IsAnswer(A, q, calls')
      BY <3>1, <1>1 DEF ReplyFrom
    <3>5. Reading(node', rx', air', q, calls')
      BY <3>2, <3>3, <3>4 DEF Reading, Within
    <3> QED
      BY <3>5, <2>2
  <2> QED
    BY <2>1, <2>3, <2>4, <2>5
<1> QED
  BY <1>3, <1>4

-----------------------------------------------------------------------------
\* All of this is said in terms of the set-up, which does not change.
LEMMA SameHeads ==
  ASSUME setup' = setup
  PROVE  /\ \A s, g : ServerNext(s, g)' = ServerNext(s, g)
         /\ \A m : ReqOf(m)' = ReqOf(m)
<1>1. /\ HeaderLen' = HeaderLen /\ FooterLen' = FooterLen
      /\ Transport' = Transport
      /\ \A m : FcOf(m)' = FcOf(m) /\ UnitOf(m)' = UnitOf(m)
                /\ TidOf(m)' = TidOf(m) /\ DataOf(m)' = DataOf(m)
      /\ \A m : MbapOK(m)' <=> MbapOK(m)
  BY SameSetup, SameSoFar
<1>2. \A g : IsException(g)' <=> IsException(g)
  BY <1>1 DEF IsException
<1>3. \A g : HeaderError(g)' = HeaderError(g)
  BY <1>1, <1>2 DEF HeaderError
<1>4. \A g : HeaderEnds(g)' <=> HeaderEnds(g)
  BY <1>1, <1>3 DEF HeaderEnds
<1>5. \A s, g : ForMe(s, g)' <=> ForMe(s, g)
  BY <1>1 DEF ForMe
<1>6. \A g : ServerShape(g)' = ServerShape(g)
  BY <1>1, <1>2 DEF ServerShape
<1>7. \A m : ReqOf(m)' = ReqOf(m)
  BY <1>1 DEF ReqOf
<1>8. \A s, g : ServerNext(s, g)' = ServerNext(s, g)
  BY <1>4, <1>5, <1>6, <1>7 DEF ServerNext
<1> QED
  BY <1>7, <1>8

LEMMA SameReq ==
  ASSUME setup' = setup
  PROVE  /\ \A q : RightReq(q)' <=> RightReq(q)
         /\ \A q : Broadcast(q)' <=> Broadcast(q)
         /\ \A q : MsgOf(q)' = MsgOf(q)
<1>1. /\ CallbackResults' = CallbackResults /\ Servers' = Servers
      /\ Transport' = Transport /\ Callbacks' = Callbacks
  BY SameSetup
<1>2. \A fc : HasCallback(fc)' <=> HasCallback(fc)
  BY <1>1 DEF HasCallback
<1>3. \A op : Broadcast(op)' <=> Broadcast(op)
  BY <1>1 DEF Broadcast
<1>4. \A op : RightCall(op)' <=> RightCall(op)
  BY <1>1, <1>2, <1>3 DEF RightCall
<1>5. \A q : RightReq(q)' <=> RightReq(q)
  BY <1>4 DEF RightReq
<1>6. \A t, u, fc, n, d : Message(t, u, fc, n, d)' = Message(t, u, fc, n, d)
  BY <1>1 DEF Message
<1>7. \A q : MsgOf(q)' = MsgOf(q)
  BY <1>6 DEF MsgOf
<1> QED
  BY <1>3, <1>5, <1>7

LEMMA SameLags ==
  ASSUME setup' = setup
  PROVE  \A s, r, q, e : Lags(s, r, q, e)' <=> Lags(s, r, q, e)
<1>1. HeaderLen' = HeaderLen /\ FooterLen' = FooterLen
  BY SameSetup
<1>2. \A m : CrcOK(m)' <=> CrcOK(m)
  BY SameSoFar
<1>3. \A r : Want(r)' = Want(r)
  BY <1>1 DEF Want
<1>4. \A r, q : Grow(r, q)' = Grow(r, q) /\ Rest(r, q)' = Rest(r, q)
  BY <1>3 DEF Grow, Rest
<1>5. \A g : Silent(g)' <=> Silent(g)
  BY <1>2, SameReq DEF Silent
<1>6. \A s, g : ServerNext(s, g)' = ServerNext(s, g)
  BY SameHeads
<1>7. \A s, T, r, q : Moves(s, T, r, q)' <=> Moves(s, T, r, q)
  BY <1>3, <1>4, <1>5, <1>6 DEF Moves
<1>8. \A s, T, e : Leads(s, T, e)' <=> Leads(s, T, e)
  BY <1>7 DEF Leads
<1> QED
  BY <1>8 DEF Lags

LEMMA SameAnswer ==
  ASSUME setup' = setup
  PROVE  /\ \A m, q, v : IsAnswer(m, q, v)' <=> IsAnswer(m, q, v)
         /\ \A x, m, sh, i : Footer(x, m, sh, i)' = Footer(x, m, sh, i)
         /\ \A x, m, sh, i : Points(x, m, sh, i)' = Points(x, m, sh, i)
         /\ \A m, q : ClientSees(m, q)' = ClientSees(m, q)
<1>1. /\ HeaderLen' = HeaderLen /\ FooterLen' = FooterLen
      /\ Transport' = Transport
      /\ \A m : FcOf(m)' = FcOf(m) /\ UnitOf(m)' = UnitOf(m)
                /\ TidOf(m)' = TidOf(m) /\ DataOf(m)' = DataOf(m)
      /\ \A m : (MbapOK(m)' <=> MbapOK(m)) /\ (CrcOK(m)' <=> CrcOK(m))
  BY SameSetup, SameSoFar
<1>2. \A m, t, u, fc, d :
        IsMessage(m, t, u, fc, d)' <=> IsMessage(m, t, u, fc, d)
  BY <1>1 DEF IsMessage
<1>3. \A m, sh : Fits(m, sh)' <=> Fits(m, sh)
  BY <1>1 DEF Fits
<1>4. \A m, t, u, fc, d : IsSent(m, t, u, fc, d)' <=> IsSent(m, t, u, fc, d)
  BY <1>1, <1>2, <1>3 DEF IsSent
<1>5. \A m, q, v : IsAnswer(m, q, v)' <=> IsAnswer(m, q, v)
  BY <1>4 DEF IsAnswer
<1>6. \A x, m, sh, i : Footer(x, m, sh, i)' = Footer(x, m, sh, i)
  BY <1>1 DEF Footer
<1>7. ASSUME NEW x, NEW m, NEW sh, NEW i
      PROVE  Points(x, m, sh, i)' = Points(x, m, sh, i)
  <2>1. Footer(x, m, sh, i)' = Footer(x, m, sh, i)
    BY <1>6
  <2>2. PICK h : h = HeaderLen
    OBVIOUS
  <2>3. HeaderLen' = h
    BY <2>2, <1>1
  <2> QED
    BY <2>1, <2>2, <2>3 DEF Points
<1>8. \A m, q : ClientSees(m, q)' = ClientSees(m, q)
  BY <1>1 DEF ClientSees
<1> QED
  BY <1>5, <1>6, <1>7, <1>8

LEMMA SameOrder ==
  ASSUME setup' = setup
  PROVE  \A nd, rv, ar, n, res :
           InOrder(nd, rv, ar, n, res)' <=> InOrder(nd, rv, ar, n, res)
<1>1. Transport' = Transport /\ Servers' = Servers
  BY SameSetup
<1>2. \A s, r, q, e : Lags(s, r, q, e)' <=> Lags(s, r, q, e)
  BY SameLags
<1>3. /\ \A q : RightReq(q)' <=> RightReq(q)
      /\ \A q : Broadcast(q)' <=> Broadcast(q)
      /\ \A q : MsgOf(q)' = MsgOf(q)
  BY SameReq
<1>4. \A s, q : Mine(s, q)' <=> Mine(s, q)
  BY <1>1 DEF Mine
<1>5. \A s, q : HeardBy(s, q)' = HeardBy(s, q)
  BY <1>3, <1>4, SameAnswer, SameHeads DEF HeardBy
<1>6. \A nd, rv : Waits(nd, rv)' <=> Waits(nd, rv)
  BY <1>1, <1>2 DEF Waits
<1>7. \A nd, rv, q : HaveHeard(nd, rv, q)' <=> HaveHeard(nd, rv, q)
  BY <1>1, <1>2, <1>5 DEF HaveHeard
<1>8. \A q : FromClient(q)' = FromClient(q)
  BY <1>3 DEF FromClient
<1>9. \A a : AreBroadcasts(a)' <=> AreBroadcasts(a)
  BY <1>3, <1>8 DEF AreBroadcasts
<1>10. \A nd, rv, ar, n, res :
         Quiet(nd, rv, ar, n, res)' <=> Quiet(nd, rv, ar, n, res)
  BY <1>6, <1>9 DEF Quiet
<1>11. \A nd, rv, ar, q : Asked(nd, rv, ar, q)' <=> Asked(nd, rv, ar, q)
  BY <1>6, <1>8, <1>9 DEF Asked
<1>12. \A nd, rv, ar, q : Heard(nd, rv, ar, q)' <=> Heard(nd, rv, ar, q)
  BY <1>7 DEF Heard
<1>13. \A t, A, nd, rv, ar, q, n :
         ReplyFrom(t, A, nd, rv, ar, q, n)'
           <=> ReplyFrom(t, A, nd, rv, ar, q, n)
  BY <1>1, <1>2, <1>4, <1>5, SameAnswer DEF ReplyFrom
<1>14. \A nd, rv, ar, q, n :
         Replied(nd, rv, ar, q, n)' <=> Replied(nd, rv, ar, q, n)
  BY <1>1, <1>13 DEF Replied
<1>15. ASSUME NEW c, NEW w, NEW A, NEW q
       PROVE  Within(c, w, A, q)' <=> Within(c, w, A, q)
  <2>1. PICK x, sh : x = Waiting("res", q) /\ sh = ClientSees(A, q)
    OBVIOUS
  <2>2. ClientSees(A, q)' = sh
    BY <2>1, SameAnswer
  <2>3. Points(x, A, sh, FALSE)' = Points(x, A, sh, FALSE)
    BY SameAnswer
  <2> QED
    BY <2>1, <2>2, <2>3 DEF Within
<1>16. \A nd, rv, ar, q, n :
         Reading(nd, rv, ar, q, n)' <=> Reading(nd, rv, ar, q, n)
  BY <1>6, <1>15, SameAnswer DEF Reading
<1> QED
  BY <1>3, <1>10, <1>11, <1>12, <1>14, <1>16 DEF InOrder

-----------------------------------------------------------------------------
(* The inductive invariant, and the theorems.                              *)
\* While nothing was late, lost or altered the line is in one of the states of
\* InOrder.
Lock == calm => InOrder(node, rx, air, calls, result)

BusInv == TypeInv /\ Lock

LEMMA LockInit ==
  ASSUME BusInit, RightUse
  PROVE  Lock
<1>1. Client \in Nodes /\ Client \notin Servers /\ Servers \subseteq Nodes
  BY Transports DEF BusInit, Nodes
<1>2. /\ node[Client] = Idle(NoReq) /\ rx[Client] = <<>>
      /\ \A s \in Servers : node[s] = Poll /\ rx[s] = <<>>
      /\ air = <<>>
  BY <1>1 DEF BusInit
<1>3. Idle(NoReq).stage = "idle"
  BY DEF Idle, Waiting
<1>4. Waits(node, rx)
  BY <1>2, LagsNot DEF Waits
<1>5. AreBroadcasts(air)
  BY <1>2, NoBroadcasts
<1>6. Fine(result, calls)
  <2>1. result.op.fc = 0 /\ result.err = NMBS_ERROR_NONE
    BY DEF BusInit, NoReq
  <2>2. 0 \notin Reads \cup {23}
    BY DEF Reads
  <2> QED
    BY <2>1, <2>2 DEF Fine
<1>7. Quiet(node, rx, air, calls, result)
  BY <1>2, <1>3, <1>4, <1>5, <1>6 DEF Quiet
<1> QED
  BY <1>7 DEF Lock, InOrder

\* What was late, lost or altered stays so.
LEMMA WasCalm ==
  ASSUME BusStep, calm'
  PROVE  calm
<1>1. ASSUME NEW op \in Ops, Call(op) \/ CallRefused(op)
      PROVE  calm
  BY <1>1 DEF Call, CallRefused
<1>2. ASSUME NEW op \in Ops, NEW k \in Places, CallFails(op, k)
      PROVE  calm
  BY <1>2 DEF CallFails
<1>3. ASSUME ClientStep \/ ClientTimeout
      PROVE  calm
  BY <1>3 DEF ClientStep, ClientTimeout, nmbs_receive_raw_pdu_response,
              ClientReceive, ClientFooter
<1>4. ASSUME NEW s \in Servers, ServerStep(s)
      PROVE  calm
  BY <1>4 DEF ServerStep, ServerReceive, ServerDiscard, ServerIgnore,
              ServerTimeout, Serve, HandleRequest
<1>5. ASSUME Line
      PROVE  calm
  BY <1>5 DEF Line, Deliver, Lose, Pause, Corrupt, Fault
<1> QED
  BY <1>1, <1>2, <1>3, <1>4, <1>5 DEF BusStep

LEMMA OrderStep ==
  ASSUME CrcIsWord, TypeInv, Lock, BusStep, calm'
  PROVE  InOrder(node', rx', air', calls', result')
<1>1. InOrder(node, rx, air, calls, result)
  BY WasCalm DEF Lock
<1>2. ASSUME NEW op \in Ops, Call(op) \/ CallRefused(op)
      PROVE  InOrder(node', rx', air', calls', result')
  BY <1>1, <1>2, OrderCall, OrderCallRefused
<1>3. ASSUME NEW op \in Ops, NEW k \in Places, CallFails(op, k)
      PROVE  FALSE
  BY <1>3 DEF CallFails
<1>4. ASSUME ClientStep
      PROVE  InOrder(node', rx', air', calls', result')
  BY <1>1, <1>4, OrderAskRaw, OrderClientReceive, OrderClientFooter
  DEF ClientStep
<1>5. ASSUME ClientTimeout
      PROVE  FALSE
  BY <1>5 DEF ClientTimeout
<1>6. ASSUME NEW s \in Servers, ServerStep(s)
      PROVE  InOrder(node', rx', air', calls', result')
  BY <1>1, <1>6, OrderServer
<1>7. ASSUME Line
      PROVE  InOrder(node', rx', air', calls', result')
  <2>1. Deliver
    BY <1>7 DEF Line, Lose, Pause, Corrupt, Fault
  <2> QED
    BY <2>1, <1>1, OrderDeliver
<1> QED
  BY <1>2, <1>3, <1>4, <1>5, <1>6, <1>7 DEF BusStep

LEMMA LockStep ==
  ASSUME CrcIsWord, TypeInv, Lock, [BusNext]_<<busVars, setup>>
  PROVE  Lock'
<1>1. setup' = setup
  BY DEF BusNext
<1>2. SUFFICES ASSUME calm'
               PROVE  InOrder(node, rx, air, calls, result)'
  BY DEF Lock
<1>3. InOrder(node', rx', air', calls', result')
  <2>1. CASE BusStep
    BY <2>1, <1>2, OrderStep
  <2>2. CASE UNCHANGED busVars
    <3>1. /\ node' = node /\ rx' = rx /\ air' = air /\ calls' = calls
          /\ result' = result /\ calm' = calm
      BY <2>2 DEF busVars
    <3> QED
      BY <3>1, <1>2 DEF Lock
  <2> QED
    BY <2>1, <2>2 DEF BusNext
<1>4. \A nd, rv, ar, n, res :
        InOrder(nd, rv, ar, n, res)' <=> InOrder(nd, rv, ar, n, res)
  BY <1>1, SameOrder
<1> QED
  BY <1>3, <1>4

LEMMA BusInvHolds ==
  ASSUME CrcIsWord
  PROVE  BusSpec /\ RightUse => []BusInv
<1>1. BusInit /\ RightUse => BusInv
  BY TypeInit, LockInit DEF BusInv
<1>2. BusInv /\ [BusNext]_<<busVars, setup>> => BusInv'
  <2>1. ASSUME BusInv, [BusNext]_<<busVars, setup>>
        PROVE  TypeInv'
    BY <2>1, TypeStep, TypeStutter DEF BusNext, BusInv
  <2>2. ASSUME BusInv, [BusNext]_<<busVars, setup>>
        PROVE  Lock'
    BY <2>2, LockStep DEF BusInv
  <2> QED
    BY <2>1, <2>2 DEF BusInv
<1> QED
  BY <1>1, <1>2, PTL DEF BusSpec

LEMMA FineWhenDone ==
  ASSUME Lock, calm, Done
  PROVE  Quiet(node, rx, air, calls, result) /\ Fine(result, calls)
<1>1. Quiet(node, rx, air, calls, result)
  BY IdleIsQuiet DEF Lock, Done
<1> QED
  BY <1>1 DEF Quiet

\* The limits that the client's functions put on their arguments are within
\* those of the servers' handlers: while nothing was late, lost or altered, a
\* call is refused by the client, succeeds, or reports that a callback failed.
THEOREM CallsAlwaysAgree ==
  ASSUME CrcIsWord
  PROVE  BusSpec /\ RightUse => []CallsAgree
<1>1. BusInv => CallsAgree
  BY FineWhenDone DEF BusInv, CallsAgree, Fine
<1> QED
  BY <1>1, BusInvHolds, PTL

LEMMA NothingLeft ==
  ASSUME TypeInv, Waits(node, rx), NEW s \in Servers, ~Arrived(s)
  PROVE  node[s] = Poll /\ rx[s] = <<>>
<1>1. Lags(s, node[s], rx[s], <<Poll, <<>>>>)
  BY DEF Waits
<1>2. PICK T : /\ Leads(s, T, <<Poll, <<>>>>)
               /\ <<node[s], rx[s]>> \in T
  BY <1>1 DEF Lags
<1>3. PICK p : p = <<node[s], rx[s]>>
  OBVIOUS
<1>4. p = <<Poll, <<>>>> \/ Moves(s, T, p[1], p[2])
  BY <1>2, <1>3 DEF Leads
<1>5. ASSUME Moves(s, T, node[s], rx[s])
      PROVE  FALSE
  <2>1. /\ Want(node[s]) \in Nat /\ Want(node[s]) <= Len(rx[s])
        /\ rx[s] \in Bytes
    BY <1>5 DEF Moves
  <2>2. Len(rx[s]) \in Nat
    BY <2>1, LenIsNat
  <2> QED
    BY <2>1, <2>2 DEF Arrived
<1>6. p = <<Poll, <<>>>>
  BY <1>3, <1>4, <1>5
<1> QED
  BY <1>3, <1>6

\* recv_msg_header(), the handlers and ignored requests take from the line what
\* belongs to a message and no more: on such a line values are read for the call
\* that returns them, and nothing is left over, wherever a node reads.
THEOREM LineStaysInOrder ==
  ASSUME CrcIsWord
  PROVE  BusSpec /\ RightUse => []LineInOrder
<1>1. BusInv => BusTypeOK /\ BroadcastsUnanswered
  BY TypeInvGives DEF BusInv
<1>2. BusInv => CalmIsFresh
  BY FineWhenDone DEF BusInv, CalmIsFresh, Fine
<1>3. ASSUME BusInv, calm, Done, air = <<>>, \A s \in Servers : ~Arrived(s)
      PROVE  /\ \A n \in Nodes : rx[n] = <<>>
             /\ \A s \in Servers : node[s] = Poll
  <2>1. TypeInv /\ Waits(node, rx) /\ rx[Client] = <<>>
    BY <1>3, FineWhenDone DEF BusInv, Quiet
  <2>2. \A s \in Servers : node[s] = Poll /\ rx[s] = <<>>
    BY <2>1, <1>3, NothingLeft
  <2> QED
    BY <2>1, <2>2 DEF Nodes
<1>4. BusInv => CalmLineIsClean
  BY <1>3 DEF CalmLineIsClean
<1>5. BusInv => LineInOrder
  BY <1>1, <1>2, <1>4 DEF LineInOrder
<1> QED
  BY <1>5, BusInvHolds, PTL
=============================================================================
