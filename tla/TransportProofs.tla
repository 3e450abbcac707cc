--------------------------- MODULE TransportProofs ---------------------------
(***************************************************************************)
(* The way of a packet into the box, for every size and every stream: the  *)
(* receive buffer of IPStack, the non-blocking reader of the Paho library, *)
(* the life of a connection in MQTTHandler, and whose handler is called.   *)
(***************************************************************************)
EXTENDS IpReceive, MqttSession, MqttReader, MqttBlocking, MqttTopic,
        FiniteSetTheorems, SequenceTheorems, TLAPS

-----------------------------------------------------------------------------
(***************************************************************************)
(* The receive buffer of IPStack keeps the stream of bytes, for every size *)
(* of buffer, segment and read.  The code wraps its indices in four        *)
(* different ways; all are shown to be Fold, and IndicesAgree with the     *)
(* types is inductive.  The refinement then says which byte is where.      *)
(***************************************************************************)
ReceiveInv == ReceiveTypeOK /\ IndicesAgree

\* An index past the end of the buffer, by less than its size.
Fold(x) == IF x < BUF_SIZE THEN x ELSE x - BUF_SIZE

\* The modulus of such an index.
LEMMA ModIsFold ==
  ASSUME NEW x \in 0..(2 * BUF_SIZE - 1)
  PROVE  x % BUF_SIZE = Fold(x) /\ Fold(x) \in Index
BY ReceiveAssumption DEF Fold, Index

\* How much of a segment is taken.
LEMMA FitsType ==
  ASSUME ReceiveTypeOK, NEW chunk \in Chunks
  PROVE  /\ ThatFits(chunk) \in 0..(BUF_SIZE - count)
         /\ ThatFits(chunk) <= Len(chunk)
         /\ chunk \in Seq(Bytes) /\ Len(chunk) \in Nat
<1>1. PICK m \in 1..MaxChunk : chunk \in [1..m -> Bytes]
  BY DEF Chunks
<1>2. chunk \in Seq(Bytes) /\ Len(chunk) = m
  BY <1>1, ReceiveAssumption
<1> QED
  BY <1>2, ReceiveAssumption DEF ThatFits, Lesser, ReceiveTypeOK

\* The places of the buffer's indices, without the modulus.
LEMMA Places ==
  ASSUME ReceiveInv
  PROVE  /\ wr = Fold(rd + count)
         /\ rd \in 0..(BUF_SIZE - 1) /\ wr \in 0..(BUF_SIZE - 1)
         /\ count \in 0..BUF_SIZE /\ BUF_SIZE \in Nat \ {0}
<1>1. rd + count \in 0..(2 * BUF_SIZE - 1)
  BY ReceiveAssumption DEF ReceiveInv, ReceiveTypeOK, Index
<1> QED
  BY <1>1, ModIsFold, ReceiveAssumption
     DEF ReceiveInv, ReceiveTypeOK, IndicesAgree, Index

\* What tcp_client_recv() does to the indices and the buffer, in one part or
\* in two: the segment follows what was there, and disturbs none of it.
LEMMA RecvPuts ==
  ASSUME ReceiveInv, NEW chunk \in Chunks, tcp_client_recv(chunk)
  PROVE  /\ wr' = Fold(wr + ThatFits(chunk))
         /\ \A k \in 1..ThatFits(chunk) : buffer'[Fold(wr + k - 1)] = chunk[k]
         /\ \A j \in 1..count :
              buffer'[Fold(rd + j - 1)] = buffer[Fold(rd + j - 1)]
         /\ buffer' \in [Index -> Bytes]
<1> DEFINE m == ThatFits(chunk)
           f == BUF_SIZE - wr
<1>1. /\ m \in 0..(BUF_SIZE - count) /\ m <= Len(chunk)
      /\ chunk \in Seq(Bytes) /\ Len(chunk) \in Nat
  BY FitsType DEF ReceiveInv
<1>2. /\ wr = Fold(rd + count)
      /\ rd \in 0..(BUF_SIZE - 1) /\ wr \in 0..(BUF_SIZE - 1)
      /\ count \in 0..BUF_SIZE /\ BUF_SIZE \in Nat \ {0}
  BY Places
<1>3. \A k \in 1..m : chunk[k] \in Bytes
  BY <1>1
<1>4. buffer \in [Index -> Bytes]
  BY DEF ReceiveInv, ReceiveTypeOK
<1> HIDE DEF m
<1>5. CASE wr + m > BUF_SIZE
  <2>1. /\ buffer' = Copied(Copied(buffer, wr, chunk, f, 0), 0, chunk, m - f, f)
        /\ wr' = SecondWr(m - f)
    BY <1>1, <1>2, <1>5 DEF tcp_client_recv, m
  <2>2. \A i \in Index :
          buffer'[i] = IF i \in 0..(m - f - 1) THEN chunk[i + f + 1]
                       ELSE IF i \in wr..(wr + f - 1) THEN chunk[i - wr + 1]
                       ELSE buffer[i]
    BY <2>1, <1>1, <1>2 DEF Copied, Index
  <2>3. wr' = Fold(wr + m)
    <3>1. m - f \in 0..(2 * BUF_SIZE - 1) /\ m - f < BUF_SIZE
      BY <1>1, <1>2, <1>5
    <3>2. wr' = Fold(m - f)
      BY <2>1, <3>1, ModIsFold DEF SecondWr
    <3> QED
      BY <1>1, <1>2, <1>5, <3>1, <3>2 DEF Fold
  <2>4. ASSUME NEW k \in 1..m PROVE buffer'[Fold(wr + k - 1)] = chunk[k]
    <3>1. CASE k <= f
      <4>1. /\ Fold(wr + k - 1) = wr + k - 1 /\ wr + k - 1 \in Index
            /\ wr + k - 1 \notin 0..(m - f - 1)
            /\ wr + k - 1 \in wr..(wr + f - 1)
        BY <1>1, <1>2, <2>4, <3>1 DEF Fold, Index
      <4>2. (wr + k - 1) - wr + 1 = k
        BY <1>2
      <4> QED
        BY <2>2, <4>1, <4>2
    <3>2. CASE k > f
      <4>1. /\ Fold(wr + k - 1) = k - f - 1 /\ k - f - 1 \in Index
            /\ k - f - 1 \in 0..(m - f - 1)
        BY <1>1, <1>2, <2>4, <3>2 DEF Fold, Index
      <4>2. (k - f - 1) + f + 1 = k
        BY <1>2
      <4> QED
        BY <2>2, <4>1, <4>2
    <3> QED
      BY <1>1, <1>2, <2>4, <3>1, <3>2
  <2>5. ASSUME NEW j \in 1..count
        PROVE  buffer'[Fold(rd + j - 1)] = buffer[Fold(rd + j - 1)]
    <3>1. /\ Fold(rd + j - 1) \in Index
          /\ Fold(rd + j - 1) \notin 0..(m - f - 1)
          /\ Fold(rd + j - 1) \notin wr..(wr + f - 1)
      BY <1>1, <1>2, <1>5, <2>5 DEF Fold, Index
    <3> QED
      BY <2>2, <3>1
  <2>6. buffer' \in [Index -> Bytes]
    <3>1. ASSUME NEW i \in Index PROVE buffer'[i] \in Bytes
      <4>1. i \in 0..(m - f - 1) => i + f + 1 \in 1..m
        BY SMTT(30), <1>1, <1>2
      <4>2. i \in wr..(wr + f - 1) => i - wr + 1 \in 1..m
        BY SMTT(30), <1>1, <1>2, <1>5
      <4> QED
        BY <1>3, <1>4, <2>2, <3>1, <4>1, <4>2
    <3> QED
      BY <2>1, <3>1 DEF Copied
  <2> QED
    BY <2>3, <2>4, <2>5, <2>6 DEF m
<1>6. CASE wr + m <= BUF_SIZE
  <2>1. buffer' = Copied(buffer, wr, chunk, m, 0) /\ wr' = (wr + m) % BUF_SIZE
    BY <1>1, <1>2, <1>6 DEF tcp_client_recv, m
  <2>2. \A i \in Index :
          buffer'[i] = IF i \in wr..(wr + m - 1) THEN chunk[i - wr + 1]
                       ELSE buffer[i]
    BY SMTT(30), <2>1, <1>1, <1>2 DEF Copied, Index
  <2>3. wr' = Fold(wr + m)
    <3>1. wr + m \in 0..(2 * BUF_SIZE - 1)
      BY <1>1, <1>2
    <3> QED
      BY <2>1, <3>1, ModIsFold
  <2>4. ASSUME NEW k \in 1..m PROVE buffer'[Fold(wr + k - 1)] = chunk[k]
    <3>1. /\ Fold(wr + k - 1) = wr + k - 1 /\ wr + k - 1 \in Index
          /\ wr + k - 1 \in wr..(wr + m - 1)
      BY <1>1, <1>2, <1>6, <2>4 DEF Fold, Index
    <3>2. (wr + k - 1) - wr + 1 = k
      BY <1>2
    <3> QED
      BY <2>2, <3>1, <3>2
  <2>5. ASSUME NEW j \in 1..count
        PROVE  buffer'[Fold(rd + j - 1)] = buffer[Fold(rd + j - 1)]
    <3>1. /\ Fold(rd + j - 1) \in Index
          /\ Fold(rd + j - 1) \notin wr..(wr + m - 1)
      BY <1>1, <1>2, <1>6, <2>5 DEF Fold, Index
    <3> QED
      BY <2>2, <3>1
  <2>6. buffer' \in [Index -> Bytes]
    <3>1. ASSUME NEW i \in Index PROVE buffer'[i] \in Bytes
      <4>1. i \in wr..(wr + m - 1) => i - wr + 1 \in 1..m
        BY <1>1, <1>2
      <4> QED
        BY <1>3, <1>4, <2>2, <3>1, <4>1
    <3> QED
      BY <2>1, <3>1 DEF Copied
  <2> QED
    BY <2>3, <2>4, <2>5, <2>6, Zenon DEF m
<1>7. wr + m > BUF_SIZE \/ wr + m <= BUF_SIZE
  BY <1>1, <1>2
<1> QED
  BY <1>5, <1>6, <1>7

\* What read() does: it returns the bytes from rd on and moves rd behind them.
LEMMA ReadTakes ==
  ASSUME ReceiveInv, NEW want \in 0..MaxLen, read(want)
  PROVE  /\ Lesser(count, want) \in 0..count
         /\ rd' = Fold(rd + Lesser(count, want))
         /\ out' = [i \in 1..Lesser(count, want) |-> buffer[Fold(rd + i - 1)]]
<1> DEFINE m == Lesser(count, want)
           f == BUF_SIZE - rd
<1>1. /\ wr = Fold(rd + count)
      /\ rd \in 0..(BUF_SIZE - 1) /\ wr \in 0..(BUF_SIZE - 1)
      /\ count \in 0..BUF_SIZE /\ BUF_SIZE \in Nat \ {0}
  BY Places
<1>2. m \in 0..count
  BY <1>1, ReceiveAssumption DEF Lesser
<1> HIDE DEF m
<1>3. CASE rd + m > BUF_SIZE
  <2>1. /\ out' = [i \in 1..m |-> IF i <= f THEN buffer[rd + i - 1]
                                  ELSE buffer[i - f - 1]]
        /\ rd' = m - f
    BY <1>1, <1>2, <1>3 DEF read, m
  <2>2. ASSUME NEW i \in 1..m
        PROVE  (IF i <= f THEN buffer[rd + i - 1] ELSE buffer[i - f - 1])
                 = buffer[Fold(rd + i - 1)]
    <3>1. Fold(rd + i - 1) = IF i <= f THEN rd + i - 1 ELSE i - f - 1
      BY <1>1, <1>2, <2>2 DEF Fold
    <3> QED
      BY <3>1
  <2>3. rd' = Fold(rd + m)
    BY <1>1, <1>2, <1>3, <2>1 DEF Fold
  <2> QED
    BY <1>2, <2>1, <2>2, <2>3 DEF m
<1>4. CASE rd + m <= BUF_SIZE
  <2>1. /\ out' = [i \in 1..m |-> buffer[rd + i - 1]]
        /\ rd' = IF m > 0 THEN (rd + m) % BUF_SIZE ELSE rd
    BY <1>1, <1>2, <1>4 DEF read, m, NextRd
  <2>2. \A i \in 1..m : Fold(rd + i - 1) = rd + i - 1
    BY <1>1, <1>2, <1>4 DEF Fold
  <2>3. rd' = Fold(rd + m)
    <3>1. rd + m \in 0..(2 * BUF_SIZE - 1)
      BY <1>1, <1>2
    <3>2. CASE m > 0
      BY <2>1, <3>1, <3>2, ModIsFold
    <3>3. CASE m = 0
      BY <1>1, <2>1, <3>3 DEF Fold
    <3> QED
      BY <1>2, <3>2, <3>3
  <2> QED
    BY <1>2, <2>1, <2>2, <2>3 DEF m
<1> QED
  BY <1>1, <1>2, <1>3, <1>4

\* The constructor.
LEMMA ReceiveInitInv == ASSUME ReceiveInit PROVE ReceiveInv
<1>1. 0 % BUF_SIZE = 0
  BY ReceiveAssumption, ModIsFold DEF Fold
<1> QED
  BY <1>1, ReceiveAssumption
     DEF ReceiveInit, ReceiveInv, ReceiveTypeOK, IndicesAgree, Index

\* Both functions keep the indices count places apart.
LEMMA ReceiveNextInv ==
  ASSUME ReceiveInv, [ReceiveNext]_receiveVars PROVE ReceiveInv'
<1>1. /\ wr = Fold(rd + count)
      /\ rd \in 0..(BUF_SIZE - 1) /\ wr \in 0..(BUF_SIZE - 1)
      /\ count \in 0..BUF_SIZE /\ BUF_SIZE \in Nat \ {0}
  BY Places
<1>2. ASSUME NEW chunk \in Chunks, tcp_client_recv(chunk) PROVE ReceiveInv'
  <2>1. /\ ThatFits(chunk) \in 0..(BUF_SIZE - count)
        /\ chunk \in Seq(Bytes)
    BY <1>2, FitsType DEF ReceiveInv
  <2>2. /\ wr' = Fold(wr + ThatFits(chunk)) /\ buffer' \in [Index -> Bytes]
    BY <1>2, RecvPuts
  <2>3. /\ count' = count + ThatFits(chunk) /\ seg' = chunk
        /\ rd' = rd /\ out' = out
    BY <1>2 DEF tcp_client_recv
  <2>4. count' \in 0..BUF_SIZE
    BY <1>1, <2>1, <2>3
  <2> DEFINE m == ThatFits(chunk)
  <2>0. m \in 0..(BUF_SIZE - count) /\ wr' = Fold(wr + m) /\ count' = count + m
    BY <2>1, <2>2, <2>3
  <2> HIDE DEF m
  <2>5. wr' \in 0..(BUF_SIZE - 1) /\ wr' = Fold(rd' + count')
    <3>1. Fold(wr + m) \in 0..(BUF_SIZE - 1)
      BY <1>1, <2>0 DEF Fold
    <3>2. Fold(wr + m) = Fold(rd + (count + m))
      BY <1>1, <2>0 DEF Fold
    <3> QED
      BY <2>0, <2>3, <3>1, <3>2
  <2>6. rd' + count' \in 0..(2 * BUF_SIZE - 1)
    BY <1>1, <2>3, <2>4
  <2>7. IndicesAgree'
    BY <2>5, <2>6, ModIsFold DEF IndicesAgree
  <2>8. ReceiveTypeOK'
    BY <1>1, <2>1, <2>2, <2>3, <2>4, <2>5
       DEF ReceiveInv, ReceiveTypeOK, Index
  <2> QED
    BY <2>7, <2>8 DEF ReceiveInv
<1>3. ASSUME NEW want \in 0..MaxLen, read(want) PROVE ReceiveInv'
  <2> DEFINE m == Lesser(count, want)
  <2>1. /\ m \in 0..count /\ rd' = Fold(rd + m)
        /\ out' = [i \in 1..m |-> buffer[Fold(rd + i - 1)]]
    BY <1>3, ReadTakes
  <2>2. /\ count' = count - m
        /\ buffer' = buffer /\ wr' = wr /\ seg' = seg
    BY <1>3 DEF read
  <2> HIDE DEF m
  <2>3. count' \in 0..BUF_SIZE /\ rd' \in 0..(BUF_SIZE - 1)
    BY <1>1, <2>1, <2>2 DEF Fold
  <2>4. wr' = Fold(rd' + count')
    BY <1>1, <2>1, <2>2 DEF Fold
  <2>5. rd' + count' \in 0..(2 * BUF_SIZE - 1)
    <3>1. rd' \in Nat /\ count' \in Nat /\ rd' < BUF_SIZE /\ count' <= BUF_SIZE
      BY <1>1, <2>3
    <3>2. \A a, b \in Nat : a < BUF_SIZE /\ b <= BUF_SIZE
            => a + b \in 0..(2 * BUF_SIZE - 1)
      BY <1>1
    <3> QED
      BY <3>1, <3>2
  <2>6. IndicesAgree'
    BY <2>4, <2>5, ModIsFold DEF IndicesAgree
  <2>7. out' \in Seq(Bytes)
    <3>1. \A i \in 1..m : Fold(rd + i - 1) \in Index
      BY <1>1, <2>1 DEF Fold, Index
    <3>2. \A i \in 1..m : buffer[Fold(rd + i - 1)] \in Bytes
      BY <3>1 DEF ReceiveInv, ReceiveTypeOK
    <3>3. m \in Nat
      BY <1>1, <2>1
    <3> QED
      BY <2>1, <3>2, <3>3
  <2>8. ReceiveTypeOK'
    BY <1>1, <2>2, <2>3, <2>7 DEF ReceiveInv, ReceiveTypeOK, Index
  <2> QED
    BY <2>6, <2>8 DEF ReceiveInv
<1>4. CASE UNCHANGED receiveVars
  BY <1>4 DEF receiveVars, ReceiveInv, ReceiveTypeOK, IndicesAgree
<1> QED
  BY <1>2, <1>3, <1>4 DEF ReceiveNext

\* The inductive invariant.
LEMMA ReceiveInvariant == ReceiveSpec => []ReceiveInv
<1>1. ReceiveInit => ReceiveInv
  BY ReceiveInitInv
<1>2. ReceiveInv /\ [ReceiveNext]_receiveVars => ReceiveInv'
  BY ReceiveNextInv
<1> QED
  BY <1>1, <1>2, PTL DEF ReceiveSpec

(* The write index is always count places after the read index, and both   *)
(* stay inside the buffer.                                                 *)
THEOREM IndicesAlwaysAgree == ReceiveSpec => [](ReceiveTypeOK /\ IndicesAgree)
<1>1. ReceiveInv => ReceiveTypeOK /\ IndicesAgree
  BY DEF ReceiveInv
<1> QED
  BY <1>1, ReceiveInvariant, PTL

-----------------------------------------------------------------------------
\* The bytes waiting, without the modulus.
WaitingOK ==
  /\ Waiting \in Seq(Bytes) /\ Len(Waiting) = count
  /\ \A i \in 1..count : Waiting[i] = buffer[Fold(rd + i - 1)]

\* The bytes that wait are as many as the count says, each where the read
\* index puts it.
LEMMA WaitingType == ReceiveInv => WaitingOK
<1> SUFFICES ASSUME ReceiveInv PROVE WaitingOK
  OBVIOUS
<1>1. /\ rd \in 0..(BUF_SIZE - 1) /\ count \in 0..BUF_SIZE
      /\ BUF_SIZE \in Nat \ {0}
  BY Places
<1>2. ASSUME NEW i \in 1..count
      PROVE  /\ (rd + i - 1) % BUF_SIZE = Fold(rd + i - 1)
             /\ Fold(rd + i - 1) \in Index
  <2>1. rd + i - 1 \in 0..(2 * BUF_SIZE - 1)
    BY <1>1
  <2> QED
    BY <2>1, ModIsFold
<1>3. \A i \in 1..count : buffer[(rd + i - 1) % BUF_SIZE] \in Bytes
  BY <1>2 DEF ReceiveInv, ReceiveTypeOK
<1>4. count \in Nat
  BY <1>1
<1>5. Waiting \in Seq(Bytes) /\ Len(Waiting) = count
  BY <1>3, <1>4 DEF Waiting
<1>6. \A i \in 1..count : Waiting[i] = buffer[Fold(rd + i - 1)]
  BY <1>2 DEF Waiting
<1> QED
  BY <1>5, <1>6 DEF WaitingOK

\* The same after a step.
LEMMA WaitingTypeNext == ReceiveInv' => WaitingOK'
BY WaitingType, PTL

\* The part of a segment that fits is appended to the stream.
LEMMA RecvAppends ==
  ASSUME ReceiveInv, NEW chunk \in Chunks, tcp_client_recv(chunk)
  PROVE  Waiting' = Waiting \o SubSeq(chunk, 1, ThatFits(chunk))
<1> DEFINE m == ThatFits(chunk)
           part == SubSeq(chunk, 1, m)
<1>1. ReceiveInv'
  BY ReceiveNextInv DEF ReceiveNext
<1>2. /\ m \in 0..(BUF_SIZE - count) /\ m <= Len(chunk)
      /\ chunk \in Seq(Bytes) /\ Len(chunk) \in Nat
  BY FitsType DEF ReceiveInv
<1>3. /\ wr = Fold(rd + count)
      /\ rd \in 0..(BUF_SIZE - 1) /\ wr \in 0..(BUF_SIZE - 1)
      /\ count \in 0..BUF_SIZE /\ BUF_SIZE \in Nat \ {0}
  BY Places
<1>4. /\ \A k \in 1..m : buffer'[Fold(wr + k - 1)] = chunk[k]
      /\ \A j \in 1..count :
           buffer'[Fold(rd + j - 1)] = buffer[Fold(rd + j - 1)]
  BY RecvPuts
<1>5. count' = count + m /\ rd' = rd
  BY DEF tcp_client_recv
<1> HIDE DEF m
<1>6. part \in Seq(Bytes) /\ Len(part) = m /\ \A i \in 1..m : part[i] = chunk[i]
  <2>1. \A i \in 1..m : chunk[i] \in Bytes
    BY <1>2
  <2>2. m \in Int /\ 1 \in Int
    BY <1>2, <1>3
  <2>3. /\ part \in Seq(Bytes)
        /\ Len(part) = IF 1 <= m THEN m - 1 + 1 ELSE 0
        /\ \A i \in 1..(m - 1 + 1) : part[i] = chunk[1 + i - 1]
    BY <2>1, <2>2, SubSeqProperties
  <2> QED
    BY <1>2, <1>3, <2>3
<1>7. /\ Waiting \in Seq(Bytes) /\ Len(Waiting) = count
      /\ \A i \in 1..count : Waiting[i] = buffer[Fold(rd + i - 1)]
  BY WaitingType DEF WaitingOK
<1>8. /\ Waiting' \in Seq(Bytes) /\ Len(Waiting') = count + m
      /\ \A i \in 1..(count + m) : Waiting'[i] = buffer'[Fold(rd + i - 1)]
  BY <1>1, <1>5, WaitingTypeNext DEF WaitingOK, Fold
<1> HIDE DEF part
<1>9. /\ Waiting \o part \in Seq(Bytes)
      /\ Len(Waiting \o part) = count + m
      /\ \A i \in 1..(count + m) : (Waiting \o part)[i] =
           IF i <= count THEN Waiting[i] ELSE part[i - count]
  BY <1>6, <1>7, ConcatProperties
<1>10. ASSUME NEW i \in 1..(count + m)
       PROVE  Waiting'[i] = (Waiting \o part)[i]
  <2>1. CASE i <= count
    <3>1. i \in 1..count
      BY <1>2, <1>3, <2>1
    <3>2. (Waiting \o part)[i] = Waiting[i]
      BY <1>9, <2>1
    <3> QED
      <4>1. Waiting'[i] = buffer'[Fold(rd + i - 1)]
        BY <1>8
      <4>2. buffer'[Fold(rd + i - 1)] = buffer[Fold(rd + i - 1)]
        BY <1>4, <3>1
      <4>3. Waiting[i] = buffer[Fold(rd + i - 1)]
        BY <1>7, <3>1
      <4> QED
        BY <3>2, <4>1, <4>2, <4>3
  <2>2. CASE ~(i <= count)
    <3>1. i - count \in 1..m
      BY <1>2, <1>3, <2>2
    <3>2. Fold(rd + i - 1) = Fold(wr + (i - count) - 1)
      BY <1>2, <1>3, <2>2 DEF Fold
    <3> QED
      <4>1. Waiting'[i] = buffer'[Fold(rd + i - 1)]
        BY <1>8
      <4>2. buffer'[Fold(wr + (i - count) - 1)] = chunk[i - count]
        BY <1>4, <3>1
      <4>3. (Waiting \o part)[i] = part[i - count]
        BY <1>9, <2>2
      <4>4. part[i - count] = chunk[i - count]
        BY <1>6, <3>1
      <4> QED
        BY <3>2, <4>1, <4>2, <4>3, <4>4
  <2> QED
    BY <2>1, <2>2
<1> QED
  BY <1>8, <1>9, <1>10, SeqEqual DEF part, m

\* read() takes the first bytes of the stream off.
LEMMA ReadRemoves ==
  ASSUME ReceiveInv, NEW want \in 0..MaxLen, read(want)
  PROVE  /\ out' = SubSeq(Waiting, 1, Lesser(count, want))
         /\ Waiting' = SubSeq(Waiting, Lesser(count, want) + 1, Len(Waiting))
<1> DEFINE m == Lesser(count, want)
           rest == SubSeq(Waiting, m + 1, count)
           first == SubSeq(Waiting, 1, m)
<1>1. ReceiveInv'
  BY ReceiveNextInv DEF ReceiveNext
<1>2. /\ m \in 0..count /\ rd' = Fold(rd + m)
      /\ out' = [i \in 1..m |-> buffer[Fold(rd + i - 1)]]
  BY ReadTakes
<1>3. /\ rd \in 0..(BUF_SIZE - 1)
      /\ count \in 0..BUF_SIZE /\ BUF_SIZE \in Nat \ {0}
  BY Places
<1>4. count' = count - m /\ buffer' = buffer
  BY DEF read
<1> HIDE DEF m
<1>5. /\ Waiting \in Seq(Bytes) /\ Len(Waiting) = count
      /\ \A i \in 1..count : Waiting[i] = buffer[Fold(rd + i - 1)]
  BY WaitingType DEF WaitingOK
<1>6. \A i \in 1..count : Waiting[i] \in Bytes
  BY <1>5
<1>7. m \in Nat /\ count \in Nat /\ m <= count
  BY <1>2, <1>3
<1>8. /\ first \in Seq(Bytes) /\ Len(first) = m
      /\ \A i \in 1..m : first[i] = Waiting[i]
  <2>1. \A i \in 1..m : Waiting[i] \in Bytes
    BY <1>6, <1>7
  <2>2. /\ first \in Seq(Bytes)
        /\ Len(first) = IF 1 <= m THEN m - 1 + 1 ELSE 0
        /\ \A i \in 1..(m - 1 + 1) : first[i] = Waiting[1 + i - 1]
    BY <2>1, <1>7, SubSeqProperties
  <2> QED
    BY <1>7, <2>2
<1>9. /\ rest \in Seq(Bytes) /\ Len(rest) = count - m
      /\ \A i \in 1..(count - m) : rest[i] = Waiting[m + i]
  <2>1. \A i \in (m + 1)..count : Waiting[i] \in Bytes
    BY <1>6, <1>7
  <2>2. /\ rest \in Seq(Bytes)
        /\ Len(rest) = IF m + 1 <= count THEN count - (m + 1) + 1 ELSE 0
        /\ \A i \in 1..(count - (m + 1) + 1) :
             rest[i] = Waiting[(m + 1) + i - 1]
    BY <2>1, <1>7, SubSeqProperties
  <2> QED
    BY <1>7, <2>2
<1> HIDE DEF rest, first
<1>10. out' = first
  <2>1. out' \in Seq(Bytes) /\ Len(out') = m
    BY <1>1, <1>2, <1>7 DEF ReceiveInv, ReceiveTypeOK
  <2>2. \A i \in 1..m : out'[i] = first[i]
    BY <1>2, <1>5, <1>7, <1>8
  <2> QED
    BY <1>8, <2>1, <2>2, SeqEqual
<1>11. Waiting' = rest
  <2>1. /\ Waiting' \in Seq(Bytes) /\ Len(Waiting') = count - m
        /\ \A i \in 1..(count - m) : Waiting'[i] = buffer[Fold(rd' + i - 1)]
    BY <1>1, <1>4, WaitingTypeNext DEF WaitingOK, Fold
  <2>2. ASSUME NEW i \in 1..(count - m) PROVE Waiting'[i] = rest[i]
    <3>1. m + i \in 1..count
      BY <1>7
    <3>2. Fold(rd' + i - 1) = Fold(rd + (m + i) - 1)
      BY <1>2, <1>3, <1>7 DEF Fold
    <3> QED
      BY <1>5, <1>9, <2>1, <3>1, <3>2
  <2> QED
    BY <1>9, <2>1, <2>2, SeqEqual
<1> QED
  BY <1>5, <1>10, <1>11 DEF m, rest, first

(* The receive buffer of IPStack implements the bounded stream: read()     *)
(* returns every byte that fitted once and in order, for every size of the *)
(* buffer, of the segments and of the reads.                               *)
THEOREM ReceiveIsStream == ReceiveSpec => ImplementsStream
<1>1. ReceiveInit => Stream!StreamInit
  <2> SUFFICES ASSUME ReceiveInit PROVE Stream!StreamInit
    OBVIOUS
  <2>1. Waiting \in Seq(Bytes) /\ Len(Waiting) = 0
    BY ReceiveInitInv, WaitingType DEF WaitingOK, ReceiveInit
  <2> QED
    BY <2>1 DEF Stream!StreamInit, ReceiveInit
<1>2. ReceiveInv /\ [ReceiveNext]_receiveVars
        => [Stream!StreamNext]_<<Waiting, seg, out>>
  <2> SUFFICES ASSUME ReceiveInv, [ReceiveNext]_receiveVars
               PROVE  [Stream!StreamNext]_<<Waiting, seg, out>>
    OBVIOUS
  <2>0. Len(Waiting) = count /\ count \in 0..BUF_SIZE
    BY WaitingType, Places DEF WaitingOK
  <2>1. ASSUME NEW chunk \in Chunks, tcp_client_recv(chunk)
        PROVE  Stream!StreamNext
    <3>1. Waiting' = Waiting \o SubSeq(chunk, 1,
            Stream!Lesser(Len(chunk), BUF_SIZE - Len(Waiting)))
      BY <2>0, <2>1, RecvAppends DEF ThatFits, Lesser, Stream!Lesser
    <3>2. seg' = chunk /\ out' = out
      BY <2>1 DEF tcp_client_recv
    <3>3. Stream!Arrive(chunk)
      BY <3>1, <3>2 DEF Stream!Arrive
    <3> QED
      BY <3>3 DEF Stream!StreamNext, Stream!Chunks, Chunks
  <2>2. ASSUME NEW want \in 0..MaxLen, read(want) PROVE Stream!StreamNext
    <3> DEFINE m == Lesser(count, want)
    <3>1. m \in 0..count
      BY <2>2, ReadTakes
    <3>2. Stream!Lesser(m, Len(Waiting)) = m
      BY <2>0, <3>1 DEF Stream!Lesser
    <3>3. /\ out' = SubSeq(Waiting, 1, m)
          /\ Waiting' = SubSeq(Waiting, m + 1, Len(Waiting))
      BY <2>2, ReadRemoves
    <3>4. seg' = seg
      BY <2>2 DEF read
    <3>5. Stream!Take(m)
      BY <3>2, <3>3, <3>4 DEF Stream!Take
    <3>6. m \in 0..BUF_SIZE
      BY <2>0, <3>1, ReceiveAssumption
    <3> QED
      BY <3>5, <3>6 DEF Stream!StreamNext
  <2>3. CASE UNCHANGED receiveVars
    BY <2>3 DEF receiveVars, Waiting
  <2> QED
    BY <2>1, <2>2, <2>3 DEF ReceiveNext
<1> QED
  BY <1>1, <1>2, ReceiveInvariant, PTL
     DEF ReceiveSpec, ImplementsStream, Stream!StreamSpec

-----------------------------------------------------------------------------
(***************************************************************************)
(* The life of a connection in MQTTHandler::connect, for any number of     *)
(* connections and messages.  SessionSafe speaks mostly of the time        *)
(* between calls; Places says what is already there at each place of       *)
(* connect(), and SessionInv, both together, is inductive.                 *)
(***************************************************************************)
\* What exists at each place of connect().
ConnectPlaces ==
  /\ pc = "wifi" => retry \in 0..2
  /\ pc \in {"wifi", "tcp", "mqtt"} =>
       mMQTTEnabled = FALSE /\ mIPStack = made /\ made # 0
  /\ pc \in {"wifi", "tcp"} => alive = {}
  /\ pc \in {"tcp", "mqtt"} => mMQTTClient = mIPStack
  /\ pc = "mqtt" => tcp_pcb = mIPStack /\ attached = TRUE
  /\ pc = "subscribe" => mMQTTEnabled = TRUE
  /\ mMQTTEnabled = TRUE => attached = TRUE

SessionInv == SessionSafe /\ ConnectPlaces

\* The flags, in the form that the steps below use.
LEMMA Flags ==
  ASSUME SessionTypeOK
  PROVE  /\ linkup \in BOOLEAN /\ connected \in BOOLEAN
         /\ isconnected \in BOOLEAN /\ attached \in BOOLEAN
         /\ mMQTTEnabled \in BOOLEAN
BY DEF SessionTypeOK

\* The same the other way round.
LEMMA FlagsTyped ==
  ASSUME linkup \in BOOLEAN, connected \in BOOLEAN, isconnected \in BOOLEAN,
         attached \in BOOLEAN, mMQTTEnabled \in BOOLEAN
  PROVE  {linkup, connected, isconnected, attached, mMQTTEnabled}
           \subseteq BOOLEAN
OBVIOUS

\* The invariant holds before the first connect().
LEMMA SessionInitInv == ASSUME SessionInit PROVE SessionInv
<1> USE DEF SessionInit
<1>1. {linkup, connected, isconnected, attached, mMQTTEnabled}
        \subseteq BOOLEAN
  BY FlagsTyped
<1>2. SessionTypeOK
  BY <1>1, SessionAssumption DEF SessionTypeOK
<1>3. EnabledHasStack /\ NothingLeaks /\ MessagesHandledOnce /\ ConnectPlaces
  BY DEF EnabledHasStack, NothingLeaks, MessagesHandledOnce, ConnectPlaces
<1> QED
  BY <1>2, <1>3 DEF SessionInv, SessionSafe

\* connect() drops the old stack and makes a new one: nothing of the old
\* connection is left alive.
LEMMA BeginKeeps == ASSUME SessionInv, ConnectBegin PROVE SessionInv'
<1> USE DEF SessionInv, SessionSafe, ConnectBegin, Disable
<1>1. SessionTypeOK'
  <2>1. {linkup', connected', isconnected', attached', mMQTTEnabled'}
          \subseteq BOOLEAN
    OBVIOUS
  <2>2. made' \in 0..MaxStacks /\ mIPStack' = made'
        /\ mMQTTClient' \in 0..made'
    BY SessionAssumption DEF SessionTypeOK
  <2>3. tcp_pcb' \in 0..made' /\ alive' \subseteq 1..made'
    BY SessionAssumption DEF SessionTypeOK
  <2> QED
    BY <2>1, <2>2, <2>3, SessionAssumption DEF SessionTypeOK
<1>2. EnabledHasStack' /\ MessagesHandledOnce'
  BY DEF EnabledHasStack, MessagesHandledOnce
<1>3. NothingLeaks' /\ alive' = {}
  BY DEF NothingLeaks
<1>4. ConnectPlaces'
  BY <1>3, SessionAssumption DEF ConnectPlaces, SessionTypeOK
<1> QED
  BY <1>1, <1>2, <1>3, <1>4

\* Another attempt to join the Wi-Fi touches no connection.
LEMMA RetryKeeps == ASSUME SessionInv, Retry PROVE SessionInv'
<1> USE DEF SessionInv, SessionSafe, Retry, tcpVars, clientVars, countVars
<1>1. SessionTypeOK'
  BY DEF SessionTypeOK
<1>2. EnabledHasStack' /\ NothingLeaks' /\ MessagesHandledOnce'
  BY DEF EnabledHasStack, NothingLeaks, MessagesHandledOnce
<1>3. ConnectPlaces'
  BY DEF ConnectPlaces
<1> QED
  BY <1>1, <1>2, <1>3

\* The end of a connect() that fails, whatever the client kept.
LEMMA FailKeeps ==
  ASSUME SessionInv, Fail, mMQTTEnabled' = FALSE, retry' \in 0..3,
         UNCHANGED <<mMQTTClient, attached>>,
         isconnected' \in BOOLEAN, subFilter' \in {"none", "stale"}
  PROVE  SessionInv'
<1> USE DEF SessionInv, SessionSafe, Fail, DropStack, countVars
<1>1. alive' = {} /\ mIPStack' = 0 /\ tcp_pcb' = 0 /\ connected' = FALSE
  BY DEF NothingLeaks
<1>2. SessionTypeOK'
  <2>1. {linkup', connected', isconnected', attached', mMQTTEnabled'}
          \subseteq BOOLEAN
    BY <1>1, Flags
  <2>2. tcp_pcb' \in 0..made' /\ alive' \subseteq 1..made'
    BY <1>1 DEF SessionTypeOK
  <2> QED
    BY <1>1, <2>1, <2>2 DEF SessionTypeOK
<1>3. EnabledHasStack' /\ NothingLeaks' /\ MessagesHandledOnce'
  BY <1>1 DEF EnabledHasStack, NothingLeaks, MessagesHandledOnce
<1>4. ConnectPlaces'
  BY DEF ConnectPlaces
<1> QED
  BY <1>2, <1>3, <1>4

\* The new client takes the new stack.
LEMMA NewClientKeeps == ASSUME SessionInv, NewClient PROVE SessionInv'
<1> USE DEF SessionInv, SessionSafe, NewClient, stackVars, tcpVars, countVars
<1>1. SessionTypeOK'
  BY DEF SessionTypeOK
<1>2. EnabledHasStack' /\ NothingLeaks' /\ MessagesHandledOnce'
  BY DEF EnabledHasStack, NothingLeaks, MessagesHandledOnce, ConnectPlaces
<1>3. ConnectPlaces'
  BY DEF ConnectPlaces
<1> QED
  BY <1>1, <1>2, <1>3

\* A TCP connection that opens is the only one alive.
LEMMA OpensKeeps == ASSUME SessionInv, TcpOpens PROVE SessionInv'
<1> USE DEF SessionInv, SessionSafe, TcpOpens, Attach, stackVars, countVars
<1>1. mIPStack = made /\ made # 0 /\ alive = {} /\ mMQTTEnabled = FALSE
  BY DEF ConnectPlaces
<1>2. SessionTypeOK'
  <2>1. tcp_pcb' \in 0..made /\ alive' \subseteq 1..made
    BY <1>1, SessionAssumption DEF SessionTypeOK
  <2> QED
    BY <2>1 DEF SessionTypeOK
<1>3. EnabledHasStack' /\ NothingLeaks' /\ MessagesHandledOnce'
  BY <1>1 DEF EnabledHasStack, NothingLeaks, MessagesHandledOnce
<1>4. ConnectPlaces'
  BY <1>1 DEF ConnectPlaces
<1> QED
  BY <1>2, <1>3, <1>4

\* A CONNACK enables MQTT on the stack that just opened.
LEMMA AcceptedKeeps == ASSUME SessionInv, Accepted PROVE SessionInv'
<1> USE DEF SessionInv, SessionSafe, Accepted, stackVars, tcpVars, countVars
<1>1. SessionTypeOK'
  BY DEF SessionTypeOK
<1>2. EnabledHasStack' /\ NothingLeaks' /\ MessagesHandledOnce'
  BY DEF EnabledHasStack, NothingLeaks, MessagesHandledOnce, ConnectPlaces
<1>3. ConnectPlaces'
  BY DEF ConnectPlaces
<1> QED
  BY <1>1, <1>2, <1>3

\* The steps that touch only the session of the client.
LEMMA SubscribedKeeps ==
  ASSUME SessionInv, Subscribed \/ keepAlive \/ send PROVE SessionInv'
<1> USE DEF SessionInv, SessionSafe, Subscribed, keepAlive, send, closeSession,
        stackVars, tcpVars, countVars
<1>1. SessionTypeOK'
  BY DEF SessionTypeOK
<1>2. EnabledHasStack' /\ NothingLeaks' /\ MessagesHandledOnce'
  BY DEF EnabledHasStack, NothingLeaks, MessagesHandledOnce, ConnectPlaces
<1>3. ConnectPlaces'
  BY DEF ConnectPlaces
<1> QED
  BY <1>1, <1>2, <1>3

\* A message is handled by the default handler if the stale filter fails.
LEMMA MessageKeeps == ASSUME SessionInv, Message PROVE SessionInv'
<1> USE DEF SessionInv, SessionSafe, Message, stackVars, tcpVars, clientVars
<1>1. attached = TRUE
  BY Flags DEF Polling, ConnectPlaces
<1>2. handled' = handled + 1 /\ handled' = arrived'
  BY <1>1 DEF MessagesHandledOnce
<1>3. SessionTypeOK'
  BY <1>2, SessionAssumption DEF SessionTypeOK, MessagesHandledOnce
<1>4. EnabledHasStack' /\ NothingLeaks' /\ MessagesHandledOnce'
  BY <1>2 DEF EnabledHasStack, NothingLeaks, MessagesHandledOnce
<1>5. ConnectPlaces'
  BY DEF ConnectPlaces
<1> QED
  BY <1>3, <1>4, <1>5

\* lwIP's callbacks.
LEMMA CallbackKeeps ==
  ASSUME SessionInv, tcp_client_connected \/ tcp_client_err PROVE SessionInv'
<1> USE DEF SessionInv, SessionSafe, tcp_client_connected, tcp_client_err,
        stackVars, clientVars, countVars
<1>1. SessionTypeOK'
  BY DEF SessionTypeOK
<1>2. EnabledHasStack' /\ NothingLeaks' /\ MessagesHandledOnce'
  BY DEF EnabledHasStack, NothingLeaks, MessagesHandledOnce
<1>3. ConnectPlaces'
  BY DEF ConnectPlaces
<1> QED
  BY <1>1, <1>2, <1>3

\* Every step keeps the invariant: one case per action.
LEMMA SessionNextInv ==
  ASSUME SessionInv, [SessionNext]_sessionVars PROVE SessionInv'
<1>1. CASE NoWifi \/ TcpFails \/ Refused
  <2>1. mMQTTEnabled' = FALSE
    BY <1>1 DEF NoWifi, TcpFails, Refused, SessionInv, ConnectPlaces
  <2>2. retry' \in 0..3 /\ UNCHANGED <<mMQTTClient, attached>>
    BY <1>1 DEF NoWifi, TcpFails, Refused, SessionInv, ConnectPlaces,
      SessionSafe,
       SessionTypeOK, clientVars
  <2>3. isconnected' \in BOOLEAN /\ subFilter' \in {"none", "stale"}
    BY <1>1, Flags DEF NoWifi, TcpFails, Refused, closeSession, SessionInv,
       SessionSafe, SessionTypeOK, clientVars
  <2> QED
    BY <1>1, <2>1, <2>2, <2>3, FailKeeps DEF NoWifi, TcpFails, Refused
<1>2. CASE UNCHANGED sessionVars
  BY <1>2 DEF sessionVars, stackVars, tcpVars, clientVars, countVars,
     SessionInv, SessionSafe, SessionTypeOK, EnabledHasStack, NothingLeaks,
     MessagesHandledOnce, ConnectPlaces
<1> QED
  BY <1>1, <1>2, BeginKeeps, RetryKeeps, NewClientKeeps, OpensKeeps,
     AcceptedKeeps, SubscribedKeeps, MessageKeeps, CallbackKeeps
  DEF SessionNext, Connecting

(* However often connecting fails, succeeds and is lost again: keepAlive() *)
(* and send() find the stack and the control block of the latest connect(),*)
(* lwIP keeps no forgotten control block, and every message is handled     *)
(* exactly once.                                                           *)
THEOREM SessionIsSafe == SessionSpec => []SessionSafe
<1>1. SessionInv => SessionSafe
  BY DEF SessionInv
<1>2. SessionInit => SessionInv
  BY SessionInitInv
<1>3. SessionInv /\ [SessionNext]_sessionVars => SessionInv'
  BY SessionNextInv
<1> QED
  BY <1>1, <1>2, <1>3, PTL DEF SessionSpec

-----------------------------------------------------------------------------
(***************************************************************************)
(* MQTTPacket_readnb() returns what was sent and stays in its buffer, for  *)
(* every stream of packets, every buffer of at least five bytes and every  *)
(* way of cutting the stream.                                              *)
(***************************************************************************)
Rem == Sent[n + 1].rem

\* The inductive invariant: what MQTTTransport holds in each state.
AtStart == state = 0 => took = 0
InLength ==
  state = 1 =>
    /\ n < Len(Sent) /\ header = Sent[n + 1].type
    /\ took = 1 + len /\ len <= 4
    /\ len < EncodedLength(Rem) \/ Unending(Rem)
    /\ len > 0 => multiplier = Power(len) /\ rem_len = Rem % Power(len)
InBody ==
  state = 2 =>
    /\ n < Len(Sent) /\ header = Sent[n + 1].type
    /\ took = len /\ took + rem_len = Total(Rem)
    /\ rem_len > 0 /\ len + rem_len <= BufLen
ReaderInv ==
  /\ ReaderTypeOK /\ WritesInside /\ WholePackets
  /\ AtStart /\ InLength /\ InBody

-----------------------------------------------------------------------------
\* The length of an encoding is between one byte and four.
LEMMA EncodedBounds ==
  ASSUME NEW rest \in Nat
  PROVE  EncodedLength(rest) \in 1..4
  BY DEF EncodedLength

\* The powers of 128 that are used.
LEMMA Powers ==
  /\ Power(0) = 1 /\ Power(1) = 128 /\ Power(2) = 16384
  /\ Power(3) = 2097152 /\ Power(4) = 268435456
  BY SMT DEF Power, LengthLimit

\* One more byte of the remaining length is one more digit to the base 128.
LEMMA NextDigit ==
  ASSUME NEW rest \in Nat, NEW k \in 0..3
  PROVE  /\ (rest % Power(k)) + ((rest \div Power(k)) % 128) * Power(k)
              = rest % Power(k + 1)
         /\ Power(k) * 128 = Power(k + 1)
         /\ Power(k) \in Nat \ {0} /\ Power(k + 1) \in Nat \ {0}
         /\ rest \div Power(k) \in Nat
  <1>1. CASE k = 0
    <2>1. Power(k) = 1 /\ Power(k + 1) = 128
      BY <1>1, Powers, SMT
    <2> QED BY <2>1, SMT
  <1>2. CASE k = 1
    <2>1. Power(k) = 128 /\ Power(k + 1) = 16384
      BY <1>2, Powers, SMT
    <2> QED BY <2>1, SMT
  <1>3. CASE k = 2
    <2>1. Power(k) = 16384 /\ Power(k + 1) = 2097152
      BY <1>3, Powers, SMT
    <2> QED BY <2>1, SMT
  <1>4. CASE k = 3
    <2>1. Power(k) = 2097152 /\ Power(k + 1) = 268435456
      BY <1>4, Powers, SMT
    <2> QED BY <2>1, SMT
  <1> QED BY <1>1, <1>2, <1>3, <1>4, SMT

\* The digit in a byte of the length, and what its top bit says.
LEMMA ByteOfLength ==
  ASSUME NEW rest \in Nat, rest <= LengthLimit, NEW k \in 0..3,
         k < EncodedLength(rest) \/ Unending(rest)
  PROVE  /\ LengthByte(rest, k) \in 0..255
         /\ LengthByte(rest, k) % 128 = (rest \div Power(k)) % 128
         /\ LengthByte(rest, k) < 128 =>
              k + 1 = EncodedLength(rest) /\ rest % Power(k + 1) = rest
         /\ LengthByte(rest, k) >= 128 =>
              k + 1 < EncodedLength(rest) \/ Unending(rest)
  <1> DEFINE d == (rest \div Power(k)) % 128
             more == k + 1 < EncodedLength(rest) \/ Unending(rest)
  <1>1. d \in 0..127
    <2>1. rest \div Power(k) \in Nat
      BY NextDigit
    <2> QED BY <2>1, SMT
  <1>2. LengthByte(rest, k) = d + (IF more THEN 128 ELSE 0)
    BY DEF LengthByte
  <1>3. EncodedLength(rest) \in 1..4
    BY EncodedBounds
  <1>4. /\ LengthByte(rest, k) \in 0..255
        /\ LengthByte(rest, k) % 128 = d
        /\ LengthByte(rest, k) < 128 <=> ~more
    <2> HIDE DEF d, more
    <2>1. CASE more
      BY <2>1, <1>1, <1>2
    <2>2. CASE ~more
      BY <2>2, <1>1, <1>2
    <2> QED BY <2>1, <2>2
  <1>5. ~more => k + 1 = EncodedLength(rest) /\ rest % Power(k + 1) = rest
    <2> SUFFICES ASSUME ~more
                 PROVE  /\ k + 1 = EncodedLength(rest)
                        /\ rest % Power(k + 1) = rest
      OBVIOUS
    <2>1. k + 1 = EncodedLength(rest)
      BY <1>3
    <2>2. rest < Power(k + 1)
      <3>1. CASE k = 0
        BY <2>1, <3>1, Powers, SMT DEF EncodedLength
      <3>2. CASE k = 1
        BY <2>1, <3>2, Powers, SMT DEF EncodedLength
      <3>3. CASE k = 2
        BY <2>1, <3>3, Powers, SMT DEF EncodedLength
      <3>4. CASE k = 3
        BY <3>4, Powers, SMT DEF Unending, LengthLimit
      <3> QED BY <3>1, <3>2, <3>3, <3>4
    <2>3. Power(k + 1) \in Nat \ {0}
      BY NextDigit
    <2> QED BY <2>1, <2>2, <2>3, SMT
  <1> QED BY <1>4, <1>5

-----------------------------------------------------------------------------
LEMMA InitInv == ReaderInit => ReaderInv
  BY ReaderAssumption
  DEF ReaderInit, ReaderInv, ReaderTypeOK, WritesInside, WholePackets, AtStart,
      InLength, InBody

\* The types of the packet that is being read.
LEMMA SentType ==
  ASSUME Sent \in Streams, n < Len(Sent), n \in Nat
  PROVE  /\ Len(Sent) \in Nat
         /\ Sent[n + 1].type \in 1..15 /\ Rem \in Nat /\ Rem <= LengthLimit
  <1>1. Len(Sent) \in Nat /\ n + 1 \in 1..Len(Sent)
    BY ReaderAssumption
  <1> DEFINE R == [type : 1..15, rem : Nat]
  <1>2. Sent[n + 1] \in R
    <2>1. Sent \in Seq(R)
      BY ReaderAssumption
    <2> HIDE DEF R
    <2> QED BY <1>1, <2>1
  <1>3. Sent[n + 1].rem <= LengthLimit
    BY <1>1, ReaderAssumption
  <1> QED BY <1>1, <1>2, <1>3 DEF Rem

\* A byte of the remaining length: MQTTPacket_decodenb() adds its digit.
LEMMA DecodedByte ==
  ASSUME ReaderTypeOK, InLength, state = 1, len < 4
  PROVE  /\ Decoded(LengthByte(Rem, len)) = Rem % Power(len + 1)
         /\ Multiplier * 128 = Power(len + 1)
         /\ Power(len + 1) \in Nat \ {0} /\ Rem % Power(len + 1) \in Nat
  <1>1. /\ n \in Nat /\ n < Len(Sent) /\ len \in 0..3
        /\ len < EncodedLength(Rem) \/ Unending(Rem)
    BY DEF InLength, ReaderTypeOK
  <1>2. Rem \in Nat /\ Rem <= LengthLimit
    BY <1>1, SentType DEF ReaderTypeOK
  <1> DEFINE c == LengthByte(Rem, len)
             p == Power(len)
  <1>3. c % 128 = (Rem \div p) % 128
    BY <1>1, <1>2, ByteOfLength
  <1>4. /\ (Rem % p) + ((Rem \div p) % 128) * p = Rem % Power(len + 1)
        /\ p * 128 = Power(len + 1) /\ Power(len + 1) \in Nat \ {0}
    BY <1>1, <1>2, NextDigit
  <1>5. Multiplier = p /\ (IF len = 0 THEN 0 ELSE rem_len) = Rem % p
    <2>1. CASE len = 0
      <3>1. p = 1 /\ Rem % 1 = 0
        BY <1>2, <2>1, Powers, SMT
      <3> QED BY <2>1, <3>1 DEF Multiplier
    <2>2. CASE len > 0
      BY <1>1, <2>2 DEF InLength, Multiplier
    <2> QED BY <1>1, <2>1, <2>2
  <1>6. Decoded(c) = (Rem % p) + (c % 128) * p
    BY <1>5, Zenon DEF Decoded
  <1>7. Rem % Power(len + 1) \in Nat
    BY <1>2, <1>4
  <1> HIDE DEF p
  <1> QED BY <1>3, <1>4, <1>5, <1>6, <1>7, Zenon DEF c

\* The facts about the constants and the state every step starts from.
LEMMA Starts ==
  ASSUME ReaderInv
  PROVE  /\ BufLen \in Nat /\ BufLen >= 5
         /\ Sent \in Streams /\ Len(Sent) \in Nat
         /\ n \in 0..Len(Sent) /\ took \in Nat /\ high \in Nat
         /\ high <= BufLen
  BY ReaderAssumption DEF ReaderInv, ReaderTypeOK, WritesInside

LEMMA ReadHeaderInv ==
  ASSUME ReaderInv, ReadHeader, Sent' = Sent
  PROVE  ReaderInv'
  <1>1. /\ n' = n /\ n < Len(Sent) /\ state' = 1 /\ len' = 0 /\ took' = 1
        /\ header' = Sent[n + 1].type /\ rem_len' = rem_len
        /\ multiplier' = multiplier /\ ret' = ret
        /\ high' = IF 1 > high THEN 1 ELSE high
    BY DEF ReadHeader, Higher
  <1>2. Rem' = Rem
    BY <1>1 DEF Rem
  <1>3. /\ Sent[n + 1].type \in 1..15 /\ Rem \in Nat
        /\ EncodedLength(Rem) \in 1..4
    BY <1>1, Starts, SentType, EncodedBounds
  <1>4. ReaderTypeOK'
    BY <1>1, <1>3, Starts DEF ReaderInv, ReaderTypeOK
  <1>5. WritesInside' /\ WholePackets' /\ AtStart' /\ InBody'
    BY <1>1, Starts DEF ReaderInv, WritesInside, WholePackets, AtStart, InBody
  <1>6. InLength'
    BY <1>1, <1>2, <1>3 DEF InLength
  <1> QED BY <1>4, <1>5, <1>6 DEF ReaderInv

LEMMA ReadLengthInv ==
  ASSUME ReaderInv, ReadLength, Sent' = Sent
  PROVE  ReaderInv'
  <1> USE DEF ReaderInv
  <1>1. state = 1 /\ len < 4 /\ header' = header
    BY DEF ReadLength, MAX_NO_OF_REMAINING_LENGTH_BYTES
  <1>2. /\ n \in Nat /\ n < Len(Sent) /\ header = Sent[n + 1].type
        /\ took = 1 + len /\ len \in 0..3
        /\ len < EncodedLength(Rem) \/ Unending(Rem)
    BY <1>1 DEF InLength, ReaderTypeOK
  <1>3. Rem \in Nat /\ Rem <= LengthLimit /\ header \in 1..15
    BY <1>2, SentType, Starts
  <1> DEFINE c == LengthByte(Rem, len)
             r == Rem % Power(len + 1)
             length == 1 + EncodedLength(r)
  <1>4. /\ c \in 0..255
        /\ c < 128 => len + 1 = EncodedLength(Rem) /\ r = Rem
        /\ c >= 128 => len + 1 < EncodedLength(Rem) \/ Unending(Rem)
    BY <1>2, <1>3, ByteOfLength
  <1>5. /\ Decoded(c) = r /\ Multiplier * 128 = Power(len + 1)
        /\ Power(len + 1) \in Nat /\ r \in Nat
    BY <1>1, DecodedByte
  <1>6. length \in 2..5
    BY <1>5, EncodedBounds
  <1>7. LengthByte(Sent[n + 1].rem, took - 1) = c
    BY <1>2 DEF Rem
  <1>8. rem_len' = r /\ multiplier' = Power(len + 1)
    BY <1>5, <1>7 DEF ReadLength
  <1> HIDE DEF c, r, length
  <1>9. \/ /\ c >= 128 /\ len' = len + 1 /\ took' = took + 1
           /\ UNCHANGED <<state, n, high, ret>>
        \/ /\ c < 128 /\ Higher(length) /\ Fits(r, length) /\ r = 0
           /\ Complete(length)
        \/ /\ c < 128 /\ Higher(length) /\ (Fits(r, length) => r > 0)
           /\ state' = IF Fits(r, length) THEN 2 ELSE 3
           /\ len' = length /\ took' = took + 1 /\ UNCHANGED <<n, ret>>
    BY <1>5, <1>7 DEF ReadLength, length
  <1>a. CASE c >= 128 /\ len' = len + 1 /\ took' = took + 1
             /\ UNCHANGED <<state, n, high, ret>>
    <2>1. Rem' = Rem
      BY <1>a DEF Rem
    <2>2. ReaderTypeOK'
      BY <1>1, <1>2, <1>5, <1>8, <1>a DEF ReaderTypeOK
    <2>3. WritesInside' /\ WholePackets' /\ AtStart' /\ InBody'
      BY <1>1, <1>a DEF WritesInside, WholePackets, AtStart, InBody
    <2>4. InLength'
      BY <1>1, <1>2, <1>4, <1>8, <1>a, <2>1 DEF InLength, r
    <2> QED BY <2>2, <2>3, <2>4
  <1>b. CASE c < 128 /\ Higher(length) /\ Fits(r, length) /\ r = 0
             /\ Complete(length)
    <2>1. /\ state' = 0 /\ len' = length /\ n' = n + 1 /\ took' = 0
          /\ ret' = [type |-> header, len |-> length]
          /\ high' = IF length > high THEN length ELSE high
      BY <1>b DEF Complete, Higher
    <2>2. ReaderTypeOK'
      BY SMTT(30), <1>1, <1>2, <1>3, <1>5, <1>6, <1>8, <2>1, Starts
         DEF ReaderTypeOK
    <2>3. WritesInside'
      BY <1>6, <2>1, Starts DEF WritesInside
    <2>4. WholePackets'
      <3>1. length = Total(Rem)
        BY <1>3, <1>4, <1>6, <1>b DEF Total, length
      <3> QED BY <1>2, <2>1, <3>1 DEF WholePackets, Rem
    <2>5. AtStart' /\ InLength' /\ InBody'
      BY <2>1 DEF AtStart, InLength, InBody
    <2> QED BY <2>2, <2>3, <2>4, <2>5
  <1>c. CASE /\ c < 128 /\ Higher(length) /\ (Fits(r, length) => r > 0)
             /\ state' = IF Fits(r, length) THEN 2 ELSE 3
             /\ len' = length /\ took' = took + 1 /\ UNCHANGED <<n, ret>>
    <2>1. high' = IF length > high THEN length ELSE high
      BY <1>c DEF Higher
    <2>2. ReaderTypeOK'
      BY <1>1, <1>2, <1>3, <1>5, <1>6, <1>8, <1>c, <2>1, Starts
      DEF ReaderTypeOK
    <2>3. WritesInside'
      BY <1>6, <2>1, Starts DEF WritesInside
    <2>4. WholePackets' /\ AtStart' /\ InLength'
      BY <1>c DEF WholePackets, AtStart, InLength
    <2>5. InBody'
      <3>1. Rem' = Rem
        BY <1>c DEF Rem
      <3>2. length = took + 1 /\ length + r = Total(Rem)
        BY <1>2, <1>3, <1>4, <1>c, EncodedBounds DEF Total, length
      <3>3. state' = 2 => r > 0 /\ r + length <= BufLen
        BY <1>c DEF Fits
      <3> QED BY <1>1, <1>2, <1>5, <1>6, <1>8, <1>c, <3>1, <3>2, <3>3, Starts
          DEF InBody
    <2> QED BY <2>2, <2>3, <2>4, <2>5
  <1> QED BY <1>9, <1>a, <1>b, <1>c

LEMMA ReadBodyInv ==
  ASSUME ReaderInv, NEW k \in 1..rem_len, ReadBody(k), Sent' = Sent
  PROVE  ReaderInv'
  <1> USE DEF ReaderInv
  <1>1. /\ state = 2 /\ n < Len(Sent) /\ n \in Nat
        /\ header = Sent[n + 1].type
        /\ took = len /\ len + rem_len = Total(Rem)
        /\ len + rem_len <= BufLen /\ len \in Nat /\ rem_len \in Nat
        /\ multiplier \in Nat
    BY DEF ReadBody, InBody, ReaderTypeOK
  <1>2. Rem \in Nat /\ header \in 1..15
    BY <1>1, SentType, Starts
  <1>3. /\ high' = IF len + k > high THEN len + k ELSE high
        /\ rem_len' = rem_len - k /\ rem_len' \in Nat
        /\ header' = header /\ multiplier' = multiplier
    BY <1>1 DEF ReadBody, Higher
  <1>4. WritesInside' /\ high' \in Nat
    BY <1>1, <1>3, Starts DEF WritesInside
  <1>5. CASE rem_len = k
    <2>1. /\ state' = 0 /\ len' = len + k /\ n' = n + 1 /\ took' = 0
          /\ ret' = [type |-> header, len |-> len + k]
      BY <1>5 DEF ReadBody, Complete
    <2>2. ReaderTypeOK'
      BY <1>1, <1>2, <1>3, <1>4, <2>1, Starts DEF ReaderTypeOK
    <2>3. WholePackets'
      BY <1>1, <1>5, <2>1 DEF WholePackets, Rem
    <2>4. AtStart' /\ InLength' /\ InBody'
      BY <2>1 DEF AtStart, InLength, InBody
    <2> QED BY <1>4, <2>2, <2>3, <2>4
  <1>6. CASE rem_len # k
    <2>1. /\ len' = len + k /\ took' = took + k /\ state' = state /\ n' = n
          /\ ret' = ret
      BY <1>6 DEF ReadBody
    <2>2. ReaderTypeOK'
      BY SMTT(30), <1>1, <1>2, <1>3, <1>4, <2>1, Starts DEF ReaderTypeOK
    <2>3. WholePackets' /\ AtStart' /\ InLength'
      BY <1>1, <2>1 DEF WholePackets, AtStart, InLength
    <2>4. InBody'
      <3>1. Rem' = Rem
        BY <2>1 DEF Rem
      <3> QED BY <1>1, <1>3, <1>6, <2>1, <3>1, Starts DEF InBody
    <2> QED BY <1>4, <2>2, <2>3, <2>4
  <1> QED BY <1>5, <1>6

LEMMA NextInv == ReaderInv /\ [ReaderNext]_readerVars => ReaderInv'
  <1> SUFFICES ASSUME ReaderInv, [ReaderNext]_readerVars PROVE ReaderInv'
    OBVIOUS
  <1>0. Sent' = Sent
    BY DEF ReaderNext, Progress, readerVars
  <1>1. CASE ReadHeader
    BY <1>0, <1>1, ReadHeaderInv
  <1>2. CASE ReadLength
    BY <1>0, <1>2, ReadLengthInv
  <1>3. CASE LengthTooLong \/ GetError
    <2>1. state' = 3 /\ UNCHANGED <<len, rem_len, multiplier, n, took, header,
                                    high, ret>>
      BY <1>3 DEF LengthTooLong, GetError
    <2> QED BY <1>0, <2>1 DEF ReaderInv, ReaderTypeOK, WritesInside,
                              WholePackets, AtStart, InLength, InBody
  <1>4. CASE \E k \in 1..rem_len : ReadBody(k)
    BY <1>0, <1>4, ReadBodyInv
  <1>5. CASE UNCHANGED readerVars
    BY <1>5 DEF readerVars, transport, ReaderInv, ReaderTypeOK, WritesInside,
                WholePackets, AtStart, InLength, InBody, Rem
  <1> QED BY <1>1, <1>2, <1>3, <1>4, <1>5 DEF ReaderNext, Progress

LEMMA Invariant == ReaderSpec => []ReaderInv
  BY InitInv, NextInv, PTL DEF ReaderSpec

(* MQTTTransport keeps its type: the remaining length, which getfn counts  *)
(* down, never goes below zero, even when it was not initialised.          *)
THEOREM ReaderTypeCorrect == ReaderSpec => []ReaderTypeOK
  <1>1. ReaderInv => ReaderTypeOK
    BY DEF ReaderInv
  <1> QED BY <1>1, Invariant, PTL

(* MQTTPacket_readnb() writes nothing behind the end of a buffer of five   *)
(* bytes or more, whatever length the stream announces.                    *)
THEOREM ReaderWritesInside == ReaderSpec => []WritesInside
  <1>1. ReaderInv => WritesInside
    BY DEF ReaderInv
  <1> QED BY <1>1, Invariant, PTL

(* The packets returned are the packets sent, in their order and whole,    *)
(* however the transport cuts the stream and however often it has nothing. *)
THEOREM ReaderWholePackets == ReaderSpec => []WholePackets
  <1>1. ReaderInv => WholePackets
    BY DEF ReaderInv
  <1> QED BY <1>1, Invariant, PTL

(* Between two calls MQTTTransport says exactly what is missing.           *)
THEOREM ReaderInStep == ReaderSpec => []InStep
  <1>1. ReaderInv => InStep
    BY DEF ReaderInv, InBody, InStep, Rem
  <1> QED BY <1>1, Invariant, PTL

(* MQTTPacket_readnb() is safe for every buffer of five bytes or more and  *)
(* every stream: nothing written behind the buffer, packets whole and in   *)
(* order, its place kept between the calls.                                *)
THEOREM ReaderIsSafe == ReaderSpec => []ReaderSafe
  <1>1. WritesInside /\ WholePackets /\ InStep => ReaderSafe
    BY DEF ReaderSafe
  <1> QED
    BY <1>1, ReaderWritesInside, ReaderWholePackets, ReaderInStep, PTL

-----------------------------------------------------------------------------
(* The blocking reader                                                     *)

\* The limit is a number like any other.
LEMMA LimitIsNat == LengthLimit \in Nat
BY DEF LengthLimit

\* Bytes that came whole give back the length they stand for.
LEMMA DecodeWhole ==
  ASSUME NEW r \in 0..LengthLimit, ~Unending(r)
  PROVE  MQTTPacket_decode(r, EncodedLength(r)) = r
<1> DEFINE k == EncodedLength(r)
           two == 128 * 128
           three == 128 * 128 * 128
<1>0. LengthLimit \in Nat /\ two \in Nat /\ three \in Nat
  BY LimitIsNat
<1>1. r \in Nat /\ r < LengthLimit
  BY <1>0 DEF Unending
<1>2. \/ k = 1 /\ r < 128
      \/ k = 2 /\ r < two
      \/ k = 3 /\ r < three
      \/ k = 4 /\ r < LengthLimit
  BY <1>1 DEF EncodedLength
<1>2a. Power(1) = 128 /\ Power(2) = two /\ Power(3) = three
       /\ Power(4) = LengthLimit
  BY DEF Power
<1> HIDE DEF k, two, three
<1>3. r < Power(k) /\ Power(k) \in Nat
  BY <1>0, <1>2, <1>2a
<1>4. \A p \in Nat : r < p => r % p = r
  BY <1>1
<1> QED
  BY <1>3, <1>4 DEF MQTTPacket_decode, k

\* One call of MQTTPacket_read().
LEMMA BlockingReads ==
  ASSUME NEW r \in Rems, NEW body \in BOOLEAN,
         NEW many \in 0..EncodedLength(r), MQTTPacket_read(r, many, body)
  PROVE  ReturnedIsWhole'
<1> DEFINE value == MQTTPacket_decode(r, many)
           length == 1 + EncodedLength(value)
           asked == FitsRead(value, length) /\ value > 0
<1>1. /\ rem' = r
      /\ failed' = (many < EncodedLength(r) \/ Unending(r) \/ (asked /\ ~body))
      /\ rc' = IF FitsRead(value, length) /\ (asked => body) THEN PUBLISH
               ELSE MQTTPACKET_READ_ERROR
  BY DEF MQTTPacket_read
<1>2. r \in 0..LengthLimit /\ r \in Nat /\ ReadBufLen \in Nat
  BY LimitIsNat, BlockingAssumption
<1>3. EncodedLength(r) \in 1..4
  BY DEF EncodedLength
<1>4. SUFFICES ASSUME ~failed'
               PROVE  rc' # MQTTPACKET_READ_ERROR <=> Total(r) <= ReadBufLen
  BY <1>1 DEF ReturnedIsWhole, Total
<1>5. many = EncodedLength(r) /\ ~Unending(r) /\ (asked => body)
  <2> HIDE DEF value, length, asked
  <2>1. ~(many < EncodedLength(r)) /\ ~Unending(r) /\ ~(asked /\ ~body)
    BY ONLY <1>1, <1>4
  <2> QED
    BY ONLY <1>3, <2>1, many \in 0..EncodedLength(r)
<1>6. value = r
  BY <1>2, <1>5, DecodeWhole
<1>7. FitsRead(value, length) <=> Total(r) <= ReadBufLen
  BY <1>2, <1>3, <1>6 DEF FitsRead, Total
<1>8. PUBLISH # MQTTPACKET_READ_ERROR
  BY DEF PUBLISH, MQTTPACKET_READ_ERROR
<1> HIDE DEF value, length, asked
<1> QED
  BY <1>1, <1>5, <1>7, <1>8

(* For every buffer and every length a packet may have: MQTTPacket_read()  *)
(* returns a packet if, and only if, all of it is in the buffer, unless    *)
(* getfn failed underway.                                                  *)
THEOREM BlockingReturnsWhole == BlockingSpec => []ReturnedIsWhole
<1>1. BlockingInit => ReturnedIsWhole
  BY DEF BlockingInit, ReturnedIsWhole
<1>2. ReturnedIsWhole /\ [BlockingNext]_blockingVars => ReturnedIsWhole'
  <2>1. SUFFICES ASSUME ReturnedIsWhole, [BlockingNext]_blockingVars
                 PROVE  ReturnedIsWhole'
    OBVIOUS
  <2>2. CASE ReadCall
    BY <2>2, BlockingReads DEF ReadCall
  <2>3. CASE HeaderFails
    BY <2>3 DEF HeaderFails, ReturnedIsWhole
  <2>4. CASE UNCHANGED blockingVars
    BY <2>1, <2>4 DEF blockingVars, ReturnedIsWhole
  <2> QED
    BY <2>1, <2>2, <2>3, <2>4 DEF BlockingNext
<1> QED
  BY <1>1, <1>2, PTL DEF BlockingSpec

-----------------------------------------------------------------------------
(***************************************************************************)
(* isTopicMatched() says what a filter means, for topics of every length.  *)
(* While the loop runs its two pointers are in the same level of filter    *)
(* and name, all levels before match, and in this one the filter has had   *)
(* no wildcard yet (Literal), or "+" or "#" just before the pointer; that  *)
(* is Paired.  Assumed is that the filters are filters: wildcards only as  *)
(* whole levels, and no terminator inside.                                 *)
(***************************************************************************)
Character == STRING

FiltersAreFilters ==
  \A f \in Filters : WellFormed(f) /\ \A i \in DOMAIN f : f[i] # "0"

TopicTypeOK ==
  /\ filter \in Filters /\ name \in Names
  /\ curf \in 1..Len(filter) + 1 /\ curn \in 1..End
  /\ result \in {"none", "yes", "no"}

\* Level k of s starts at position a and has not ended before position b.
Spans(s, k, a, b) ==
  /\ a \in 1..Len(s) + 1 /\ b \in a..Len(s) + 1
  /\ Depth(s, a) = k /\ (a = 1 \/ s[a - 1] = "/")
  /\ \A j \in a..b - 1 : s[j] # "/"

EndsAt(s, b) == b = Len(s) + 1 \/ s[b] = "/"
IsLevel(s, k, a, b) == Spans(s, k, a, b) /\ EndsAt(s, b)

\* Both pointers are in level d, which starts at a and b: without a wildcard
\* so far, after "+" or after "#".
Literal(d, a, b) ==
  /\ Spans(name, d, b, curn) /\ curf - a = curn - b
  /\ \A j \in a..curf - 1 :
       filter[j] = name[b + (j - a)] /\ filter[j] \notin {"+", "#"}
AfterPlus(d, a, b) ==
  /\ Spans(name, d, b, curn) /\ EndsAt(name, curn) /\ b < curn
  /\ curf = a + 1 /\ filter[a] = "+"
AfterHash(d, a, b) ==
  /\ Spans(name, d, b, b + 1) /\ curn = End
  /\ curf = a + 1 /\ filter[a] = "#" /\ curf = Len(filter) + 1

InLevel(d, a, b) ==
  /\ Spans(filter, d, a, curf)
  /\ \A k \in 0..d - 1 : SameLevel(filter, name, k)
  /\ Literal(d, a, b) \/ AfterPlus(d, a, b) \/ AfterHash(d, a, b)
Paired ==
  \E a \in 1..curf, b \in 1..curn : InLevel(Depth(filter, a), a, b)

TopicInv ==
  /\ TopicTypeOK
  /\ result = "none" => Paired
  /\ MatchIsMeaning

-----------------------------------------------------------------------------
\* How many separators there are before a position.
Before(s, i) == {j \in 1..i - 1 : s[j] = "/"}

LEMMA DepthType ==
  ASSUME NEW s, NEW i \in Nat
  PROVE  /\ IsFiniteSet(Before(s, i))
         /\ Depth(s, i) = Cardinality(Before(s, i)) /\ Depth(s, i) \in Nat
<1>1. IsFiniteSet(1..i - 1)
  BY FS_Interval
<1>2. Before(s, i) \subseteq 1..i - 1
  BY DEF Before
<1>3. IsFiniteSet(Before(s, i))
  BY <1>1, <1>2, FS_Subset
<1> QED
  BY <1>3, FS_CardinalityType DEF Depth, Before

\* No separator, the same level; a separator, a later one.
LEMMA DepthFlat ==
  ASSUME NEW s, NEW i \in Nat, NEW j \in Nat, i <= j,
         \A m \in i..j - 1 : s[m] # "/"
  PROVE  Depth(s, j) = Depth(s, i)
<1>1. Before(s, i) = Before(s, j)
  BY DEF Before
<1> QED
  BY <1>1, DepthType

LEMMA DepthMono ==
  ASSUME NEW s, NEW i \in Nat, NEW j \in Nat, i <= j
  PROVE  Depth(s, i) <= Depth(s, j)
<1>1. Before(s, i) \subseteq Before(s, j)
  BY DEF Before
<1> QED
  BY <1>1, DepthType, FS_Subset

LEMMA DepthNext ==
  ASSUME NEW s, NEW i \in Nat \ {0}, s[i] = "/"
  PROVE  Depth(s, i + 1) = Depth(s, i) + 1
<1>1. Before(s, i + 1) = Before(s, i) \cup {i} /\ i \notin Before(s, i)
  BY DEF Before
<1>2. Cardinality(Before(s, i) \cup {i}) = Cardinality(Before(s, i)) + 1
  BY <1>1, DepthType, FS_AddElement
<1> QED
  BY <1>1, <1>2, DepthType

LEMMA DepthAfter ==
  ASSUME NEW s, NEW i \in Nat \ {0}, NEW j \in Nat, i < j, s[i] = "/"
  PROVE  Depth(s, i) < Depth(s, j)
<1>1. Depth(s, i + 1) = Depth(s, i) + 1 /\ i + 1 \in Nat /\ i + 1 <= j
  BY DepthNext
<1>2. Depth(s, i + 1) <= Depth(s, j)
  BY <1>1, DepthMono
<1> QED
  BY <1>1, <1>2, DepthType

-----------------------------------------------------------------------------
\* t is what lies in s between two positions.
IsPart(t, s, a, b) ==
  /\ t \in Seq(Character) /\ Len(t) = b - a
  /\ \A j \in 1..b - a : t[j] = s[a + j - 1]

\* A level is what lies between its first position and its end.
LEMMA LevelIs ==
  ASSUME NEW s \in Seq(Character), NEW k, NEW a, NEW b,
         IsLevel(s, k, a, b)
  PROVE  IsPart(Level(s, k), s, a, b)
<1> DEFINE Begins(i) == Depth(s, i) = k /\ (i = 1 \/ s[i - 1] = "/")
           Halts(i) == Depth(s, i) = k /\ (i = Len(s) + 1 \/ s[i] = "/")
           P == 1..Len(s) + 1
<1>1. a \in P /\ b \in P /\ a <= b /\ Len(s) \in Nat /\ a \in Nat /\ b \in Nat
  BY DEF IsLevel, Spans
<1>2. Begins(a)
  BY DEF IsLevel, Spans
<1>3. Halts(b)
  BY <1>1, DepthFlat DEF IsLevel, Spans, EndsAt
<1>4. ASSUME NEW i \in P, NEW j \in P, i < j, Begins(i), Begins(j)
      PROVE  FALSE
  <2>1. j - 1 \in Nat \ {0} /\ i \in Nat /\ i <= j - 1 /\ j \in Nat /\ j - 1 < j
    BY <1>4
  <2>2. s[j - 1] = "/"
    BY <1>4
  <2>3. Depth(s, j - 1) < Depth(s, j)
    BY <2>1, <2>2, DepthAfter
  <2>4. Depth(s, i) <= Depth(s, j - 1)
    BY <2>1, DepthMono
  <2> QED
    BY <2>1, <2>3, <2>4, <1>4, DepthType
<1>5. ASSUME NEW i \in P, NEW j \in P, i < j, Halts(i), Halts(j)
      PROVE  FALSE
  <2>1. i \in Nat \ {0} /\ j \in Nat /\ s[i] = "/"
    BY <1>5
  <2>2. Depth(s, i) < Depth(s, j)
    BY <2>1, <1>5, DepthAfter
  <2> QED
    BY <2>1, <2>2, <1>5, DepthType
<1>6. FirstOf(s, k) = a
  <2>1. \A i \in P : Begins(i) => i = a
    BY <1>1, <1>2, <1>4
  <2>2. FirstOf(s, k) = CHOOSE i \in P : Begins(i)
    BY DEF FirstOf
  <2> HIDE DEF Begins, P
  <2> QED
    BY <2>1, <2>2, <1>1, <1>2
<1>7. EndOf(s, k) = b
  <2>1. \A i \in P : Halts(i) => i = b
    BY <1>1, <1>3, <1>5
  <2>2. EndOf(s, k) = CHOOSE i \in P : Halts(i)
    BY DEF EndOf
  <2> HIDE DEF Halts, P
  <2> QED
    BY <2>1, <2>2, <1>1, <1>3
<1>8. Level(s, k) = SubSeq(s, a, b - 1)
  BY <1>6, <1>7 DEF Level
<1>9. b - 1 \in a - 1..Len(s)
  BY <1>1
<1> QED
  BY <1>1, <1>8, <1>9, SubSeqProperties DEF IsPart

\* A set of numbers that is not empty has a smallest one.
LEMMA SmallestMember ==
  ASSUME NEW T, T \subseteq Nat, T # {}
  PROVE  \E x \in T : \A y \in T : x <= y
<1> DEFINE Below == {0..(x - 1) : x \in T}
<1>1. IsWellFoundedOn(StrictSubsetOrdering(Nat), FiniteSubsetsOf(Nat))
  BY FS_StrictSubsetOrderingWellFounded
<1>2. Below \subseteq FiniteSubsetsOf(Nat) /\ Below # {}
  <2>1. \A x \in T : 0..(x - 1) \subseteq Nat /\ IsFiniteSet(0..(x - 1))
    BY FS_Interval
  <2> QED BY <2>1 DEF FiniteSubsetsOf
<1> HIDE DEF Below
<1>3. PICK b \in Below :
        \A d \in Below : ~ (<<d, b>> \in StrictSubsetOrdering(Nat))
  BY <1>1, <1>2, WFMin
<1> USE DEF Below
<1>4. PICK x \in T : b = 0..(x - 1)
  BY <1>3
<1>5. ASSUME NEW y \in T, y < x PROVE FALSE
  <2>1. 0..(y - 1) \in Below
    OBVIOUS
  <2>2. 0..(y - 1) \subseteq b /\ 0..(y - 1) # b /\ b \subseteq Nat
    <3>1. y \in b /\ y \notin 0..(y - 1)
      BY <1>4, <1>5
    <3> QED BY <3>1, <1>4, <1>5
  <2>3. <<0..(y - 1), b>> \in StrictSubsetOrdering(Nat)
    BY <2>2 DEF StrictSubsetOrdering
  <2> QED BY <2>1, <2>3, <1>3
<1> QED BY <1>5, <1>4

\* From any position on there is an end of the level.
LEMMA NextEnd ==
  ASSUME NEW s \in Seq(Character), NEW b \in 1..Len(s) + 1
  PROVE  \E e \in b..Len(s) + 1 :
           EndsAt(s, e) /\ \A j \in b..e - 1 : s[j] # "/"
<1> DEFINE T == {e \in b..Len(s) + 1 : EndsAt(s, e)}
<1>1. Len(s) + 1 \in T /\ T \subseteq Nat
  BY DEF EndsAt
<1>2. PICK e \in T : \A y \in T : e <= y
  BY <1>1, SmallestMember
<1>3. ASSUME NEW j \in b..e - 1, s[j] = "/"
      PROVE  FALSE
  BY <1>2, <1>3 DEF EndsAt
<1> QED
  BY <1>2, <1>3

\* The level that ends with the topic is the last one.
LEMMA WhichIsLast ==
  ASSUME NEW s \in Seq(Character), NEW k, NEW a, NEW e, IsLevel(s, k, a, e)
  PROVE  IF e = Len(s) + 1 THEN k = LastLevel(s) ELSE k < LastLevel(s)
<1>1. /\ e \in Nat \ {0} /\ a \in Nat /\ a <= e /\ Len(s) + 1 \in Nat
      /\ e \in 1..Len(s) + 1 /\ EndsAt(s, e)
  BY DEF IsLevel, Spans
<1>2. Depth(s, e) = k
  BY <1>1, DepthFlat DEF IsLevel, Spans
<1>3. CASE e = Len(s) + 1
  BY <1>2, <1>3 DEF LastLevel
<1>4. CASE e # Len(s) + 1
  <2>1. s[e] = "/" /\ e < Len(s) + 1
    BY <1>1, <1>4 DEF EndsAt
  <2>2. Depth(s, e) < Depth(s, Len(s) + 1)
    BY <2>1, <1>1, DepthAfter
  <2> QED
    BY <2>2, <1>2, <1>4 DEF LastLevel
<1> QED
  BY <1>3, <1>4

\* A level that has begun ends somewhere.
LEMMA LevelGoesOn ==
  ASSUME NEW s \in Seq(Character), NEW k, NEW a, NEW b, Spans(s, k, a, b)
  PROVE  \E e \in b..Len(s) + 1 :
           /\ IsLevel(s, k, a, e)
           /\ IF e = Len(s) + 1 THEN k = LastLevel(s) ELSE k < LastLevel(s)
<1>1. a \in 1..Len(s) + 1 /\ b \in a..Len(s) + 1 /\ Len(s) \in Nat
  BY DEF Spans
<1>2. PICK e \in b..Len(s) + 1 :
        EndsAt(s, e) /\ \A j \in b..e - 1 : s[j] # "/"
  BY <1>1, NextEnd
<1>3. IsLevel(s, k, a, e)
  BY <1>1, <1>2 DEF Spans, IsLevel
<1>4. IF e = Len(s) + 1 THEN k = LastLevel(s) ELSE k < LastLevel(s)
  BY <1>3, WhichIsLast
<1> QED
  BY <1>2, <1>3, <1>4

-----------------------------------------------------------------------------
\* What the meaning of a filter says of one level, of the last one of the
\* name and of the last one of both.
LEMMA LevelsDiffer ==
  ASSUME NEW f, NEW m, NEW d \in Nat, LastLevel(f) \in Nat, d <= LastLevel(f),
         Level(f, d) # Level(m, d),
         Level(f, d) = <<"+">> => Level(m, d) = <<>>,
         Level(f, d) = <<"#">> => Level(m, d) = <<>>
  PROVE  ~Matches(f, m)
<1>1. ~SameLevel(f, m, d)
  BY DEF SameLevel
<1>2. CASE d = LastLevel(f)
  BY <1>1, <1>2 DEF Matches
<1>3. CASE d # LastLevel(f)
  <2>1. d \in 0..LastLevel(f) - 1
    BY <1>3
  <2> QED
    BY <1>1, <2>1 DEF Matches
<1> QED
  BY <1>2, <1>3

LEMMA NameEnds ==
  ASSUME NEW f, NEW m, LastLevel(f) \in Nat, LastLevel(m) \in Nat,
         \/ LastLevel(m) < LastLevel(f)
         \/ LastLevel(f) < LastLevel(m) /\ Level(f, LastLevel(f)) # <<"#">>
  PROVE  ~Matches(f, m)
BY DEF Matches

LEMMA BothEnd ==
  ASSUME NEW f, NEW m, NEW d \in Nat, LastLevel(f) = d,
         \A k \in 0..d - 1 : SameLevel(f, m, k),
         IF Level(f, d) = <<"#">>
           THEN LastLevel(m) >= d /\ Level(m, d) # <<>>
           ELSE LastLevel(m) = d /\ SameLevel(f, m, d)
  PROVE  Matches(f, m)
BY DEF Matches

\* A sequence of one or of no character, by its length.
LEMMA ShortSequences ==
  ASSUME NEW s \in Seq(Character)
  PROVE  /\ s = <<>> <=> Len(s) = 0
         /\ \A c : s = <<c>> <=> (Len(s) = 1 /\ s[1] = c)
<1>1. s = <<>> <=> Len(s) = 0
  BY EmptySeq
<1>2. ASSUME NEW c, Len(s) = 1, s[1] = c
      PROVE  s = <<c>>
  <2>1. PICK t : t = <<c>>
    OBVIOUS
  <2>2. c \in Character
    BY <1>2
  <2>3. t \in Seq(Character) /\ Len(t) = 1 /\ t[1] = c
    BY <2>1, <2>2
  <2>4. s = t
    BY <2>3, <1>2, SeqEqual
  <2> QED
    BY <2>1, <2>4
<1>3. ASSUME NEW c, s = <<c>>
      PROVE  Len(s) = 1 /\ s[1] = c
  BY <1>3
<1> QED
  BY <1>1, <1>2, <1>3

LEMMA TopicTypes ==
  ASSUME TopicTypeOK, FiltersAreFilters
  PROVE  /\ filter \in Seq(Character) /\ name \in Seq(Character)
         /\ Len(filter) \in Nat /\ Len(name) \in Nat
         /\ WellFormed(filter)
         /\ AtF = "0" <=> curf = Len(filter) + 1
         /\ curf <= Len(filter) => AtF = filter[curf]
<1>1. filter \in Seq(Character) /\ name \in Seq(Character)
  BY TopicAssumption DEF TopicTypeOK, Character
<1>2. Len(filter) \in Nat /\ Len(name) \in Nat
  BY <1>1
<1>3. \A i \in 1..Len(filter) : filter[i] # "0"
  BY <1>1 DEF FiltersAreFilters, TopicTypeOK
<1>4. curf \in 1..Len(filter) + 1
  BY DEF TopicTypeOK
<1>5. WellFormed(filter)
  BY DEF FiltersAreFilters, TopicTypeOK
<1>6. AtF = "0" <=> curf = Len(filter) + 1
  BY <1>2, <1>3, <1>4 DEF AtF
<1>7. curf <= Len(filter) => AtF = filter[curf]
  BY <1>2, <1>4 DEF AtF
<1> QED
  BY <1>1, <1>2, <1>5, <1>6, <1>7

\* A level of both that ends at the pointers is matched, and is not "#".
LEMMA EndedLevel ==
  ASSUME TopicTypeOK, FiltersAreFilters,
         NEW d \in Nat, NEW a \in Nat, NEW b \in Nat,
         IsLevel(filter, d, a, curf), IsLevel(name, d, b, curn),
         Literal(d, a, b) \/ AfterPlus(d, a, b)
  PROVE  SameLevel(filter, name, d) /\ Level(filter, d) # <<"#">>
<1> DEFINE F == Level(filter, d)
           N == Level(name, d)
<1>1. filter \in Seq(Character) /\ name \in Seq(Character)
  BY TopicTypes
<1>2. IsPart(F, filter, a, curf) /\ IsPart(N, name, b, curn)
  BY <1>1, LevelIs
<1>3. /\ a \in 1..curf /\ b \in 1..curn
      /\ curf \in Nat /\ curn \in Nat
  BY <1>1 DEF IsLevel, Spans
<1>4. ASSUME Level(filter, d) = Level(name, d)
      PROVE  SameLevel(filter, name, d)
  BY <1>4 DEF SameLevel
<1>5. ASSUME Level(filter, d) = <<"+">>, Level(name, d) # <<>>
      PROVE  SameLevel(filter, name, d)
  BY <1>5 DEF SameLevel
<1> HIDE DEF F, N
<1>6. /\ F \in Seq(Character) /\ Len(F) = curf - a
      /\ \A j \in 1..curf - a : F[j] = filter[a + j - 1]
  BY <1>2 DEF IsPart
<1>7. /\ N \in Seq(Character) /\ Len(N) = curn - b
      /\ \A j \in 1..curn - b : N[j] = name[b + j - 1]
  BY <1>2 DEF IsPart
<1>8. CASE Literal(d, a, b)
  <2>1. /\ curf - a = curn - b
        /\ \A j \in a..curf - 1 :
             filter[j] = name[b + (j - a)] /\ filter[j] \notin {"+", "#"}
    BY <1>8 DEF Literal
  <2>2. \A j \in 1..curf - a : F[j] = N[j]
    <3> TAKE j \in 1..curf - a
    <3>1. /\ F[j] = filter[a + j - 1] /\ a + j - 1 \in a..curf - 1
          /\ j \in 1..curn - b
      BY <1>3, <1>6, <2>1
    <3>2. N[j] = name[b + j - 1] /\ b + ((a + j - 1) - a) = b + j - 1
      BY <1>3, <1>7, <3>1
    <3> QED
      BY <3>1, <3>2, <2>1
  <2>3. F = N
    BY <2>1, <2>2, <1>6, <1>7, SeqEqual
  <2>4. F # <<"#">>
    <3>1. SUFFICES ASSUME F = <<"#">> PROVE FALSE
      OBVIOUS
    <3>2. Len(F) = 1 /\ F[1] = "#"
      BY <1>6, <3>1, ShortSequences
    <3>3. curf - a = 1
      BY <1>6, <3>2
    <3>4. 1 \in 1..curf - a /\ a \in a..curf - 1 /\ a + 1 - 1 = a
      BY <1>3, <3>3
    <3>5. F[1] = filter[a]
      BY <1>6, <3>4
    <3> QED
      BY <3>2, <3>4, <3>5, <2>1
  <2> QED
    BY <2>3, <2>4, <1>4 DEF F, N
<1>9. CASE AfterPlus(d, a, b)
  <2>1. curf = a + 1 /\ filter[a] = "+" /\ b < curn
    BY <1>9 DEF AfterPlus
  <2>2. curf - a = 1 /\ 1 \in 1..curf - a /\ a + 1 - 1 = a
    BY <1>3, <2>1
  <2>3. Len(F) = 1 /\ F[1] = "+"
    BY <1>6, <2>1, <2>2
  <2>4. F = <<"+">>
    BY <1>6, <2>3, ShortSequences
  <2>5. F # <<"#">>
    BY <1>6, <2>3, ShortSequences
  <2>6. curn - b > 0
    BY <1>3, <2>1
  <2>7. N # <<>>
    BY <1>7, <2>6, ShortSequences
  <2> QED
    BY <2>4, <2>5, <2>7, <1>5 DEF F, N
<1> QED
  BY <1>8, <1>9

\* The loop stops where such a level ends only with one of the topics.
LEMMA StopsAtEnd ==
  ASSUME TopicTypeOK, FiltersAreFilters, LoopRuns => Mismatch,
         result = "none",
         NEW d \in Nat, NEW a \in Nat, NEW b \in Nat,
         IsLevel(filter, d, a, curf), IsLevel(name, d, b, curn),
         Literal(d, a, b) \/ AfterPlus(d, a, b),
         \A k \in 0..d - 1 : SameLevel(filter, name, k)
  PROVE  (curn = End /\ AtF = "0") <=> Matches(filter, name)
<1>1. /\ filter \in Seq(Character) /\ name \in Seq(Character)
      /\ Len(filter) \in Nat /\ Len(name) \in Nat
      /\ AtF = "0" <=> curf = Len(filter) + 1
      /\ curf <= Len(filter) => AtF = filter[curf]
      /\ curf \in 1..Len(filter) + 1 /\ curn \in 1..Len(name) + 1
      /\ End = Len(name) + 1
  BY TopicTypes DEF TopicTypeOK, End
<1>2. SameLevel(filter, name, d) /\ Level(filter, d) # <<"#">>
  BY EndedLevel
<1>3. IF curf = Len(filter) + 1 THEN d = LastLevel(filter)
                                ELSE d < LastLevel(filter)
  BY <1>1, WhichIsLast
<1>4. IF curn = Len(name) + 1 THEN d = LastLevel(name)
                              ELSE d < LastLevel(name)
  BY <1>1, WhichIsLast
<1>5. LastLevel(filter) \in Nat /\ LastLevel(name) \in Nat
  <2>1. Len(filter) + 1 \in Nat /\ Len(name) + 1 \in Nat
    BY <1>1
  <2> QED
    BY <2>1, DepthType DEF LastLevel
<1>6. CASE curf = Len(filter) + 1 /\ curn = Len(name) + 1
  <2>1. Matches(filter, name)
    BY <1>2, <1>3, <1>4, <1>6, BothEnd
  <2> QED
    BY <2>1, <1>6, <1>1
<1>7. CASE curf = Len(filter) + 1 /\ curn # Len(name) + 1
  <2>1. LastLevel(filter) = d /\ d < LastLevel(name)
    BY <1>3, <1>4, <1>7
  <2>2. ~Matches(filter, name)
    BY <2>1, <1>2, <1>5, NameEnds
  <2> QED
    BY <2>2, <1>7, <1>1
<1>8. CASE curf # Len(filter) + 1 /\ curn = Len(name) + 1
  <2>1. LastLevel(name) = d /\ d < LastLevel(filter)
    BY <1>3, <1>4, <1>8
  <2>2. ~Matches(filter, name)
    BY <2>1, <1>5, NameEnds
  <2> QED
    BY <2>2, <1>8, <1>1
<1>9. CASE curf # Len(filter) + 1 /\ curn # Len(name) + 1
  <2>1. filter[curf] = "/" /\ name[curn] = "/"
    BY <1>9 DEF IsLevel, EndsAt
  <2>2. AtF = "/" /\ AtN = "/"
    BY <2>1, <1>9, <1>1 DEF AtN
  <2>3. LoopRuns /\ ~Mismatch
    BY <2>2, <1>9, <1>1 DEF LoopRuns, Mismatch, End
  <2> QED
    BY <2>3
<1> QED
  BY <1>6, <1>7, <1>8, <1>9

\* After a wildcard the level ends.
LEMMA WildcardEnds ==
  ASSUME TopicTypeOK, FiltersAreFilters, NEW a \in Nat, a \in 1..Len(filter),
         filter[a] \in {"+", "#"}
  PROVE  /\ a = 1 \/ filter[a - 1] = "/"
         /\ EndsAt(filter, a + 1)
         /\ filter[a] = "#" => a = Len(filter)
<1>1. WellFormed(filter) /\ DOMAIN filter = 1..Len(filter)
  BY TopicTypes
<1> QED
  BY <1>1 DEF WellFormed, EndsAt

\* Where the loop stops in a level without a wildcard so far, it says what
\* the filter means.
LEMMA LiteralStops ==
  ASSUME TopicTypeOK, FiltersAreFilters, LoopRuns => Mismatch,
         result = "none",
         NEW d \in Nat, NEW a \in Nat, NEW b \in Nat,
         Spans(filter, d, a, curf), Literal(d, a, b),
         \A k \in 0..d - 1 : SameLevel(filter, name, k)
  PROVE  (curn = End /\ AtF = "0") <=> Matches(filter, name)
<1>1. /\ filter \in Seq(Character) /\ name \in Seq(Character)
      /\ Len(filter) \in Nat /\ Len(name) \in Nat
      /\ AtF = "0" <=> curf = Len(filter) + 1
      /\ curf <= Len(filter) => AtF = filter[curf]
      /\ curf \in 1..Len(filter) + 1 /\ curn \in 1..Len(name) + 1
      /\ End = Len(name) + 1
  BY TopicTypes DEF TopicTypeOK, End
<1>2. /\ Spans(name, d, b, curn) /\ curf - a = curn - b
      /\ a \in 1..curf /\ b \in 1..curn
  BY DEF Literal, Spans
<1>3. \A j \in a..curf - 1 :
        filter[j] = name[b + (j - a)] /\ filter[j] \notin {"+", "#"}
  BY DEF Literal
<1>4. PICK e \in curf..Len(filter) + 1 :
        /\ IsLevel(filter, d, a, e)
        /\ IF e = Len(filter) + 1 THEN d = LastLevel(filter)
                                  ELSE d < LastLevel(filter)
  BY <1>1, LevelGoesOn
<1>5. PICK g \in curn..Len(name) + 1 :
        /\ IsLevel(name, d, b, g)
        /\ IF g = Len(name) + 1 THEN d = LastLevel(name)
                                ELSE d < LastLevel(name)
  BY <1>1, <1>2, LevelGoesOn
<1> DEFINE F == Level(filter, d)
           N == Level(name, d)
<1>6. /\ F \in Seq(Character) /\ Len(F) = e - a
      /\ \A j \in 1..e - a : F[j] = filter[a + j - 1]
  <2>1. IsLevel(filter, d, a, e) /\ filter \in Seq(Character)
    BY <1>1, <1>4
  <2>2. IsPart(F, filter, a, e)
    BY <2>1, LevelIs
  <2> QED
    BY <2>2 DEF IsPart
<1>7. /\ N \in Seq(Character) /\ Len(N) = g - b
      /\ \A j \in 1..g - b : N[j] = name[b + j - 1]
  <2>1. IsLevel(name, d, b, g) /\ name \in Seq(Character)
    BY <1>1, <1>5
  <2>2. IsPart(N, name, b, g)
    BY <2>1, LevelIs
  <2> QED
    BY <2>2 DEF IsPart
<1>8. LastLevel(filter) \in Nat /\ LastLevel(name) \in Nat
  <2>1. Len(filter) + 1 \in Nat /\ Len(name) + 1 \in Nat
    BY <1>1
  <2> QED
    BY <2>1, DepthType DEF LastLevel
<1> DEFINE Plus == F = <<"+">>
           Hash == F = <<"#">>
<1> HIDE DEF F, N
<1>9. ASSUME Plus \/ Hash, curf > a
      PROVE  FALSE
  <2>1. Len(F) = 1 /\ F[1] \in {"+", "#"}
    BY <1>6, <1>9, ShortSequences
  <2>2. e - a = 1
    BY <1>6, <2>1
  <2>3. 1 \in 1..e - a /\ a + 1 - 1 = a
    BY <2>2
  <2>4. F[1] = filter[a]
    BY <1>6, <2>3
  <2>5. a \in a..curf - 1
    BY <1>1, <1>2, <1>9
  <2> QED
    BY <2>1, <2>4, <2>5, <1>3
<1> HIDE DEF Plus, Hash
<1>10. ASSUME N # F, (Plus \/ Hash) /\ curf = a => N = <<>>
       PROVE  ~Matches(filter, name)
  <2>1. d <= LastLevel(filter)
    BY <1>1, <1>4, <1>8
  <2>2. Plus \/ Hash => N = <<>>
    BY <1>1, <1>2, <1>9, <1>10
  <2>3. F = <<"+">> => N = <<>>
    BY <2>2 DEF Plus
  <2>4. F = <<"#">> => N = <<>>
    BY <2>2 DEF Hash
  <2> QED
    BY <1>8, <1>10, <2>1, <2>3, <2>4, LevelsDiffer DEF F, N
<1>11. CASE curf = e /\ curn = g
  <2>1. IsLevel(filter, d, a, curf) /\ IsLevel(name, d, b, curn)
    BY <1>4, <1>5, <1>11
  <2> QED
    BY <2>1, StopsAtEnd
<1>12. CASE curf = e /\ curn < g
  <2>1. Len(F) # Len(N)
    BY <1>1, <1>2, <1>6, <1>7, <1>12
  <2>2. Plus \/ Hash => Len(F) = 1
    BY <1>6, ShortSequences DEF Plus, Hash
  <2>3. ~(curf = a /\ Len(F) = 1)
    BY <1>6, <1>12, <1>2, <1>1
  <2>4. ~Matches(filter, name)
    BY <2>1, <2>2, <2>3, <1>10
  <2>5. curn # Len(name) + 1
    BY <1>12, <1>1
  <2> QED
    BY <2>4, <2>5, <1>1
<1>13. CASE curf < e /\ curn = g
  <2>1. Len(F) # Len(N)
    BY <1>1, <1>2, <1>6, <1>7, <1>13
  <2>2. curf = a => N = <<>>
    BY <1>7, <1>13, <1>2, ShortSequences
  <2>3. ~Matches(filter, name)
    BY <2>1, <2>2, <1>10
  <2>4. curf # Len(filter) + 1
    BY <1>13, <1>1
  <2> QED
    BY <2>3, <2>4, <1>1
<1>14. CASE curf < e /\ curn < g
  <2>1. curf <= Len(filter) /\ curn <= Len(name)
    BY <1>14, <1>1
  <2>2. filter[curf] # "/" /\ name[curn] # "/"
    BY <1>2, <1>4, <1>5, <1>14 DEF IsLevel, Spans
  <2>3. LoopRuns
    BY <2>1, <1>1 DEF LoopRuns, End
  <2>4. filter[curf] \notin {"+", "#"} /\ filter[curf] # name[curn]
    BY <2>1, <2>2, <2>3, <1>1 DEF Mismatch, AtN
  <2> DEFINE p == curf - a + 1
  <2>5. /\ p \in 1..e - a /\ F[p] = filter[curf]
        /\ p \in 1..g - b /\ N[p] = name[curn]
    <3>1. /\ p \in 1..e - a /\ p \in 1..g - b
          /\ a + p - 1 = curf /\ b + p - 1 = curn
      BY <1>1, <1>2, <1>14
    <3> HIDE DEF p
    <3> QED
      BY <3>1, <1>6, <1>7
  <2>6. N # F
    BY <2>4, <2>5
  <2>7. ASSUME Plus \/ Hash, curf = a
        PROVE  FALSE
    <3>1. F[1] \in {"+", "#"}
      BY <2>7, <1>6, ShortSequences DEF Plus, Hash
    <3>2. p = 1
      BY <2>7, <1>2
    <3> QED
      BY <3>1, <3>2, <2>4, <2>5
  <2>8. ~Matches(filter, name)
    BY <2>6, <2>7, <1>10
  <2> QED
    BY <2>8, <2>1, <1>1
<1> QED
  <2>1. (curf = e \/ curf < e) /\ (curn = g \/ curn < g)
    BY <1>1, <1>4, <1>5
  <2> QED
    BY <2>1, <1>11, <1>12, <1>13, <1>14

LEMMA PlusStops ==
  ASSUME TopicTypeOK, FiltersAreFilters, LoopRuns => Mismatch,
         result = "none",
         NEW d \in Nat, NEW a \in Nat, NEW b \in Nat,
         Spans(filter, d, a, curf), AfterPlus(d, a, b),
         \A k \in 0..d - 1 : SameLevel(filter, name, k)
  PROVE  (curn = End /\ AtF = "0") <=> Matches(filter, name)
<1>1. IsLevel(filter, d, a, curf)
  <2>1. curf = a + 1 /\ filter[a] = "+"
    BY DEF AfterPlus
  <2>2. a \in 1..Len(filter)
    BY <2>1 DEF Spans
  <2>3. EndsAt(filter, curf)
    BY <2>1, <2>2, WildcardEnds
  <2> QED
    BY <2>3 DEF IsLevel
<1>2. IsLevel(name, d, b, curn)
  BY DEF AfterPlus, IsLevel
<1> QED
  BY <1>1, <1>2, StopsAtEnd

\* After "#" the filter is at its end, and means this name.
LEMMA HashStops ==
  ASSUME TopicTypeOK, FiltersAreFilters, result = "none",
         NEW d \in Nat, NEW a \in Nat, NEW b \in Nat,
         Spans(filter, d, a, curf), AfterHash(d, a, b),
         \A k \in 0..d - 1 : SameLevel(filter, name, k)
  PROVE  (curn = End /\ AtF = "0") <=> Matches(filter, name)
<1>1. /\ filter \in Seq(Character) /\ name \in Seq(Character)
      /\ Len(filter) \in Nat /\ Len(name) \in Nat
      /\ AtF = "0" <=> curf = Len(filter) + 1
  BY TopicTypes
<1>2. /\ Spans(name, d, b, b + 1) /\ curn = End /\ curf = a + 1
      /\ filter[a] = "#" /\ curf = Len(filter) + 1
  BY DEF AfterHash
<1>3. IsLevel(filter, d, a, curf)
  BY <1>2 DEF IsLevel, EndsAt
<1>4. LastLevel(filter) = d
  BY <1>1, <1>2, <1>3, WhichIsLast
<1>5. PICK g \in b + 1..Len(name) + 1 :
        /\ IsLevel(name, d, b, g)
        /\ IF g = Len(name) + 1 THEN d = LastLevel(name)
                                ELSE d < LastLevel(name)
  BY <1>1, <1>2, LevelGoesOn
<1> DEFINE F == Level(filter, d)
           N == Level(name, d)
<1>6. IsPart(F, filter, a, curf) /\ IsPart(N, name, b, g)
  BY <1>1, <1>3, <1>5, LevelIs
<1>7. ASSUME F = <<"#">>, N # <<>>
      PROVE  Matches(filter, name)
  <2>1. LastLevel(name) >= d
    <3>1. LastLevel(name) \in Nat
      BY <1>1, DepthType DEF LastLevel
    <3> QED
      BY <3>1, <1>5
  <2> QED
    BY <2>1, <1>4, <1>7, BothEnd
<1> HIDE DEF F, N
<1>8. F = <<"#">>
  <2>1. F \in Seq(Character) /\ Len(F) = curf - a
    BY <1>6 DEF IsPart
  <2>2. curf - a = 1
    BY <1>2
  <2>3. F[1] = filter[a]
    <3>1. 1 \in 1..curf - a /\ a + 1 - 1 = a
      BY <2>2
    <3> QED
      BY <3>1, <1>6 DEF IsPart
  <2> QED
    BY <2>1, <2>2, <2>3, <1>2, ShortSequences
<1>9. N # <<>>
  <2>1. N \in Seq(Character) /\ Len(N) = g - b
    BY <1>6 DEF IsPart
  <2>2. g - b > 0
    BY <1>1, <1>5
  <2> QED
    BY <2>1, <2>2, ShortSequences
<1> QED
  BY <1>1, <1>2, <1>7, <1>8, <1>9

LEMMA LeaveIsRight ==
  ASSUME TopicInv, FiltersAreFilters, Leave
  PROVE  TopicInv'
<1>1. /\ TopicTypeOK /\ result = "none" /\ (LoopRuns => Mismatch)
      /\ Paired
  BY DEF TopicInv, Leave
<1>2. PICK a \in 1..curf, b \in 1..curn : InLevel(Depth(filter, a), a, b)
  BY <1>1 DEF Paired
<1>3. a \in Nat /\ b \in Nat /\ Depth(filter, a) \in Nat
  <2>1. a \in Nat /\ b \in Nat
    BY <1>1 DEF TopicTypeOK
  <2> QED
    BY <2>1, DepthType
<1> DEFINE d == Depth(filter, a)
<1>4. /\ Spans(filter, d, a, curf)
      /\ \A k \in 0..d - 1 : SameLevel(filter, name, k)
      /\ Literal(d, a, b) \/ AfterPlus(d, a, b) \/ AfterHash(d, a, b)
  BY <1>2 DEF InLevel
<1> HIDE DEF d
<1>5. d \in Nat
  BY <1>3 DEF d
<1>6. (curn = End /\ AtF = "0") <=> Matches(filter, name)
  BY <1>1, <1>3, <1>4, <1>5, LiteralStops, PlusStops, HashStops
<1>7. /\ result' = IF curn = End /\ AtF = "0" THEN "yes" ELSE "no"
      /\ UNCHANGED <<filter, name, curf, curn>>
  BY DEF Leave
<1>8. TopicTypeOK'
  BY <1>1, <1>7 DEF TopicTypeOK, End
<1>9. result' # "none" /\ MatchIsMeaning'
  BY <1>6, <1>7 DEF MatchIsMeaning
<1> QED
  BY <1>8, <1>9 DEF TopicInv


\* Where the loop goes on: the pointers are in the same level, ...
LEMMA GoesOnInLevel ==
  ASSUME TopicTypeOK, FiltersAreFilters, Advance, AtF # "/",
         NEW d \in Nat, NEW a \in Nat, NEW b \in Nat,
         Spans(filter, d, a, curf),
         Literal(d, a, b) \/ AfterPlus(d, a, b) \/ AfterHash(d, a, b)
  PROVE  /\ Spans(filter, d, a, curf')
         /\ (Literal(d, a, b) \/ AfterPlus(d, a, b) \/ AfterHash(d, a, b))'
         /\ curf' \in 1..Len(filter) + 1 /\ curn' \in 1..End
<1>1. /\ filter \in Seq(Character) /\ name \in Seq(Character)
      /\ Len(filter) \in Nat /\ Len(name) \in Nat
      /\ AtF = "0" <=> curf = Len(filter) + 1
      /\ curf <= Len(filter) => AtF = filter[curf]
      /\ curf \in 1..Len(filter) + 1 /\ curn \in 1..Len(name) + 1
      /\ End = Len(name) + 1
  BY TopicTypes DEF TopicTypeOK, End
<1>2. /\ curf \in 1..Len(filter) /\ curn \in 1..Len(name)
      /\ AtF = filter[curf] /\ AtN = name[curn]
      /\ ~Mismatch
  BY <1>1 DEF Advance, LoopRuns, AtN
<1>3. /\ curf' = curf + 1 /\ filter' = filter /\ name' = name
      /\ curn' = 1 + (CASE AtF = "+" -> LevelEnd(curn)
                        [] AtF = "#" -> End - 1
                        [] OTHER -> curn)
      /\ End' = End
  BY DEF Advance, SkipPlus, End
<1>4. name[curn] # "/" /\ filter[curf] # "/"
  BY <1>2 DEF Mismatch
<1>5. Literal(d, a, b)
  <2>1. ~AfterHash(d, a, b)
    BY <1>2, <1>1 DEF AfterHash
  <2>2. ~AfterPlus(d, a, b)
    BY <1>2, <1>4, <1>1 DEF AfterPlus, EndsAt
  <2> QED
    BY <2>1, <2>2
<1>6. /\ Spans(name, d, b, curn) /\ curf - a = curn - b
      /\ \A j \in a..curf - 1 :
           filter[j] = name[b + (j - a)] /\ filter[j] \notin {"+", "#"}
      /\ a \in 1..curf /\ b \in 1..curn
  BY <1>5 DEF Literal, Spans
<1>7. Spans(filter, d, a, curf + 1) /\ Spans(name, d, b, curn + 1)
  BY <1>1, <1>2, <1>4, <1>6 DEF Spans
<1>8. ASSUME filter[curf] \in {"+", "#"}
      PROVE  a = curf /\ b = curn
  <2>1. curf = 1 \/ filter[curf - 1] = "/"
    BY <1>1, <1>2, <1>8, WildcardEnds
  <2>2. ~(a < curf)
    BY <1>1, <1>6, <2>1 DEF Spans
  <2> QED
    BY <1>1, <1>6, <2>2
<1>9. curf' \in 1..Len(filter) + 1 /\ Spans(filter, d, a, curf')
  BY <1>1, <1>2, <1>3, <1>7
<1>10. CASE filter[curf] = "+"
  <2>1. PICK g \in curn..Len(name) + 1 :
          EndsAt(name, g) /\ \A j \in curn..g - 1 : name[j] # "/"
    BY <1>1, NextEnd
  <2>2. g > curn
    BY <2>1, <1>1, <1>2, <1>4 DEF EndsAt
  <2> DEFINE IsEnd(k) == /\ k = Len(name) \/ name[k + 1] = "/"
                         /\ \A j \in curn + 1..k : name[j] # "/"
  <2>3. g - 1 \in curn..Len(name) /\ IsEnd(g - 1)
    BY <2>1, <2>2, <1>1 DEF EndsAt
  <2>4. LevelEnd(curn) = CHOOSE k \in curn..Len(name) : IsEnd(k)
    BY DEF LevelEnd
  <2> HIDE DEF IsEnd
  <2>5. LevelEnd(curn) \in curn..Len(name) /\ IsEnd(LevelEnd(curn))
    BY <2>3, <2>4
  <2>6. curn' = LevelEnd(curn) + 1
    BY <1>1, <1>2, <1>3, <1>10, <2>5
  <2>7. a = curf /\ b = curn
    BY <1>8, <1>10
  <2>8. EndsAt(name, curn')
    BY <2>5, <2>6, <1>1 DEF IsEnd, EndsAt
  <2>9. \A j \in curn..curn' - 1 : name[j] # "/"
    BY <2>5, <2>6, <1>1, <1>4 DEF IsEnd
  <2>10. curn' \in curn + 1..Len(name) + 1
    BY <2>5, <2>6, <1>1
  <2>11. Spans(name, d, b, curn')
    <3>1. /\ b \in 1..Len(name) + 1 /\ Depth(name, b) = d
          /\ b = 1 \/ name[b - 1] = "/"
      BY <1>6 DEF Spans
    <3>2. curn' \in b..Len(name) + 1
      BY <2>7, <2>10, <1>1
    <3>3. \A j \in b..curn' - 1 : name[j] # "/"
      BY <2>7, <2>9
    <3> QED
      BY <3>1, <3>2, <3>3 DEF Spans
  <2>12. AfterPlus(d, a, b)'
    BY <2>7, <2>8, <2>10, <2>11, <1>1, <1>3, <1>10
       DEF AfterPlus, Spans, EndsAt, Depth
  <2>13. curn' \in 1..End
    BY <2>10, <1>1
  <2> QED
    BY <2>12, <2>13, <1>9
<1>11. CASE filter[curf] = "#"
  <2>1. a = curf /\ b = curn /\ curf = Len(filter)
    BY <1>1, <1>2, <1>8, <1>11, WildcardEnds
  <2>2. curn' = End
    BY <1>1, <1>2, <1>3, <1>11
  <2>3. AfterHash(d, a, b)'
    BY <2>1, <2>2, <1>1, <1>3, <1>7, <1>11
       DEF AfterHash, Spans, Depth
  <2>4. curn' \in 1..End
    BY <2>2, <1>1
  <2> QED
    BY <2>3, <2>4, <1>9
<1>12. CASE filter[curf] \notin {"+", "#"}
  <2>1. curn' = curn + 1
    BY <1>1, <1>2, <1>3, <1>12
  <2>2. filter[curf] = name[curn]
    BY <1>2, <1>12 DEF Mismatch
  <2>3. \A j \in a..curf :
          filter[j] = name[b + (j - a)] /\ filter[j] \notin {"+", "#"}
    <3> TAKE j \in a..curf
    <3>1. CASE j = curf
      <4>1. b + (j - a) = curn
        BY <3>1, <1>1, <1>6
      <4> QED
        BY <3>1, <4>1, <2>2, <1>12
    <3>2. CASE j # curf
      <4>1. j \in a..curf - 1
        BY <3>2, <1>1
      <4> QED
        BY <4>1, <1>6
    <3> QED
      BY <3>1, <3>2
  <2>4. curf' - a = curn' - b /\ curf' - 1 = curf
    BY <2>1, <1>1, <1>3, <1>6
  <2>5. Literal(d, a, b)'
    BY <2>1, <2>3, <2>4, <1>1, <1>3, <1>7 DEF Literal, Spans, Depth
  <2>6. curn' \in 1..End
    BY <2>1, <1>1, <1>2
  <2> QED
    BY <2>5, <2>6, <1>9
<1> QED
  BY <1>10, <1>11, <1>12


\* ... or at the start of the next one, and the last one matched.
LEMMA GoesToNextLevel ==
  ASSUME TopicTypeOK, FiltersAreFilters, Advance, AtF = "/",
         NEW d \in Nat, NEW a \in Nat, NEW b \in Nat,
         Spans(filter, d, a, curf),
         Literal(d, a, b) \/ AfterPlus(d, a, b) \/ AfterHash(d, a, b)
  PROVE  /\ SameLevel(filter, name, d)
         /\ Spans(filter, d + 1, curf + 1, curf + 1)
         /\ Spans(name, d + 1, curn + 1, curn + 1)
         /\ curf' = curf + 1 /\ curn' = curn + 1
         /\ curf' \in 1..Len(filter) + 1 /\ curn' \in 1..End
<1>1. /\ filter \in Seq(Character) /\ name \in Seq(Character)
      /\ Len(filter) \in Nat /\ Len(name) \in Nat
      /\ AtF = "0" <=> curf = Len(filter) + 1
      /\ curf <= Len(filter) => AtF = filter[curf]
      /\ curf \in 1..Len(filter) + 1 /\ curn \in 1..Len(name) + 1
      /\ End = Len(name) + 1
  BY TopicTypes DEF TopicTypeOK, End
<1>2. /\ curf \in 1..Len(filter) /\ curn \in 1..Len(name)
      /\ AtF = filter[curf] /\ AtN = name[curn]
      /\ ~Mismatch
  BY <1>1 DEF Advance, LoopRuns, AtN
<1>3. filter[curf] = "/" /\ name[curn] = "/"
  BY <1>2 DEF Mismatch
<1>4. curf' = curf + 1 /\ curn' = curn + 1
  <2>1. AtF # "+" /\ AtF # "#"
    OBVIOUS
  <2> QED
    BY <2>1, <1>1 DEF Advance
<1>5. Literal(d, a, b) \/ AfterPlus(d, a, b)
  BY <1>1, <1>2 DEF AfterHash
<1>6. Spans(name, d, b, curn)
  BY <1>5 DEF Literal, AfterPlus
<1>7. IsLevel(filter, d, a, curf) /\ IsLevel(name, d, b, curn)
  BY <1>3, <1>6 DEF IsLevel, EndsAt
<1>8. SameLevel(filter, name, d)
  BY <1>5, <1>7, EndedLevel
<1>9. ASSUME NEW s \in Seq(Character), NEW e \in 1..Len(s), NEW c,
             Spans(s, d, c, e), s[e] = "/"
      PROVE  Spans(s, d + 1, e + 1, e + 1)
  <2>1. c \in Nat /\ e \in Nat \ {0} /\ c <= e /\ Len(s) \in Nat
    BY <1>9 DEF Spans
  <2>2. Depth(s, e) = d
    BY <2>1, <1>9, DepthFlat DEF Spans
  <2>3. Depth(s, e + 1) = d + 1
    BY <2>1, <2>2, <1>9, DepthNext
  <2> QED
    BY <2>1, <2>3, <1>9 DEF Spans
<1> QED
  BY <1>1, <1>2, <1>3, <1>4, <1>6, <1>8, <1>9

LEMMA AdvanceIsRight ==
  ASSUME TopicInv, FiltersAreFilters, Advance
  PROVE  TopicInv'
<1>1. TopicTypeOK /\ result = "none" /\ Paired
  BY DEF TopicInv, Advance, LoopRuns
<1>2. PICK a \in 1..curf, b \in 1..curn : InLevel(Depth(filter, a), a, b)
  BY <1>1 DEF Paired
<1>3. a \in Nat /\ b \in Nat
  BY <1>1 DEF TopicTypeOK
<1>4. PICK d \in Nat : d = Depth(filter, a)
  BY <1>3, DepthType
<1>5. /\ Spans(filter, d, a, curf)
      /\ \A k \in 0..d - 1 : SameLevel(filter, name, k)
      /\ Literal(d, a, b) \/ AfterPlus(d, a, b) \/ AfterHash(d, a, b)
  BY <1>2, <1>4 DEF InLevel
<1>6. filter' = filter /\ name' = name /\ result' = result /\ End' = End
  BY DEF Advance, End
<1>7. Paired' /\ curf' \in 1..Len(filter) + 1 /\ curn' \in 1..End
  <2>1. CASE AtF # "/"
    <3>1. /\ Spans(filter, d, a, curf')
          /\ (Literal(d, a, b) \/ AfterPlus(d, a, b) \/ AfterHash(d, a, b))'
          /\ curf' \in 1..Len(filter) + 1 /\ curn' \in 1..End
      BY <1>1, <1>3, <1>5, <1>4, <2>1, GoesOnInLevel
    <3>2. a \in 1..curf' /\ b \in 1..curn'
      <4>1. a \in 1..curf'
        BY <3>1, <1>3 DEF Spans
      <4>2. /\ b \in 1..Len(name) + 1
            /\ b <= curn'
        <5>1. CASE Literal(d, a, b)'
          <6>1. Spans(name, d, b, curn')
            BY <5>1, <1>6 DEF Literal
          <6> QED
            BY <6>1 DEF Spans
        <5>2. CASE AfterPlus(d, a, b)'
          <6>1. Spans(name, d, b, curn')
            BY <5>2, <1>6 DEF AfterPlus
          <6> QED
            BY <6>1 DEF Spans
        <5>3. CASE AfterHash(d, a, b)'
          <6>1. Spans(name, d, b, b + 1) /\ curn' = Len(name) + 1
            BY <5>3, <1>6 DEF AfterHash, End
          <6> QED
            BY <6>1 DEF Spans
        <5> QED
          BY <3>1, <5>1, <5>2, <5>3
      <4> QED
        BY <3>1, <4>1, <4>2, <1>3
    <3>3. InLevel(d, a, b)'
      BY <3>1, <1>5, <1>6 DEF InLevel
    <3>4. d = Depth(filter, a)'
      BY <1>4, <1>6
    <3> QED
      BY <3>1, <3>2, <3>3, <3>4 DEF Paired
  <2>2. CASE AtF = "/"
    <3>1. /\ SameLevel(filter, name, d)
          /\ Spans(filter, d + 1, curf + 1, curf + 1)
          /\ Spans(name, d + 1, curn + 1, curn + 1)
          /\ curf' = curf + 1 /\ curn' = curn + 1
          /\ curf' \in 1..Len(filter) + 1 /\ curn' \in 1..End
      BY <1>1, <1>3, <1>5, <2>2, GoesToNextLevel
    <3>2. PICK c \in Nat, e \in Nat : c = curf + 1 /\ e = curn + 1
      BY <1>1 DEF TopicTypeOK
    <3>3. c \in 1..curf' /\ e \in 1..curn' /\ c = curf' /\ e = curn'
      BY <3>1, <3>2
    <3>4. Literal(d + 1, c, e)'
      BY <3>1, <3>2, <3>3, <1>6 DEF Literal
    <3>5. \A k \in 0..(d + 1) - 1 : SameLevel(filter, name, k)
      BY <3>1, <1>5
    <3>6. InLevel(d + 1, c, e)'
      BY <3>1, <3>2, <3>3, <3>4, <3>5, <1>6 DEF InLevel
    <3>7. d + 1 = Depth(filter, c)'
      BY <3>1, <3>2, <1>6 DEF Spans
    <3> QED
      BY <3>1, <3>3, <3>6, <3>7 DEF Paired
  <2> QED
    BY <2>1, <2>2
<1>8. TopicTypeOK'
  BY <1>1, <1>6, <1>7 DEF TopicTypeOK
<1>9. MatchIsMeaning'
  BY <1>1, <1>6 DEF MatchIsMeaning
<1> QED
  BY <1>7, <1>8, <1>9 DEF TopicInv


LEMMA TopicStarts ==
  ASSUME TopicInit
  PROVE  TopicInv
<1>1. /\ filter \in Filters /\ name \in Names
      /\ curf = 1 /\ curn = 1 /\ result = "none"
      /\ Len(filter) \in Nat /\ Len(name) \in Nat
  BY TopicAssumption DEF TopicInit
<1>2. TopicTypeOK
  BY <1>1 DEF TopicTypeOK, End
<1>3. ASSUME NEW s
      PROVE  Depth(s, 1) = 0
  <2>1. Before(s, 1) = {}
    BY DEF Before
  <2> QED
    BY <2>1, DepthType, FS_EmptySet
<1>4. Spans(filter, 0, 1, 1) /\ Spans(name, 0, 1, 1)
  BY <1>1, <1>3 DEF Spans
<1>5. InLevel(0, 1, 1)
  BY <1>1, <1>4 DEF InLevel, Literal
<1>6. Paired
  BY <1>1, <1>3, <1>5 DEF Paired
<1> QED
  BY <1>1, <1>2, <1>6 DEF TopicInv, MatchIsMeaning

(* isTopicMatched() says yes to exactly the names that the filter means,   *)
(* for every set of well-formed filters and every set of names.            *)
THEOREM MatchesAsMeant ==
  ASSUME FiltersAreFilters
  PROVE  TopicSpec => []MatchIsMeaning
<1>1. TopicInv /\ [TopicNext]_topicVars => TopicInv'
  <2> SUFFICES ASSUME TopicInv, [TopicNext]_topicVars
               PROVE  TopicInv'
    OBVIOUS
  <2>1. CASE UNCHANGED topicVars
    <3>1. /\ filter' = filter /\ name' = name /\ curf' = curf
          /\ curn' = curn /\ result' = result
      BY <2>1 DEF topicVars
    <3>2. TopicTypeOK' /\ MatchIsMeaning'
      BY <3>1 DEF TopicInv, TopicTypeOK, End, MatchIsMeaning
    <3>3. (result = "none" => Paired)'
      BY <3>1 DEF TopicInv, Paired, InLevel, Literal, AfterPlus, AfterHash, End
    <3> QED
      BY <3>2, <3>3 DEF TopicInv
  <2> QED
    BY <2>1, AdvanceIsRight, LeaveIsRight DEF TopicNext
<1>2. TopicInv => MatchIsMeaning
  BY DEF TopicInv
<1> QED
  BY <1>1, <1>2, TopicStarts, PTL DEF TopicSpec
==============================================================================
