----------------------------- MODULE IpReceive -----------------------------
(***************************************************************************)
(* The receive buffer of class IPStack: lwIP's callback tcp_client_recv()  *)
(* puts the bytes of a segment into a ring, read() takes them out.  The    *)
(* build polls lwIP (pico_cyw43_arch_lwip_poll), so the callback runs only *)
(* inside cyw43_arch_poll() and never inside the copying of read().        *)
(***************************************************************************)
EXTENDS Integers, Sequences

CONSTANTS
  BUF_SIZE,    \* 2048
  Bytes,
  MaxChunk,    \* the longest segment
  MaxLen       \* the longest read

ASSUME ReceiveAssumption ==
  /\ BUF_SIZE \in Nat \ {0} /\ MaxChunk \in Nat \ {0} /\ MaxLen \in Nat
  /\ 0 \in Bytes

VARIABLES
  buffer, count, wr, rd,
  seg,         \* the segment that came last
  out          \* what the latest read() returned

receiveVars == <<buffer, count, wr, rd, seg, out>>

Lesser(a, b) == IF a < b THEN a ELSE b
Index == 0..(BUF_SIZE - 1)
Chunks == UNION {[1..n -> Bytes] : n \in 1..MaxChunk}

\* The constructor; the buffer is not cleared, its bytes are never read.
ReceiveInit ==
  /\ buffer = [i \in Index |-> 0] /\ count = 0 /\ wr = 0 /\ rd = 0
  /\ seg = <<>> /\ out = <<>>

\* pbuf_copy_partial() of n bytes from an offset in the segment.
CopiedFromStart(buf, to, chunk, n, offset) ==
  [i \in Index |-> IF i \in to..(to + n - 1) THEN chunk[i - to + 1]
                   ELSE buf[i]]
Copied(buf, to, chunk, n, offset) ==
  [i \in Index |-> IF i \in to..(to + n - 1) THEN chunk[i - to + offset + 1]
                   ELSE buf[i]]

ThatFits(chunk) == Lesser(Len(chunk), BUF_SIZE - count)
SecondWr(rest) == rest % BUF_SIZE
tcp_client_recv(chunk) ==
  LET bytes_to_copy == ThatFits(chunk)
      first_copy == BUF_SIZE - wr
  IN /\ \/ /\ wr + bytes_to_copy > BUF_SIZE    \* in two parts
           /\ buffer' = Copied(Copied(buffer, wr, chunk, first_copy, 0),
                               0, chunk, bytes_to_copy - first_copy, first_copy)
           /\ wr' = SecondWr(bytes_to_copy - first_copy)
        \/ /\ wr + bytes_to_copy <= BUF_SIZE
           /\ buffer' = Copied(buffer, wr, chunk, bytes_to_copy, 0)
           /\ wr' = (wr + bytes_to_copy) % BUF_SIZE
     /\ count' = count + bytes_to_copy /\ seg' = chunk
     /\ UNCHANGED <<rd, out>>

\* read(), when len bytes are there or its time is up.
NextRd(n) == (rd + n) % BUF_SIZE
read(len) ==
  LET n == Lesser(count, len)
      first_copy == BUF_SIZE - rd
  IN /\ \/ /\ rd + n > BUF_SIZE                \* in two parts
           /\ out' = [i \in 1..n |-> IF i <= first_copy THEN buffer[rd + i - 1]
                                     ELSE buffer[i - first_copy - 1]]
           /\ rd' = n - first_copy
        \/ /\ rd + n <= BUF_SIZE
           /\ out' = [i \in 1..n |-> buffer[rd + i - 1]]
           /\ rd' = IF n > 0 THEN NextRd(n) ELSE rd
     /\ count' = count - n
     /\ UNCHANGED <<buffer, wr, seg>>

ReceiveNext ==
  \/ \E chunk \in Chunks : tcp_client_recv(chunk)
  \/ \E len \in 0..MaxLen : read(len)
ReceiveSpec == ReceiveInit /\ [][ReceiveNext]_receiveVars

-----------------------------------------------------------------------------
\* The values of the C++ types; the indices stay inside the buffer.
ReceiveTypeOK ==
  /\ buffer \in [Index -> Bytes] /\ count \in 0..BUF_SIZE
  /\ wr \in Index /\ rd \in Index
  /\ seg \in Seq(Bytes) /\ out \in Seq(Bytes)

(* The write index is always count places after the read index, although   *)
(* recv and read each count and wrap in two different ways.                *)
IndicesAgree == wr = (rd + count) % BUF_SIZE

\* The bytes waiting, in the order in which they will be read.
Waiting == [i \in 1..count |-> buffer[(rd + i - 1) % BUF_SIZE]]

Stream == INSTANCE BoundedStream WITH
            q <- Waiting, came <- seg, last <- out, Capacity <- BUF_SIZE

(* read() returns the stream in order, without a byte repeated, overwritten *)
(* or left out, as long as no segment meets a buffer that is too full; of a *)
(* segment that does, the bytes that fit are kept.                          *)
ImplementsStream == Stream!StreamSpec
=============================================================================
