--------------------------- MODULE BoundedStream ---------------------------
(***************************************************************************)
(* What IPStack's receive buffer promises: the bytes of the stream, first  *)
(* in first out, except those that came while Capacity bytes were waiting. *)
(***************************************************************************)
EXTENDS Integers, Sequences

CONSTANTS Bytes, Capacity, MaxChunk

VARIABLES
  q,     \* the bytes waiting to be read
  came,  \* the segment that came last
  last   \* the bytes the latest read() returned

Lesser(a, b) == IF a < b THEN a ELSE b

StreamInit == q = <<>> /\ came = <<>> /\ last = <<>>

Arrive(chunk) ==
  /\ q' = q \o SubSeq(chunk, 1, Lesser(Len(chunk), Capacity - Len(q)))
  /\ came' = chunk
  /\ UNCHANGED last

Take(len) ==
  /\ last' = SubSeq(q, 1, Lesser(len, Len(q)))
  /\ q' = SubSeq(q, Lesser(len, Len(q)) + 1, Len(q))
  /\ UNCHANGED came

Chunks == UNION {[1..n -> Bytes] : n \in 1..MaxChunk}

StreamNext ==
  \/ \E chunk \in Chunks : Arrive(chunk)
  \/ \E len \in 0..Capacity : Take(len)

StreamSpec == StreamInit /\ [][StreamNext]_<<q, came, last>>
=============================================================================
