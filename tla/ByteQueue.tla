----------------------------- MODULE ByteQueue -----------------------------
(***************************************************************************)
(* What a RingBuffer promises its two users: a bounded first-in first-out  *)
(* queue.  A byte that put() accepts comes out of get() once, in order.    *)
(***************************************************************************)
EXTENDS Integers, Sequences

CONSTANTS Bytes, Capacity

VARIABLES
  q,     \* the bytes accepted and not yet returned
  last   \* the byte the latest get() returned

QueueInit == q = <<>> /\ last \in Bytes

Enqueue(b) ==
  /\ Len(q) < Capacity
  /\ q' = Append(q, b)
  /\ UNCHANGED last

Dequeue ==
  /\ q # <<>>
  /\ last' = Head(q)
  /\ q' = Tail(q)

QueueNext == Dequeue \/ \E b \in Bytes : Enqueue(b)

QueueSpec == QueueInit /\ [][QueueNext]_<<q, last>>
=============================================================================
