----------------------------- MODULE RingBuffer -----------------------------
(***************************************************************************)
(* Class RingBuffer, shared without a lock by one producer and one         *)
(* consumer, of which one is an interrupt handler.  put() and get() are    *)
(* taken apart at their accesses to shared memory, so that the other side  *)
(* may run between any two of them; the interrupt handler, which the main  *)
(* program cannot interrupt in turn, takes some of these interleavings.    *)
(* The compiler keeps the order of the accesses: a byte may alias head.    *)
(***************************************************************************)
EXTENDS Integers, Sequences

CONSTANTS
  Size,   \* buffer.size(): 256 for both of PicoUart's rings
  Bytes

ASSUME RingAssumption == Size \in Nat \ {0} /\ 0 \in Bytes

VARIABLES
  head, tail, buffer,
  putting,  \* where the producer is in put()
  data,     \* put()'s argument
  getting,  \* where the consumer is in get()
  value,    \* get()'s local
  last      \* what the latest get() returned

ringVars == <<head, tail, buffer, putting, data, getting, value, last>>

Index == 0..(Size - 1)

Succ(i) == (i + 1) % Size

empty == head = tail

full == Succ(head) = tail

RingInit ==
  /\ head = 0 /\ tail = 0
  /\ buffer = [i \in Index |-> 0]
  /\ putting = "idle" /\ getting = "idle"
  /\ data = 0 /\ value = 0 /\ last = 0

\* put(): work out the new head and look at the tail; a full ring refuses.
PutBeginUnchecked(d) ==
  /\ putting = "idle"
  /\ putting' = "store" /\ data' = d
  /\ UNCHANGED <<head, tail, buffer, getting, value, last>>
PutBegin(d) ==
  /\ putting = "idle"
  /\ ~full
  /\ putting' = "store" /\ data' = d
  /\ UNCHANGED <<head, tail, buffer, getting, value, last>>

PutStore ==
  /\ putting = "store"
  /\ buffer' = [buffer EXCEPT ![head] = data]
  /\ putting' = "publish"
  /\ UNCHANGED <<head, tail, data, getting, value, last>>

PutPublish ==
  /\ putting = "publish"
  /\ head' = Succ(head)
  /\ putting' = "idle"
  /\ UNCHANGED <<tail, buffer, data, getting, value, last>>

\* get(), which every caller calls after !empty(): read the slot ...
GetRead ==
  /\ getting = "idle"
  /\ ~empty
  /\ value' = buffer[tail]
  /\ getting' = "advance"
  /\ UNCHANGED <<head, tail, buffer, putting, data, last>>

\* ... and then release it, unless the ring looks empty by now.
GetAdvance ==
  /\ getting = "advance"
  /\ tail' = IF ~empty THEN Succ(tail) ELSE tail
  /\ last' = value
  /\ getting' = "idle"
  /\ UNCHANGED <<head, buffer, putting, data, value>>

RingNext ==
  \/ \E d \in Bytes : PutBegin(d)
  \/ PutStore \/ PutPublish
  \/ GetRead \/ GetAdvance

RingSpec == RingInit /\ [][RingNext]_ringVars

----------------------------------------------------------------------------
(* Correctness *)

\* The values of the C++ types; indices stay inside the buffer.
RingTypeOK ==
  /\ head \in Index /\ tail \in Index
  /\ buffer \in [Index -> Bytes]
  /\ putting \in {"idle", "store", "publish"}
  /\ getting \in {"idle", "advance"}
  /\ data \in Bytes /\ value \in Bytes /\ last \in Bytes

\* Neither side touches a slot the other one owns: while put() is under way
\* its slot stays free and keeps the byte stored there, and while get() is
\* under way the slot it read is neither overwritten nor taken for empty.
SlotsOwned ==
  /\ putting # "idle" => ~full
  /\ putting = "publish" => buffer[head] = data
  /\ getting = "advance" => ~empty /\ value = buffer[tail]

\* The queue a ring stands for: the slots from tail up to head.
Wrap(i) == IF i < Size THEN i ELSE i - Size

Count == IF tail <= head THEN head - tail ELSE head - tail + Size

Contents == [i \in 1..Count |-> buffer[Wrap(tail + i - 1)]]

Queue == INSTANCE ByteQueue WITH q <- Contents, Capacity <- Size - 1

\* Without a lock and without masking interrupts, put() and get() implement a
\* bounded queue: no byte is lost, repeated, reordered or read half written.
ImplementsQueue == Queue!QueueSpec
=============================================================================
