----------------------------- MODULE MqttReader -----------------------------
(***************************************************************************)
(* MQTTPacket_readnb(): a packet is read from a transport that gives some  *)
(* of the bytes asked for, or none, and the function is called again with  *)
(* what MQTTTransport has kept of it.  Each step is one answer of getfn;   *)
(* "call again" changes nothing and is a stuttering step.                  *)
(***************************************************************************)
EXTENDS MqttWire

CONSTANTS
  Streams,     \* what may be on the wire: types and remaining lengths
  BufLen,      \* buflen
  Junk         \* what MQTTTransport may hold before its first use

ASSUME ReaderAssumption ==
  /\ \A s \in Streams :
       /\ s \in Seq([type : 1..15, rem : Nat])
       /\ \A i \in 1..Len(s) : s[i].rem <= LengthLimit
  /\ BufLen \in Nat /\ BufLen >= 5 /\ Junk \subseteq Nat

VARIABLES
  Sent,        \* the packets on the wire
  n, took,     \* whole packets taken off the wire, bytes of the next one
  state, len, rem_len, multiplier,   \* MQTTTransport
  header,      \* the type in buf[0]
  high,        \* the highest position of the buffer that was written
  ret          \* the packet returned last: its type and length

transport == <<state, len, rem_len, multiplier>>
readerVars == <<Sent, n, took, transport, header, high, ret>>

Higher(k) == high' = IF k > high THEN k ELSE high
Broken == state = 3           \* -1 was returned, and the caller gives up

\* The packet is whole: its type is returned, and the next call starts anew.
CompleteStays(length) ==
  /\ state' = 2 /\ len' = length /\ ret' = [type |-> header, len |-> length]
  /\ n' = n /\ took' = 0
Complete(length) ==
  /\ state' = 0 /\ len' = length /\ ret' = [type |-> header, len |-> length]
  /\ n' = n + 1 /\ took' = 0

ReadHeader ==
  /\ state = 0 /\ n < Len(Sent)
  /\ header' = Sent[n + 1].type /\ took' = 1 /\ Higher(1)
  /\ state' = 1 /\ len' = 0
  /\ UNCHANGED <<n, rem_len, multiplier, ret>>

Fits(rem, length) == rem + length <= BufLen

\* MQTTPacket_decodenb() has read one more byte.
Multiplier == IF len = 0 THEN 1 ELSE multiplier
DecodedNoInit(c) == rem_len + (c % 128) * Multiplier
Decoded(c) == (IF len = 0 THEN 0 ELSE rem_len) + (c % 128) * Multiplier
ReadLength ==
  LET c == LengthByte(Sent[n + 1].rem, took - 1)
      rem == Decoded(c)
      length == 1 + EncodedLength(rem)    \* with the header and the length
  IN /\ state = 1 /\ len < MAX_NO_OF_REMAINING_LENGTH_BYTES
     /\ rem_len' = rem /\ multiplier' = Multiplier * 128
     /\ \/ /\ c >= 128 /\ len' = len + 1 /\ took' = took + 1
           /\ UNCHANGED <<state, n, high, ret>>
        \/ /\ c < 128 /\ Higher(length)
           /\ \/ /\ Fits(rem, length) /\ rem = 0 /\ Complete(length)
              \/ /\ Fits(rem, length) => rem > 0
                 /\ state' = IF Fits(rem, length) THEN 2 ELSE 3
                 /\ len' = length /\ took' = took + 1 /\ UNCHANGED <<n, ret>>
     /\ UNCHANGED header
LengthTooLong ==
  /\ state = 1 /\ len >= MAX_NO_OF_REMAINING_LENGTH_BYTES
  /\ state' = 3
  /\ UNCHANGED <<len, rem_len, multiplier, n, took, header, high, ret>>

ReadBody(k) ==
  /\ state = 2 /\ Higher(len + k) /\ rem_len' = rem_len - k
  /\ IF rem_len = k THEN Complete(len + k)
     ELSE len' = len + k /\ took' = took + k /\ UNCHANGED <<state, n, ret>>
  /\ UNCHANGED <<header, multiplier>>

GetError ==
  /\ ~Broken /\ state' = 3
  /\ UNCHANGED <<len, rem_len, multiplier, n, took, header, high, ret>>

ReaderInit ==
  /\ Sent \in Streams
  /\ n = 0 /\ took = 0 /\ header = 0 /\ high = 0 /\ state = 0
  /\ ret = [type |-> 0, len |-> 0]
  /\ len \in Junk /\ rem_len \in Junk /\ multiplier \in Junk
Progress ==
  /\ \/ ReadHeader \/ ReadLength \/ LengthTooLong
     \/ \E k \in 1..rem_len : ReadBody(k)
  /\ UNCHANGED Sent
ReaderNext == Progress \/ (GetError /\ UNCHANGED Sent)
ReaderSpec == ReaderInit /\ [][ReaderNext]_readerVars
\* The transport goes on giving bytes.
ReaderFairSpec == ReaderSpec /\ WF_readerVars(Progress)

-----------------------------------------------------------------------------
\* Type correctness of the transport and of what has been read.
ReaderTypeOK ==
  /\ Sent \in Streams
  /\ n \in 0..Len(Sent) /\ took \in Nat /\ header \in 0..15 /\ high \in Nat
  /\ state \in 0..3 /\ len \in Nat /\ rem_len \in Nat /\ multiplier \in Nat
  /\ ret \in [type : 0..15, len : Nat]

(* Nothing is ever written behind the end of the buffer, not even the      *)
(* length that is put back into it before it is compared with buflen.      *)
WritesInside == high <= BufLen

(* However the transport cuts the stream, what is returned is the packet   *)
(* that was sent, whole.                                                   *)
WholePackets ==
  n > 0 => ret = [type |-> Sent[n].type, len |-> Total(Sent[n].rem)]

(* A call that is not over has kept all it needs: the bytes taken are in   *)
(* the buffer from its start, and as many are to come as are missing.      *)
InStep ==
  state = 2 => took = len /\ took + rem_len = Total(Sent[n + 1].rem)

(* The non-blocking reader as its callers see it.                          *)
ReaderSafe == WritesInside /\ WholePackets /\ InStep
=============================================================================
