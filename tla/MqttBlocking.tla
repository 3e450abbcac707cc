---------------------------- MODULE MqttBlocking ----------------------------
(***************************************************************************)
(* MQTTPacket_read(), the reader of one packet that waits: a call takes a  *)
(* packet off the wire with getfn, which may fail at any of its bytes.     *)
(***************************************************************************)
EXTENDS MqttWire

CONSTANTS
  Rems,        \* the remaining lengths of the packets that come
  ReadBufLen   \* buflen

ASSUME BlockingAssumption ==
  Rems \subseteq 0..LengthLimit /\ ReadBufLen \in Nat /\ ReadBufLen >= 5

VARIABLES
  rem, rc,     \* the packet that came, and what the call returned for it
  failed       \* getfn has failed, or the length did not end

blockingVars == <<rem, rc, failed>>

\* MQTTPacket_decode(): the value of the bytes it got before an error.
MQTTPacket_decode(r, got) == r % Power(got)

\* The call when getfn gave `got' bytes of the length and, if it was asked
\* for one, the body.
FitsReadAlone(value, length) == value <= ReadBufLen
FitsRead(value, length) == value + length <= ReadBufLen
MQTTPacket_read(r, got, body) ==
  LET value == MQTTPacket_decode(r, got)
      length == 1 + EncodedLength(value)
      asked == FitsRead(value, length) /\ value > 0
  IN /\ rem' = r
     /\ failed' = (got < EncodedLength(r) \/ Unending(r) \/ (asked /\ ~body))
     /\ rc' = IF FitsRead(value, length) /\ (asked => body) THEN PUBLISH
              ELSE MQTTPACKET_READ_ERROR
ReadCall ==
  \E r \in Rems, body \in BOOLEAN : \E got \in 0..EncodedLength(r) :
    MQTTPacket_read(r, got, body)
HeaderFails ==
  /\ rc' = MQTTPACKET_READ_ERROR /\ failed' = TRUE /\ UNCHANGED rem

BlockingInit == rem = 0 /\ rc = MQTTPACKET_READ_ERROR /\ failed = TRUE
BlockingNext == ReadCall \/ HeaderFails
BlockingSpec == BlockingInit /\ [][BlockingNext]_blockingVars

-----------------------------------------------------------------------------
(* A packet that comes without an error is returned if, and only if, all   *)
(* of it is in the buffer, with the length that was put back before it.    *)
ReturnedIsWhole ==
  ~failed => (rc # MQTTPACKET_READ_ERROR <=> Total(rem) <= ReadBufLen)
=============================================================================
