------------------------------ MODULE MqttWire ------------------------------
(***************************************************************************)
(* What MQTTPacket.h and MQTTPacket.c share between all packets: types,    *)
(* return codes, the header byte, integers and the remaining length.       *)
(***************************************************************************)
EXTENDS Integers, Sequences

CONNECT == 1
CONNACK == 2
PUBLISH == 3
PUBACK == 4
PUBREC == 5
PUBREL == 6
PUBCOMP == 7
SUBSCRIBE == 8
SUBACK == 9
UNSUBSCRIBE == 10
UNSUBACK == 11
PINGREQ == 12
PINGRESP == 13
DISCONNECT == 14

SUCCESS == 0
FAILURE == -1
BUFFER_OVERFLOW == -2

MQTTPACKET_READ_ERROR == -1
MQTTPACKET_BUFFER_TOO_SHORT == -2
MAX_NO_OF_REMAINING_LENGTH_BYTES == 4

\* The bit fields of MQTTHeader.
Header(type, dup, qos, retain) == 16 * type + 8 * dup + 2 * qos + retain
TypeOf(byte) == byte \div 16
DupOf(byte) == (byte \div 8) % 2
QosOf(byte) == (byte \div 2) % 4
RetainOf(byte) == byte % 2

writeInt(n) == <<(n \div 256) % 256, n % 256>>

(* The remaining length, 7 bits to a byte, lowest first, for the lengths   *)
(* four bytes can hold.                                                    *)
EncodedLength(n) ==
  IF n < 128 THEN 1 ELSE IF n < 128 * 128 THEN 2
  ELSE IF n < 128 * 128 * 128 THEN 3 ELSE 4
MQTTPacket_encode(n) ==
  LET k == EncodedLength(n)
  IN [i \in 1..k |-> ((n \div 128^(i - 1)) % 128)
                   + (IF i < k THEN 128 ELSE 0)]

MQTTPacket_len(rem_len) ==
  LET n == rem_len + 1
  IN n + (IF n < 128 THEN 1 ELSE IF n < 16384 THEN 2
          ELSE IF n < 2097151 THEN 3 ELSE 4)

(* The bytes of a remaining length one by one, for a reader; LengthLimit   *)
(* stands for a length that needs more bytes than there may be.            *)
LengthLimit == 128 * 128 * 128 * 128
Unending(rem) == rem = LengthLimit
Power(k) == IF k = 0 THEN 1 ELSE IF k = 1 THEN 128
            ELSE IF k = 2 THEN 128 * 128
            ELSE IF k = 3 THEN 128 * 128 * 128 ELSE LengthLimit
LengthByte(rem, k) ==
  ((rem \div Power(k)) % 128) + (IF k + 1 < EncodedLength(rem) \/ Unending(rem)
                                THEN 128 ELSE 0)
Total(rem) == 1 + EncodedLength(rem) + rem
=============================================================================
