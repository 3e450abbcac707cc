----------------------------- MODULE MqttPacket -----------------------------
(***************************************************************************)
(* The packet codec of MQTTPacket/src: each MQTTSerialize_... as the bytes *)
(* it writes, each MQTTDeserialize_... as what it returns for the bytes of *)
(* a buffer.  A packet is serialized into a buffer of some size, or comes  *)
(* off the wire as it is, and is then deserialized.                        *)
(***************************************************************************)
EXTENDS MqttWire, SequencesExt

CONSTANTS
  Packets,     \* what is serialized
  Frames,      \* packets off the wire: a header byte and a body
  Slack,       \* room in the buffer more than the packet takes, or less
  MaxCount,    \* the caller's maxcount, members of its arrays
  Stale,       \* the byte behind a packet in the read buffer
  LengthEdges  \* remaining lengths at which the number of bytes grows

ASSUME PacketAssumption ==
  /\ Slack \subseteq Int /\ MaxCount \in Nat /\ Stale \in 0..255
  /\ LengthEdges \subseteq 0..LengthLimit - 1

VARIABLES
  pkt, room,   \* what is serialized, and buflen
  wire,        \* the result, or a packet off the wire
  as, in       \* the type it is deserialized as, and the result

packetVars == <<pkt, room, wire, as, in>>

NoString == <<256>>      \* an MQTTString with neither cstring nor data
MQTTstrlen(s) == IF s = NoString THEN 0 ELSE Len(s)
writeMQTTString(s) ==
  writeInt(MQTTstrlen(s)) \o (IF s = NoString THEN <<>> ELSE s)

-----------------------------------------------------------------------------
(* Serializing: the number of bytes written, and the bytes.                *)
TooShort == [rc |-> MQTTPACKET_BUFFER_TOO_SHORT, buf |-> <<>>]
Frame(header, body) == <<header>> \o MQTTPacket_encode(Len(body)) \o body
Written(header, body) ==
  [rc |-> Len(Frame(header, body)), buf |-> Frame(header, body)]

\* The functions that compute the remaining length first...
Sized(buflen, rem_len, header, body) ==
  IF MQTTPacket_len(rem_len) > buflen THEN TooShort ELSE Written(header, body)
\* ... and those that compare the buffer with a number.
Fixed(buflen, least, header, body) ==
  IF buflen < least THEN TooShort ELSE Written(header, body)

ConnectFlags(p) ==
  128 * (IF p.username # NoString THEN 1 ELSE 0)
  + 64 * (IF p.password # NoString THEN 1 ELSE 0)
  + (IF p.will THEN 32 * p.willRetained + 8 * p.willQoS + 4 ELSE 0)
  + 2 * p.cleansession
Present(s) == IF s = NoString THEN <<>> ELSE writeMQTTString(s)
MQTTProtocol(version) == IF version = 4 THEN <<77, 81, 84, 84>>
                         ELSE <<77, 81, 73, 115, 100, 112>>
MQTTSerialize_connectLength(p) ==
  (IF p.version = 3 THEN 12 ELSE 10) + MQTTstrlen(p.clientID) + 2
  + (IF p.will THEN MQTTstrlen(p.willTopic) + 2 + MQTTstrlen(p.willMessage) + 2
               ELSE 0)
  + Len(Present(p.username)) + Len(Present(p.password))
MQTTSerialize_connect(p, buflen) ==
  Sized(buflen, MQTTSerialize_connectLength(p), Header(CONNECT, 0, 0, 0),
        writeMQTTString(MQTTProtocol(p.version)) \o <<p.version>>
        \o <<ConnectFlags(p)>> \o writeInt(p.keepAlive)
        \o writeMQTTString(p.clientID)
        \o (IF p.will THEN writeMQTTString(p.willTopic)
                           \o writeMQTTString(p.willMessage) ELSE <<>>)
        \o Present(p.username) \o Present(p.password))

MQTTSerialize_publishLength(p) ==
  2 + MQTTstrlen(p.topic) + Len(p.payload) + (IF p.qos > 0 THEN 2 ELSE 0)
MQTTSerialize_publish(p, buflen) ==
  Sized(buflen, MQTTSerialize_publishLength(p),
        Header(PUBLISH, p.dup, p.qos, p.retained),
        writeMQTTString(p.topic)
        \o (IF p.qos > 0 THEN writeInt(p.id) ELSE <<>>) \o p.payload)

MQTTSerialize_unsubscribeLength(p) ==
  2 + FoldLeft(LAMBDA n, f : n + 2 + MQTTstrlen(f), 0, p.filters)
MQTTSerialize_unsubscribe(p, buflen) ==
  Sized(buflen, MQTTSerialize_unsubscribeLength(p),
        Header(UNSUBSCRIBE, p.dup, 1, 0),
        writeInt(p.id) \o FlattenSeq([i \in DOMAIN p.filters |->
                                        writeMQTTString(p.filters[i])]))
MQTTSerialize_subscribeLength(p) ==
  2 + FoldLeft(LAMBDA n, f : n + 2 + MQTTstrlen(f) + 1, 0, p.filters)
MQTTSerialize_subscribe(p, buflen) ==
  Sized(buflen, MQTTSerialize_subscribeLength(p), Header(SUBSCRIBE, p.dup, 1, 0),
        writeInt(p.id)
        \o FlattenSeq([i \in DOMAIN p.filters |->
             Append(writeMQTTString(p.filters[i]), p.qoss[i])]))

MQTTSerialize_connack(p, buflen) ==
  Fixed(buflen, 2, Header(CONNACK, 0, 0, 0), <<p.sessionPresent, p.connack_rc>>)
MQTTSerialize_suback(p, buflen) ==
  Fixed(buflen, 2 + Len(p.qoss), Header(SUBACK, 0, 0, 0),
        writeInt(p.id) \o p.qoss)
MQTTSerialize_unsuback(p, buflen) ==
  Fixed(buflen, 2, Header(UNSUBACK, 0, 0, 0), writeInt(p.id))
MQTTSerialize_ack(p, buflen) ==
  Fixed(buflen, 4, Header(p.type, p.dup, IF p.type = PUBREL THEN 1 ELSE 0, 0),
        writeInt(p.id))
MQTTSerialize_zero(p, buflen) ==
  Fixed(buflen, 2, Header(p.type, 0, 0, 0), <<>>)

Serialized(p, buflen) ==
  CASE p.type = CONNECT -> MQTTSerialize_connect(p, buflen)
    [] p.type = CONNACK -> MQTTSerialize_connack(p, buflen)
    [] p.type = PUBLISH -> MQTTSerialize_publish(p, buflen)
    [] p.type = SUBSCRIBE -> MQTTSerialize_subscribe(p, buflen)
    [] p.type = UNSUBSCRIBE -> MQTTSerialize_unsubscribe(p, buflen)
    [] p.type = SUBACK -> MQTTSerialize_suback(p, buflen)
    [] p.type = UNSUBACK -> MQTTSerialize_unsuback(p, buflen)
    [] p.type \in {PINGREQ, DISCONNECT} -> MQTTSerialize_zero(p, buflen)
    [] OTHER -> MQTTSerialize_ack(p, buflen)

-----------------------------------------------------------------------------
(* Deserializing.  A pointer is a position in the buffer; enddata is the   *)
(* first position behind the packet.                                       *)
At(buf, i) == IF i <= Len(buf) THEN buf[i] ELSE Stale
readInt(buf, i) == 256 * At(buf, i) + At(buf, i + 1)

MQTTPacket_decodeBuf(buf, i) ==
  LET ends == {k \in 1..MAX_NO_OF_REMAINING_LENGTH_BYTES :
                 /\ At(buf, i + k - 1) < 128
                 /\ \A j \in 1..k - 1 : At(buf, i + j - 1) >= 128}
      len == IF ends = {} THEN MAX_NO_OF_REMAINING_LENGTH_BYTES + 1
             ELSE CHOOSE k \in ends : TRUE
      digits == IF len > MAX_NO_OF_REMAINING_LENGTH_BYTES THEN len - 1 ELSE len
  IN [len |-> len,
      value |-> FoldLeft(+, 0, [j \in 1..digits |->
                  (At(buf, i + j - 1) % 128) * 128^(j - 1)])]

Failed(rc) == [rc |-> rc]

readMQTTLenStringUnchecked(buf, i, enddata) ==
  LET n == readInt(buf, i)
  IN IF enddata - i > 1
     THEN [ok |-> TRUE, cur |-> i + 2 + n,
           s |-> [k \in 1..n |-> At(buf, i + 1 + k)]]
     ELSE [ok |-> FALSE, cur |-> i, s |-> <<>>]
readMQTTLenString(buf, i, enddata) ==
  LET n == readInt(buf, i)
  IN IF enddata - i > 1 /\ i + 2 + n <= enddata
     THEN [ok |-> TRUE, cur |-> i + 2 + n, s |-> SubSeq(buf, i + 2, i + 1 + n)]
     ELSE [ok |-> FALSE, cur |-> i, s |-> <<>>]

MQTTPacket_checkVersion(protocol, version) ==
  LET name == MQTTProtocol(version)
      n == IF Len(protocol) < Len(name) THEN Len(protocol) ELSE Len(name)
  IN version \in {3, 4} /\ SubSeq(protocol, 1, n) = SubSeq(name, 1, n)

MQTTDeserialize_connect(buf) ==
  LET enddata == Len(buf) + 1
      str(i) == readMQTTLenString(buf, i, enddata)
      skip(i) == [ok |-> TRUE, cur |-> i, s |-> NoString]
      proto == str(2 + MQTTPacket_decodeBuf(buf, 2).len)
      version == At(buf, proto.cur)
      flags == At(buf, proto.cur + 1)
      bit(k) == (flags \div k) % 2 = 1
      id == str(proto.cur + 4)
      topic == IF bit(4) THEN str(id.cur) ELSE skip(id.cur)
      message == IF bit(4) THEN str(topic.cur) ELSE skip(topic.cur)
      user == IF bit(128) THEN str(message.cur) ELSE skip(message.cur)
      pass == IF bit(64) THEN str(user.cur) ELSE skip(user.cur)
  IN IF /\ proto.ok /\ MQTTPacket_checkVersion(proto.s, version)
        /\ id.ok /\ topic.ok /\ message.ok /\ user.ok /\ pass.ok
        /\ bit(128) => enddata - message.cur >= 3
        /\ bit(64) => bit(128) /\ enddata - user.cur >= 3
     THEN [rc |-> 1, type |-> CONNECT, version |-> version,
           cleansession |-> (flags \div 2) % 2, clientID |-> id.s,
           keepAlive |-> readInt(buf, proto.cur + 2), will |-> bit(4),
           willTopic |-> topic.s, willMessage |-> message.s,
           willQoS |-> IF bit(4) THEN (flags \div 8) % 4 ELSE 0,
           willRetained |-> IF bit(4) THEN (flags \div 32) % 2 ELSE 0,
           username |-> user.s, password |-> pass.s]
     ELSE Failed(0)

MQTTDeserialize_publish(buf) ==
  LET d == MQTTPacket_decodeBuf(buf, 2)
      enddata == 2 + d.len + d.value
      topic == readMQTTLenString(buf, 2 + d.len, enddata)
      qos == QosOf(buf[1])
      cur == IF qos > 0 THEN topic.cur + 2 ELSE topic.cur
  IN IF ~topic.ok THEN Failed(d.len)
     ELSE [rc |-> 1, type |-> PUBLISH, dup |-> DupOf(buf[1]), qos |-> qos,
           retained |-> RetainOf(buf[1]), topic |-> topic.s,
           id |-> IF qos > 0 THEN readInt(buf, topic.cur) ELSE 0,
           payload |-> SubSeq(buf, cur, enddata - 1),
           payloadlen |-> enddata - cur]

MQTTDeserialize_ack(buf) ==
  LET d == MQTTPacket_decodeBuf(buf, 2)
  IN IF d.value < 2 THEN Failed(d.len)
     ELSE [rc |-> 1, type |-> TypeOf(buf[1]), dup |-> DupOf(buf[1]),
           id |-> readInt(buf, 2 + d.len)]
\* Its look at the type comes after the result.
MQTTDeserialize_unsuback(buf) ==
  [MQTTDeserialize_ack(buf) EXCEPT !.rc =
     IF TypeOf(buf[1]) = UNSUBACK THEN 1 ELSE @]
MQTTDeserialize_connack(buf) ==
  LET d == MQTTPacket_decodeBuf(buf, 2)
  IN IF d.value < 2 THEN Failed(d.len)
     ELSE [rc |-> 1, type |-> CONNACK,
           sessionPresent |-> At(buf, 2 + d.len) % 2,
           connack_rc |-> At(buf, 3 + d.len)]
MQTTDeserialize_suback(buf) ==
  LET d == MQTTPacket_decodeBuf(buf, 2)
      qoss == SubSeq(buf, 4 + d.len, 1 + d.len + d.value)
      most == IF Len(qoss) > MaxCount + 1 THEN MaxCount + 1 ELSE Len(qoss)
  IN IF d.value < 2 THEN Failed(d.len)
     ELSE [rc |-> IF Len(qoss) > MaxCount + 1 THEN -1 ELSE 1, type |-> SUBACK,
           id |-> readInt(buf, 2 + d.len), qoss |-> SubSeq(qoss, 1, most),
           members |-> most]

\* The loops over topic filters: the filters and, for SUBSCRIBE, their QoS;
\* and the members of the caller's array that are written to, of which a
\* readMQTTLenString() that fails takes one too.
NoFilters == [ok |-> TRUE, filters |-> <<>>, qoss |-> <<>>, members |-> 0]
Full(l) == Len(l.filters) = MaxCount
GivenUp(l) == [l EXCEPT !.ok = FALSE]
Touched(l) == [l EXCEPT !.members = @ + 1]
RECURSIVE ReadFilters(_, _, _, _, _)
ReadFilters(type, buf, i, enddata, l) ==
  LET f == readMQTTLenString(buf, i, enddata)
      one == [Touched(l) EXCEPT !.filters = Append(@, f.s)]
  IN IF i >= enddata THEN l
     ELSE IF type = SUBSCRIBE /\ Full(l) THEN GivenUp(l)
     ELSE IF ~f.ok \/ (type = SUBSCRIBE /\ f.cur >= enddata)
     THEN GivenUp(Touched(l))
     ELSE IF type = UNSUBSCRIBE THEN ReadFilters(type, buf, f.cur, enddata, one)
     ELSE ReadFilters(type, buf, f.cur + 1, enddata,
                      [one EXCEPT !.qoss = Append(@, At(buf, f.cur))])
TopicFilters(type, buf, failure) ==
  LET d == MQTTPacket_decodeBuf(buf, 2)
      l == ReadFilters(type, buf, 4 + d.len, 2 + d.len + d.value, NoFilters)
  IN IF ~l.ok THEN [rc |-> failure, members |-> l.members]
     ELSE [rc |-> 1, type |-> type, dup |-> DupOf(buf[1]),
           id |-> readInt(buf, 2 + d.len), filters |-> l.filters,
           qoss |-> l.qoss, members |-> l.members]
MQTTDeserialize_subscribe(buf) ==
  TopicFilters(SUBSCRIBE, buf, MQTTPACKET_READ_ERROR)
MQTTDeserialize_unsubscribe(buf) ==
  TopicFilters(UNSUBSCRIBE, buf, MQTTPacket_decodeBuf(buf, 2).len)

\* The function for packets of one type, given any packet.
Typed(type, buf, result) ==
  IF TypeOf(buf[1]) = type THEN result
  ELSE Failed(IF type = SUBSCRIBE THEN MQTTPACKET_READ_ERROR ELSE 0)
Deserialized(type, buf) ==
  CASE type = CONNECT -> Typed(type, buf, MQTTDeserialize_connect(buf))
    [] type = CONNACK -> Typed(type, buf, MQTTDeserialize_connack(buf))
    [] type = PUBLISH -> Typed(type, buf, MQTTDeserialize_publish(buf))
    [] type = SUBSCRIBE -> Typed(type, buf, MQTTDeserialize_subscribe(buf))
    [] type = UNSUBSCRIBE -> Typed(type, buf, MQTTDeserialize_unsubscribe(buf))
    [] type = SUBACK -> Typed(type, buf, MQTTDeserialize_suback(buf))
    [] type = UNSUBACK -> MQTTDeserialize_unsuback(buf)
    [] OTHER -> MQTTDeserialize_ack(buf)

-----------------------------------------------------------------------------
NotYet == Failed(-100)
NoBytes == [rc |-> -100, buf |-> <<>>]

PacketInit ==
  /\ as = 0 /\ in = NotYet
  /\ \/ /\ pkt \in Packets /\ wire = NoBytes
        /\ room \in {Len(Serialized(pkt, 100000).buf) + k : k \in Slack}
     \/ /\ pkt = NotYet /\ room = 0
        /\ \E f \in Frames : wire = Written(f.header, f.body)

Serialize ==
  /\ pkt # NotYet /\ wire = NoBytes
  /\ wire' = Serialized(pkt, room) /\ UNCHANGED <<pkt, room, as, in>>
Deserialize(type) ==
  /\ wire.rc > 0 /\ in = NotYet
  /\ as' = type /\ in' = Deserialized(type, wire.buf)
  /\ UNCHANGED <<pkt, room, wire>>

Read == {CONNECT, CONNACK, PUBLISH, PUBACK, SUBSCRIBE, SUBACK, UNSUBSCRIBE,
         UNSUBACK}
PacketNext == Serialize \/ \E type \in Read : Deserialize(type)
PacketSpec == PacketInit /\ [][PacketNext]_packetVars

-----------------------------------------------------------------------------
\* The packet was read to its end.
Parsed == in.rc = 1 /\ "type" \in DOMAIN in
Exact == Len(Serialized(pkt, 100000).buf)
Value == MQTTPacket_decodeBuf(wire.buf, 2).value

(* MQTTSerialize_connack(), _suback() and _unsuback() compare the buffer   *)
(* with the length of what follows the fixed header (MQTTConnectServer.c:  *)
(* 127): they may write the fixed header's bytes too many, and no more.    *)
ByBody == {CONNACK, SUBACK, UNSUBACK}
Excess == IF pkt.type \in ByBody THEN wire.rc - Value ELSE 0
RoomIsJudged ==
  /\ wire.rc > 0 /\ pkt # NotYet => wire.rc <= room + Excess
  /\ wire.rc = MQTTPACKET_BUFFER_TOO_SHORT => room <= Exact

(* At the lengths where a byte is added, for which no packet is built      *)
(* here: the length comes back out of its bytes, and MQTTPacket_len(),     *)
(* which counts the header byte as if it were part of the remaining        *)
(* length, asks for no less room than the packet takes.                    *)
LengthIsKept ==
  \A n \in LengthEdges :
    /\ MQTTPacket_decodeBuf(<<0>> \o MQTTPacket_encode(n), 2)
         = [len |-> EncodedLength(n), value |-> n]
    /\ MQTTPacket_len(n) \in Total(n)..Total(n) + 1

(* Whatever a packet carries comes back out of the bytes it is written as, *)
(* at every size its length, ids and strings can have.  Refused are a      *)
(* CONNECT with a password alone or an empty name or password at its end,  *)
(* and what has more members than the caller's array (SUBACK: than one     *)
(* more).                                                                  *)
Refusable ==
  \/ /\ pkt.type = CONNECT
     /\ \/ pkt.username = NoString /\ pkt.password # NoString
        \/ pkt.password = <<>>
        \/ pkt.username = <<>> /\ pkt.password = NoString
  \/ pkt.type = SUBSCRIBE /\ Len(pkt.filters) > MaxCount
  \/ pkt.type = SUBACK /\ Len(pkt.qoss) > MaxCount + 1
RoundTrip ==
  pkt # NotYet /\ as = pkt.type =>
    /\ Parsed <=> ~Refusable
    /\ Parsed => \A f \in DOMAIN pkt \cap DOMAIN in : in[f] = pkt[f]

(* What is read to its end has its strings and payload inside the packet,  *)
(* whatever lengths it names: they make up the remaining length, exactly   *)
(* but for SUBSCRIBE and UNSUBSCRIBE without filters and for CONNECT.  The *)
(* payload of a PUBLISH is what the topic and the id leave: its length is  *)
(* -1 or -2 when the packet ends before the end of its id.                 *)
AcceptedIsInside ==
  /\ Parsed /\ as = CONNECT => MQTTSerialize_connectLength(in) <= Value
  /\ Parsed /\ as = SUBSCRIBE /\ in.filters # <<>> =>
       MQTTSerialize_subscribeLength(in) = Value
  /\ Parsed /\ as = UNSUBSCRIBE /\ in.filters # <<>> =>
       MQTTSerialize_unsubscribeLength(in) = Value
  /\ Parsed /\ as = PUBLISH =>
       LET id == IF in.qos > 0 THEN 2 ELSE 0
       IN /\ 2 + Len(in.topic) + id + in.payloadlen = Value
          /\ in.payloadlen >= -id

(* How far a packet, read to its end or not, reaches into the arrays of a  *)
(* caller that has maxcount members: a SUBSCRIBE stays inside, a SUBACK    *)
(* takes one more (MQTTSubscribeClient.c:123), and an UNSUBSCRIBE is only  *)
(* stopped by its own end, since MQTTDeserialize_unsubscribe() does not    *)
(* look at maxcount (MQTTUnsubscribeServer.c:56).                          *)
MembersAreCounted ==
  "members" \in DOMAIN in =>
    CASE as = SUBSCRIBE -> in.members <= MaxCount
      [] as = SUBACK -> in.members <= MaxCount + 1
      [] as = UNSUBSCRIBE -> in.members > 0 => 2 * in.members < Value

(* The codec loses nothing it is given and reaches no further into         *)
(* buffers and arrays than said above: the serializers write what fits,    *)
(* three of them the fixed header more than that, and the deserializers    *)
(* get all of it back; what they read to the end of a packet lies in that  *)
(* packet, but for an id and the payload before it; and the members they   *)
(* fill are as many as the caller has, one more, or as many as the packet  *)
(* has.                                                                    *)
CodecSafe ==
  /\ RoomIsJudged /\ LengthIsKept /\ RoundTrip
  /\ AcceptedIsInside /\ MembersAreCounted
=============================================================================
