---------------------------- MODULE MCTransport -----------------------------
(***************************************************************************)
(* What lies between the MQTT client and the wire, part by part: unit says *)
(* which part a behaviour is about, the others stay as they started.       *)
(*   receive   a buffer of three bytes, segments and reads longer than it  *)
(*   session   several connects, several messages on each connection       *)
(*   reader    packets of all sizes in chunks of all sizes                 *)
(*   blocking  lengths on both sides of what fits and of two length bytes  *)
(*   packet    every kind of packet, written and read back, and packets    *)
(*             off the wire with any short body                            *)
(*   topic     filters of up to 4 characters against names of up to 5      *)
(***************************************************************************)
EXTENDS IpReceive, MqttSession, MqttReader, MqttBlocking, MqttPacket, MqttTopic

VARIABLE unit

\* Lengths of no, one and several bytes, one that just fits and one that does
\* not, in either order; and a length that does not end.
MCStreams ==
  {<<[type |-> 12, rem |-> 0], [type |-> 3, rem |-> 5],
     [type |-> 4, rem |-> 2], [type |-> 3, rem |-> 128],
     [type |-> 9, rem |-> 3], [type |-> 3, rem |-> 127],
     [type |-> 14, rem |-> 0], [type |-> 3, rem |-> 129],
     [type |-> 3, rem |-> 1]>>,
   <<[type |-> 3, rem |-> 128], [type |-> 4, rem |-> 2],
     [type |-> 3, rem |-> LengthLimit]>>}
SomeJunk == {0, 7}
Edges == {0, 1, 126, 127, 128, 129, 16382, 16383, 16384, 16385, 2097149,
          2097150, 2097151, 2097152, 2097153, LengthLimit - 1}
Lengths == 0..140 \cup Edges \cup {LengthLimit}

Levels(letters, size) == UNION {[1..k -> letters] : k \in 0..size}

MCNames == Levels({"a", "b", "/"}, 5) \ {<<>>}
MCFilters == {f \in Levels({"a", "b", "/", "+", "#"}, 4) : WellFormed(f)}
             \ {<<>>}

SomeStrings == {NoString, <<>>, <<97>>}
Wills == {[will |-> FALSE, topic |-> NoString, message |-> NoString, q |-> 0]}
         \cup [will : {TRUE}, topic : {<<97>>}, message : {<<>>, <<98>>},
               q : {0, 2}]
Connects ==
  {[type |-> CONNECT, version |-> v, cleansession |-> c, clientID |-> i,
    keepAlive |-> k, will |-> w.will, willTopic |-> w.topic,
    willMessage |-> w.message, willQoS |-> w.q, willRetained |-> w.q \div 2,
    username |-> u, password |-> p] :
     v \in {3, 4}, c \in {0, 1}, i \in {<<>>, <<99>>}, k \in {0, 256, 65535},
     w \in Wills, u \in SomeStrings, p \in SomeStrings}

\* Payloads around the lengths at which the remaining length grows.
Ids == {1, 255, 256, 65535}
Publishes ==
  {[type |-> PUBLISH, dup |-> q \div 2, qos |-> q, retained |-> q % 2,
    id |-> IF q = 0 THEN 0 ELSE i, topic |-> t,
    payload |-> [k \in 1..size |-> k % 256]] :
     q \in 0..2, i \in Ids, t \in {<<>>, <<97>>},
     size \in {0, 1} \cup (121..126) \cup (16378..16382)}

Subscribes ==
  UNION {{[type |-> SUBSCRIBE, dup |-> 0, id |-> i, filters |-> f,
           qoss |-> [k \in DOMAIN f |-> k % 3]],
          [type |-> UNSUBSCRIBE, dup |-> 1, id |-> i, filters |-> f,
           qoss |-> <<>>]} :
           i \in Ids, f \in SeqOf({<<>>, <<97>>, <<97, 47>>}, 3)}
Acks ==
  [type : {PUBACK, PUBREC, PUBREL, PUBCOMP}, dup : {0, 1}, id : Ids]
  \cup [type : {CONNACK}, sessionPresent : {0, 1}, connack_rc : {0, 5}]
  \cup [type : {SUBACK}, id : Ids, qoss : SeqOf({0, 2, 128}, 4)]
  \cup [type : {SUBACK}, id : {1}, qoss : {[k \in 1..126 |-> 0]}]
  \cup [type : {UNSUBACK}, id : Ids]
  \cup [type : {PINGREQ, DISCONNECT}]
AllPackets == Connects \cup Publishes \cup Subscribes \cup Acks

AnyFrames ==
  [header : {Header(t, 0, q, 0) : t \in 1..14, q \in 0..2},
   body : SeqOf({0, 1, 3}, 5)]
\* A CONNECT packet with everything in it that ends somewhere in the middle.
ConnectBody ==
  <<0, 4, 77, 81, 84, 84, 4, 246, 0, 60, 0, 1, 99, 0, 1, 97, 0, 1, 98,
    0, 1, 117, 0, 1, 112>>
CutConnects ==
  {[header |-> Header(CONNECT, 0, 0, 0),
    body |-> SubSeq(ConnectBody, 1, size)] :
     size \in 0..Len(ConnectBody)}
\* More filters or answers than the caller has room for, and a cut last one.
ManyMembers ==
  {[header |-> Header(t, 0, 1, 0),
    body |-> <<0, 1>> \o [k \in 1..size |-> IF k % 4 = 2 THEN 1 ELSE 0]] :
     t \in {SUBSCRIBE, UNSUBSCRIBE, SUBACK}, size \in 0..17}
AllFrames == AnyFrames \cup CutConnects \cup ManyMembers
SomeSlack == -3..2

-----------------------------------------------------------------------------
NoPacket ==
  pkt = NotYet /\ room = 0 /\ wire = NoBytes /\ as = 0 /\ in = NotYet

TransportInit ==
  /\ unit \in {"receive", "session", "reader", "blocking", "packet", "topic"}
  /\ ReceiveInit /\ SessionInit /\ BlockingInit
  /\ ReaderInit
  /\ unit = "reader" \/ (len = 0 /\ rem_len = 0 /\ multiplier = 0
                          /\ Sent = CHOOSE s \in Streams : TRUE)
  /\ \/ unit = "packet" /\ PacketInit
     \/ unit # "packet" /\ NoPacket
  /\ unit = "topic" \/ (filter = <<"a">> /\ name = <<"a">>)
  /\ TopicInit

RestOf(u) ==
  /\ UNCHANGED unit
  /\ u # "receive" => UNCHANGED receiveVars
  /\ u # "session" => UNCHANGED sessionVars
  /\ u # "reader" => UNCHANGED readerVars
  /\ u # "blocking" => UNCHANGED blockingVars
  /\ u # "packet" => UNCHANGED packetVars
  /\ u # "topic" => UNCHANGED topicVars

TransportNext ==
  \/ unit = "receive" /\ ReceiveNext /\ RestOf("receive")
  \/ unit = "session" /\ SessionNext /\ RestOf("session")
  \/ unit = "reader" /\ ReaderNext /\ RestOf("reader")
  \/ unit = "blocking" /\ BlockingNext /\ RestOf("blocking")
  \/ unit = "packet" /\ PacketNext /\ RestOf("packet")
  \/ unit = "topic" /\ TopicNext /\ RestOf("topic")

transportVars ==
  <<unit, receiveVars, sessionVars, readerVars, blockingVars, packetVars,
    topicVars>>

\* The fairness of SessionFairSpec, ReaderFairSpec and TopicSpec.
TransportSpec ==
  /\ TransportInit /\ [][TransportNext]_transportVars
  /\ WF_sessionVars(unit = "session" /\ Connecting)
  /\ WF_readerVars(unit = "reader" /\ Progress)
  /\ WF_topicVars(unit = "topic" /\ TopicNext)

(* MQTTPacket_readnb() returns every packet in the end, unless it returns  *)
(* an error.                                                               *)
AllReturned == unit = "reader" => <>(n = Len(Sent) \/ Broken)

(* The loop of isTopicMatched() ends.                                      *)
LoopEnds == unit = "topic" => <>(result # "none")

(* Nothing between client and wire waits for ever.                         *)
TransportProgress == ConnectReturns /\ AllReturned /\ LoopEnds
=============================================================================
