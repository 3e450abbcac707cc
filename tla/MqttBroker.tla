----------------------------- MODULE MqttBroker -----------------------------
(***************************************************************************)
(* What the MQTT clients talk to: packets, a network connection that may   *)
(* break, and a broker, modelled from how the clients use them.            *)
(***************************************************************************)
EXTENDS MqttWire, FiniteSets

CONSTANT Uses  \* the ways a client is built, set up and used, by name

VARIABLES
  use,      \* which of them this is
  net,      \* the network connection and what is under way on it
  broker,   \* the other end
  got       \* how often the broker took each of the client's messages

MaxPublished == Uses[use].published  \* bound: messages the broker sends

\* A packet; what a type does not carry is 0.  CONNECT carries cleansession,
\* CONNACK and SUBACK a return code, PUBLISH a topic and a message.
Packet(type, id, qos, what) ==
  [type |-> type, id |-> id, qos |-> qos, what |-> what, msg |-> 0]
PublishPacket(id, qos, topic, msg) ==
  [Packet(PUBLISH, id, qos, topic) EXCEPT !.msg = msg]
NoPacket == Packet(0, 0, 0, 0)
\* In the place of the QoS: a message that does not fit the read buffer.
TooLong == 3

Incoming == 1..MaxPublished

NewNet == [link |-> "up", up |-> <<>>, down |-> <<>>, junk |-> FALSE,
           fresh |-> TRUE]

-----------------------------------------------------------------------------
(* The broker, as the client uses it.  It keeps subscriptions, publishes   *)
(* not yet acknowledged and the ids of QoS 2 messages it has taken; a      *)
(* session with cleansession ends with its connection, another is found    *)
(* again.                                                                  *)
NoSession == [conn |-> FALSE, clean |-> TRUE, subs |-> {}, out |-> {},
              taken |-> {}, acked |-> {}, sent |-> 0]

\* A publish that waits for its ack, or a QoS 2 one past PUBREC.
Sending(o) == IF o.rel THEN Packet(PUBREL, o.id, 0, 0)
              ELSE PublishPacket(o.id, o.qos, o.topic, o.msg)
Resent(out) ==
  LET ids == {o.id : o \in out}
      of(id) == CHOOSE o \in out : o.id = id
  IN CASE ids = {} -> <<>>
       [] ids = {1, 2} -> <<Sending(of(1)), Sending(of(2))>>
       [] OTHER -> <<Sending(of(CHOOSE id \in ids : TRUE))>>

Answer(b, packets) ==
  /\ broker' = b
  /\ net' = [net EXCEPT !.up = Tail(@), !.down = @ \o packets]
Ack(type, id) == <<Packet(type, id, 0, 0)>>

BrokerAccepts(p) ==
  LET b == IF p.what = 1 \/ broker.clean
           THEN [NoSession EXCEPT !.acked = broker.acked, !.sent = broker.sent]
           ELSE broker
  IN /\ Answer([b EXCEPT !.conn = TRUE, !.clean = (p.what = 1)],
               Ack(CONNACK, 0) \o Resent(b.out))
     /\ UNCHANGED got
BrokerRefuses ==
  /\ net' = [net EXCEPT !.up = <<>>, !.link = "closed",
                        !.down = @ \o <<Packet(CONNACK, 0, 0, 5)>>]
  /\ UNCHANGED <<broker, got>>
BrokerTakesPublish(p) ==
  /\ Answer(IF p.qos = 2 THEN [broker EXCEPT !.taken = @ \cup {p.id}]
            ELSE broker,
            CASE p.qos = 0 -> <<>> [] p.qos = 1 -> Ack(PUBACK, p.id)
              [] OTHER -> Ack(PUBREC, p.id))
  /\ got' = IF p.qos = 2 /\ p.id \in broker.taken THEN got
            ELSE [got EXCEPT ![p.msg] = IF @ = 2 THEN 2 ELSE @ + 1]

\* The acknowledgements of what it has published itself.
BrokerTakesAck(p) ==
  LET o == CHOOSE o \in broker.out : o.id = p.id
      ours == \E o1 \in broker.out : o1.id = p.id
  IN /\ IF p.type = PUBREC /\ ours
        THEN Answer([broker EXCEPT !.out = (@ \ {o}) \cup
                       {[o EXCEPT !.rel = TRUE]}], Ack(PUBREL, p.id))
        ELSE Answer([broker EXCEPT !.out = IF ours THEN @ \ {o} ELSE @,
                       !.acked = IF ours THEN @ \cup {o.msg} ELSE @], <<>>)
     /\ UNCHANGED got

BrokerConnected(p) ==
  \/ p.type = PUBLISH /\ BrokerTakesPublish(p)
  \/ p.type \in {PUBACK, PUBREC, PUBCOMP} /\ BrokerTakesAck(p)
  \/ /\ p.type = PUBREL /\ UNCHANGED got
     /\ Answer([broker EXCEPT !.taken = @ \ {p.id}], Ack(PUBCOMP, p.id))
  \/ /\ p.type = SUBSCRIBE /\ UNCHANGED got
     /\ \/ Answer([broker EXCEPT !.subs = @ \cup {p.what}], Ack(SUBACK, p.id))
        \/ Answer(broker, <<Packet(SUBACK, p.id, 0, 128)>>)
  \/ /\ p.type = UNSUBSCRIBE /\ UNCHANGED got
     /\ Answer([broker EXCEPT !.subs = @ \ {p.what}], Ack(UNSUBACK, p.id))
  \/ /\ p.type = PINGREQ /\ UNCHANGED got
     /\ Answer(broker, Ack(PINGRESP, 0))
BrokerCloses ==
  /\ net' = [net EXCEPT !.up = <<>>, !.link = "closed"]
  /\ UNCHANGED <<broker, got>>

BrokerStep(refuse) ==
  /\ net.link = "up" /\ net.up # <<>>
  /\ LET p == Head(net.up) IN
     \/ p.type = CONNECT /\ BrokerAccepts(p)
     \/ p.type = CONNECT /\ refuse /\ BrokerRefuses
     \/ p.type # CONNECT /\ broker.conn /\ BrokerConnected(p)
     \/ p.type = DISCONNECT /\ BrokerCloses
     \/ p.type \notin {CONNECT, DISCONNECT} /\ ~broker.conn /\ BrokerCloses

BrokerPublishes(topic, qos, long) ==
  LET id == IF qos = 0 THEN 0
            ELSE IF \E o \in broker.out : o.id = 1 THEN 2 ELSE 1
      o == [id |-> id, qos |-> qos, msg |-> broker.sent + 1, topic |-> topic,
            rel |-> FALSE]
  IN /\ net.link = "up" /\ broker.conn /\ topic \in broker.subs
     /\ broker.sent < MaxPublished /\ Cardinality(broker.out) < 2
     /\ net' = [net EXCEPT !.down = Append(@,
                  IF long THEN Packet(PUBLISH, 0, TooLong, 0) ELSE Sending(o))]
     /\ broker' = [broker EXCEPT !.sent = @ + 1,
                     !.out = IF qos = 0 THEN @ ELSE @ \cup {o}]
     /\ UNCHANGED got

\* The connection fails; what is under way may be lost from some point on.
Break(how) ==
  /\ net.link = "up" /\ ~net.fresh
  /\ \E k \in 0..Len(net.down) :
       net' = [net EXCEPT !.link = how, !.up = <<>>,
                          !.down = SubSeq(@, 1, k)]
  /\ UNCHANGED <<broker, got>>
=============================================================================
