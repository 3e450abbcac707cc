------------------------ MODULE MqttDeliverProofs -------------------------
(***************************************************************************)
(* What becomes of the messages the broker sends to the blocking client of *)
(* MQTTClient.h: each is handed on at most once, and none is forgotten by  *)
(* the broker that was not.  The first rests on the packets that a message *)
(* of the broker's has under way: at any time one, or an acknowledgement   *)
(* of it, or neither.                                                      *)
(***************************************************************************)
EXTENDS MqttProofs

\* Every session of a use starts anew; a session outlives its connection and
\* its incoming QoS 2 ids are kept.
Anew == FALSE \notin CleanOptions
Remembers == QOS2Build /\ TRUE \notin CleanOptions

\* What a use must be for its messages to be handed on once: those of QoS 1
\* only in clean sessions, those of QoS 2 in clean sessions or, in the QoS 2
\* build, in sessions that are all kept.
OnceIn(u) ==
  /\ 1 \in Uses[u].inQoS => FALSE \notin Uses[u].clean
  /\ 2 \in Uses[u].inQoS => \/ FALSE \notin Uses[u].clean
                            \/ Uses[u].qos2build /\ TRUE \notin Uses[u].clean
SentOnce == \A u \in DOMAIN Uses : OnceIn(u)

\* The packets a message of the broker's has under way, and their answers.
Acks == Of({PUBACK, PUBREC, PUBCOMP})
Pubs == {p \in Of({PUBLISH}) : p.qos # TooLong}
Msgs == {p \in Of({PUBLISH, PUBREL}) : p.type = PUBREL \/ p.qos \in {1, 2}}
Copies(m) == {p \in Pubs : p.msg = m}
AckFor(o) ==
  Packet(IF o.rel THEN PUBCOMP ELSE IF o.qos = 1 THEN PUBACK ELSE PUBREC,
         o.id, 0, 0)

\* The broker's publishes have ids and messages of their own.
OutFits(b) ==
  /\ b.sent <= MaxPublished
  /\ \A o \in b.out : /\ o.id \in {1, 2} /\ o.qos \in InQoS \ {0}
                      /\ o.msg \in 1..b.sent /\ (o.rel => o.qos = 2)
  /\ \A o, q \in b.out : o.id = q.id \/ o.msg = q.msg => o = q

\* One CONNECT opens a connection, and before it nothing is delivered.
Opened(nn, b) ==
  /\ nn.fresh => nn.up = <<>> /\ nn.down = <<>> /\ ~b.conn
  /\ Once(nn.up, Of({CONNECT}))
  /\ b.conn => Lacks(nn.up, Of({CONNECT}))
  /\ ~b.conn => Lacks(nn.up, Acks) /\ Lacks(nn.down, Pubs \cup Msgs)

\* A publish that waits is on its way, or its acknowledgement is, or neither.
InTransit(nn, b) ==
  /\ Lacks(nn.up, Acks \ {AckFor(o) : o \in b.out})
  /\ Lacks(nn.down, Msgs \ {Sending(o) : o \in b.out})
  /\ \A o \in b.out :
       /\ Once(nn.up, {AckFor(o)}) /\ Once(nn.down, {Sending(o)})
       /\ Lacks(nn.up, {AckFor(o)}) \/ Lacks(nn.down, {Sending(o)})

\* A message is on its way once, as the publish it is; one handed on is not
\* on its way again, or its id is in the table.
Noted(cc, p) == Remembers /\ p.qos = 2 /\ p.id \in cc.qos2ids
Unsent(b) == {p \in Pubs : p.msg \notin 1..b.sent}
Again(cc, sn) == {p \in Pubs : sn[p.msg] > 0 /\ ~Noted(cc, p)}
SeenFits(cc, nn, b, sn) ==
  /\ \A m \in Incoming : sn[m] <= 1 /\ (m > b.sent => sn[m] = 0)
  /\ \A m \in Nat : Once(nn.down, Copies(m))
  /\ Lacks(nn.down, Unsent(b)) /\ Lacks(nn.down, Again(cc, sn))
  /\ \A o \in b.out :
       /\ Lacks(nn.down, Copies(o.msg) \ {Sending(o)})
       /\ ~o.rel /\ sn[o.msg] > 0 => Anew \/ Noted(cc, Sending(o))

\* Sessions of one kind: the broker keeps nothing, or the client does.
KindFits(cc, nn, b) ==
  /\ Anew => Lacks(nn.up, Without(CONNECT, 1))
  /\ Remembers /\ cc.cleansession => nn.fresh /\ b.out = {}

DelFits(cc, nn, b, sn) ==
  /\ OutFits(b) /\ Opened(nn, b) /\ InTransit(nn, b)
  /\ SeenFits(cc, nn, b, sn) /\ KindFits(cc, nn, b)

\* Nothing is called on a network that carries no CONNECT yet.
Unopened == net.fresh => ~c.isconnected /\ call.op = "idle"
DelInv == DelFits(c, net, broker, seen) /\ Unopened

-----------------------------------------------------------------------------
(* Of what the parts of the invariant are made.                            *)

LEMMA MessageTypes ==
  /\ \A p \in Acks : p.type \in {PUBACK, PUBREC, PUBCOMP} /\ p \in Packets
  /\ \A p \in Pubs : p.type \in {PUBLISH} /\ p \in Packets
  /\ \A p \in Msgs : p.type \in {PUBLISH, PUBREL} /\ p \in Packets
BY DEF Acks, Pubs, Msgs, Of

\* The packets of a publish that waits are told from those of the others.
LEMMA AckForIs ==
  ASSUME NEW o \in Outs
  PROVE  /\ AckFor(o) \in Acks /\ AckFor(o) \in Packets /\ AckFor(o).id = o.id
         /\ AckFor(o).type = IF o.rel THEN PUBCOMP
                             ELSE IF o.qos = 1 THEN PUBACK ELSE PUBREC
<1> DEFINE type == IF o.rel THEN PUBCOMP
                   ELSE IF o.qos = 1 THEN PUBACK ELSE PUBREC
<1>1. o.id \in Nat /\ type \in {PUBACK, PUBREC, PUBCOMP}
      /\ AckFor(o) = Packet(type, o.id, 0, 0)
  BY DEF Outs, AckFor
<1> HIDE DEF type
<1>2. /\ AckFor(o) \in Packets /\ AckFor(o).id = o.id /\ AckFor(o).type = type
  BY <1>1 DEF Packet, Packets, PacketFields, PUBACK, PUBREC, PUBCOMP, CONNACK
<1> QED
  BY <1>1, <1>2 DEF Acks, Of, type
LEMMA SendingIs ==
  ASSUME NEW o \in Outs
  PROVE  /\ Sending(o) \in Packets /\ Sending(o).id = o.id
         /\ o.rel => Sending(o).type = PUBREL
         /\ ~o.rel => /\ Sending(o).type = PUBLISH /\ Sending(o).qos = o.qos
                      /\ Sending(o).msg = o.msg /\ Sending(o).what = o.topic
         /\ o.qos # 0 \/ o.rel => Sending(o) \in Msgs
         /\ ~o.rel => Sending(o) \in Pubs
<1>1. /\ o.id \in Nat /\ o.qos \in 0..2 /\ o.msg \in Nat /\ o.topic \in Topics
      /\ o.rel \in BOOLEAN
  BY DEF Outs
<1>2. CASE o.rel
  <2>1. Sending(o) = Packet(PUBREL, o.id, 0, 0)
    BY <1>2 DEF Sending
  <2>2. /\ Sending(o) \in Packets /\ Sending(o).id = o.id
        /\ Sending(o).type = PUBREL
    BY <1>1, <2>1 DEF Packet, Packets, PacketFields, PUBREL, CONNACK
  <2> QED
    BY <1>2, <2>2 DEF Msgs, Of
<1>3. CASE ~o.rel
  <2>1. Sending(o) = PublishPacket(o.id, o.qos, o.topic, o.msg)
    BY <1>3 DEF Sending
  <2>2. /\ Sending(o) \in Packets
        /\ Sending(o) = [type |-> PUBLISH, id |-> o.id, qos |-> o.qos,
                         what |-> o.topic, msg |-> o.msg]
    BY <1>1, <2>1, PacketTypes
  <2>3. o.qos # TooLong /\ (o.qos # 0 => o.qos \in {1, 2})
    BY <1>1 DEF TooLong
  <2> QED
    BY <1>3, <2>2, <2>3 DEF Msgs, Pubs, Of
<1> QED
  BY <1>1, <1>2, <1>3

\* Fewer packets that matter, the same publishes, the table as it was or
\* that of a session that never was opened.
LEMMA DelQuiet ==
  ASSUME NEW cc, NEW dd, NEW nn, NEW mm, NEW b, NEW e, NEW sn,
         DelFits(cc, nn, b, sn),
         Less(nn.up, mm.up, {CONNECT, PUBACK, PUBREC, PUBCOMP}),
         Less(nn.down, mm.down, {PUBLISH, PUBREL}),
         mm.fresh = nn.fresh,
         nn.fresh => mm.up = nn.up /\ mm.down = nn.down,
         dd.cleansession = cc.cleansession,
         dd.qos2ids = cc.qos2ids \/ cc.cleansession,
         e.out = b.out, e.sent = b.sent, e.conn = b.conn
  PROVE  DelFits(dd, mm, e, sn)
<1>1. ASSUME NEW P, \A x \in P : x.type \in {CONNECT, PUBACK, PUBREC, PUBCOMP}
      PROVE  /\ Lacks(nn.up, P) => Lacks(mm.up, P)
             /\ Once(nn.up, P) => Once(mm.up, P)
  BY <1>1 DEF Less
<1>2. ASSUME NEW P, \A x \in P : x.type \in {PUBLISH, PUBREL}
      PROVE  /\ Lacks(nn.down, P) => Lacks(mm.down, P)
             /\ Once(nn.down, P) => Once(mm.down, P)
  BY <1>2 DEF Less
<1>3. OutFits(e)
  BY DEF DelFits, OutFits
<1>4. Opened(mm, e)
  <2>1. /\ Once(mm.up, Of({CONNECT}))
        /\ Lacks(nn.up, Of({CONNECT})) => Lacks(mm.up, Of({CONNECT}))
    <3>1. \A x \in Of({CONNECT}) : x.type \in {CONNECT, PUBACK, PUBREC, PUBCOMP}
      BY DEF Of
    <3> QED
      BY <1>1, <3>1 DEF DelFits, Opened
  <2>2. Lacks(nn.up, Acks) => Lacks(mm.up, Acks)
    BY <1>1, MessageTypes
  <2>3. Lacks(nn.down, Pubs \cup Msgs) => Lacks(mm.down, Pubs \cup Msgs)
    BY <1>2, MessageTypes
  <2> QED
    BY <2>1, <2>2, <2>3 DEF DelFits, Opened
<1>5. InTransit(mm, e)
  <2> DEFINE A == Acks \ {AckFor(o) : o \in b.out}
             M == Msgs \ {Sending(o) : o \in b.out}
  <2>1. Lacks(nn.up, A) /\ Lacks(nn.down, M)
    BY DEF DelFits, InTransit
  <2>2. Lacks(mm.up, A) /\ Lacks(mm.down, M)
    <3>1. A \subseteq Acks /\ M \subseteq Msgs
      OBVIOUS
    <3> HIDE DEF A, M
    <3> QED
      BY <1>1, <1>2, <2>1, <3>1, MessageTypes
  <2>3. ASSUME NEW o \in b.out
        PROVE  /\ Once(mm.up, {AckFor(o)}) /\ Once(mm.down, {Sending(o)})
               /\ Lacks(mm.up, {AckFor(o)}) \/ Lacks(mm.down, {Sending(o)})
    <3>1. /\ Once(nn.up, {AckFor(o)}) /\ Once(nn.down, {Sending(o)})
          /\ Lacks(nn.up, {AckFor(o)}) \/ Lacks(nn.down, {Sending(o)})
      BY DEF DelFits, InTransit
    <3>2. /\ \A x \in {AckFor(o)} :
                 x.type \in {CONNECT, PUBACK, PUBREC, PUBCOMP}
          /\ \A x \in {Sending(o)} : x.type \in {PUBLISH, PUBREL}
      BY DEF AckFor, Sending, Packet, PublishPacket
    <3> QED
      BY <1>1, <1>2, <3>1, <3>2
  <2> QED
    BY <2>2, <2>3 DEF InTransit
<1>6. SeenFits(dd, mm, e, sn)
  <2>1. \A m \in Nat : Once(mm.down, Copies(m))
    <3>1. \A m \in Nat : \A x \in Copies(m) : x.type \in {PUBLISH, PUBREL}
      BY MessageTypes DEF Copies
    <3> QED
      BY <1>2, <3>1 DEF DelFits, SeenFits
  <2>2. Lacks(mm.down, Unsent(e))
    <3>1. \A x \in Unsent(e) : x.type \in {PUBLISH, PUBREL}
      BY MessageTypes DEF Unsent
    <3>2. Lacks(nn.down, Unsent(e))
      BY DEF DelFits, SeenFits, Unsent
    <3> QED
      BY <1>2, <3>1, <3>2
  <2>3. Lacks(nn.down, Again(dd, sn))
        /\ \A o \in e.out :
             ~o.rel /\ sn[o.msg] > 0 => Anew \/ Noted(dd, Sending(o))
    <3>1. CASE dd.qos2ids = cc.qos2ids \/ ~Remembers
      BY <3>1 DEF DelFits, SeenFits, Again, Noted
    <3>2. CASE Remembers /\ cc.cleansession
      <4>1. Len(nn.down) = 0 /\ b.out = {}
        BY <3>2 DEF DelFits, KindFits, Opened
      <4> QED
        BY <4>1 DEF Lacks
    <3> QED
      BY <3>1, <3>2
  <2>4. Lacks(mm.down, Again(dd, sn))
    <3>1. \A x \in Again(dd, sn) : x.type \in {PUBLISH, PUBREL}
      BY MessageTypes DEF Again
    <3> QED
      BY <1>2, <2>3, <3>1
  <2>5. ASSUME NEW o \in e.out
        PROVE  Lacks(mm.down, Copies(o.msg) \ {Sending(o)})
    <3> DEFINE P == Copies(o.msg) \ {Sending(o)}
    <3>1. \A x \in P : x.type \in {PUBLISH, PUBREL}
      BY MessageTypes DEF Copies
    <3>2. Lacks(nn.down, P)
      BY DEF DelFits, SeenFits
    <3> HIDE DEF P
    <3>3. Lacks(mm.down, P)
      BY <1>2, <3>1, <3>2
    <3> QED
      BY <3>3 DEF P
  <2> QED
    BY <2>1, <2>2, <2>3, <2>4, <2>5 DEF DelFits, SeenFits
<1>7. KindFits(dd, mm, e)
  <2>1. \A x \in Without(CONNECT, 1) :
          x.type \in {CONNECT, PUBACK, PUBREC, PUBCOMP}
    BY DEF Without, Of
  <2>2. Lacks(nn.up, Without(CONNECT, 1)) => Lacks(mm.up, Without(CONNECT, 1))
    BY <1>1, <2>1
  <2> QED
    BY <2>2 DEF DelFits, KindFits
<1> QED
  BY <1>3, <1>4, <1>5, <1>6, <1>7 DEF DelFits

-----------------------------------------------------------------------------
(* What one turn of the loop does with a message.                          *)

Answered(p) == Packet(IF p.qos = 1 THEN PUBACK ELSE PUBREC, p.id, 0, 0)
Counted(f, m) == [f EXCEPT ![m] = IF @ = 2 THEN 2 ELSE @ + 1]

\* A QoS 2 message whose id is in the table, or that has no room there, is
\* not handed on.
Tabled(p) == QOS2Build /\ p.qos = 2
Dropped(cc, p) ==
  /\ Tabled(p)
  /\ \/ p.id \in cc.qos2ids
     \/ Cardinality(cc.qos2ids) >= MAX_INCOMING_QOS2_MESSAGES
Heard(cc, p) == p.what \in cc.handlers \/ HasDefault

LEMMA DeliverIs ==
  ASSUME NEW s \in States, NEW p, NEW d, d = deliverMessage(s, p)
  PROVE  /\ d.c = s.c
         /\ d.seen = IF Heard(s.c, p) THEN Counted(s.seen, p.msg) ELSE s.seen
BY DEF deliverMessage, Heard, Counted, States
LEMMA AnsweredIs ==
  ASSUME NEW p \in Packets
  PROVE  /\ Answered(p) \in Packets /\ Answered(p).id = p.id
         /\ Answered(p).type = IF p.qos = 1 THEN PUBACK ELSE PUBREC
<1> DEFINE type == IF p.qos = 1 THEN PUBACK ELSE PUBREC
<1>1. p.id \in Nat /\ type \in {PUBACK, PUBREC}
      /\ Answered(p) = Packet(type, p.id, 0, 0)
  BY DEF Packets, PacketFields, Answered
<1> HIDE DEF type
<1>2. /\ Answered(p) \in Packets /\ Answered(p).id = p.id
      /\ Answered(p).type = type
  BY <1>1 DEF Packet, Packets, PacketFields, PUBACK, PUBREC, CONNACK
<1> QED
  BY <1>2 DEF type

LEMMA CyclePublishIs ==
  ASSUME use \in DOMAIN Uses, NEW s, Good(s), NEW p \in Pubs,
         NEW d, d = cyclePublish(s, p)
  PROVE  /\ d.seen = IF Heard(s.c, p) /\ ~Dropped(s.c, p)
                     THEN Counted(s.seen, p.msg) ELSE s.seen
         /\ d.c.qos2ids = IF Tabled(p) /\ ~Dropped(s.c, p)
                          THEN s.c.qos2ids \cup {p.id} ELSE s.c.qos2ids
         /\ d.net.up = IF p.qos = 0 \/ s.net.link # "up" THEN s.net.up
                       ELSE Append(s.net.up, Answered(p))
<1> DEFINE x == IF QOS2Build /\ p.qos = 2
                THEN useQoS2msgid(s, p) ELSE deliverMessage(s, p)
           b == [s.c EXCEPT !.qos2ids = s.c.qos2ids \cup {p.id}]
           y == [s EXCEPT !.c = b]
<1>1. /\ s \in States /\ s.c \in Sessions /\ p \in Packets /\ p.id \in Nat
      /\ p.qos \in 0..2
  BY DEF Good, States, Pubs, Of, Packets, PacketFields, TooLong
<1>2. /\ x.seen = IF Heard(s.c, p) /\ ~Dropped(s.c, p)
                  THEN Counted(s.seen, p.msg) ELSE s.seen
      /\ x.c.qos2ids = IF Tabled(p) /\ ~Dropped(s.c, p)
                       THEN s.c.qos2ids \cup {p.id} ELSE s.c.qos2ids
      /\ Good(x) /\ x.net = s.net
  <2>1. CASE ~Tabled(p)
    <3>1. x = deliverMessage(s, p) /\ ~Dropped(s.c, p)
      BY <2>1 DEF Tabled, Dropped
    <3> HIDE DEF x
    <3> QED
      BY <1>1, <2>1, <3>1, DeliverIs, DeliverGood
  <2>2. CASE Dropped(s.c, p)
    <3>1. x = s
      BY <2>2 DEF Dropped, Tabled, useQoS2msgid
    <3> QED
      BY <2>2, <3>1
  <2>3. CASE Tabled(p) /\ ~Dropped(s.c, p)
    <3>1. x = deliverMessage(y, p)
      BY <2>3 DEF Dropped, Tabled, useQoS2msgid
    <3>2. /\ b \in Sessions /\ b.handlers = s.c.handlers
          /\ b.qos2ids = s.c.qos2ids \cup {p.id}
      BY <1>1 DEF Sessions
    <3> HIDE DEF b
    <3>3. y \in States /\ y.c = b /\ y.net = s.net /\ y.seen = s.seen
      BY <1>1, <3>2, SetSession
    <3>4. x = useQoS2msgid(s, p)
      BY <2>3 DEF Tabled
    <3> HIDE DEF y, x
    <3>5. /\ x.c = y.c
          /\ x.seen = IF Heard(y.c, p) THEN Counted(y.seen, p.msg) ELSE y.seen
      BY <3>1, <3>3, DeliverIs
    <3>6. Good(x) /\ x.net = s.net
      BY <1>1, <3>4, UseQoS2Good
    <3>7. Heard(y.c, p) = Heard(s.c, p)
      BY <3>2, <3>3 DEF Heard
    <3> QED
      BY <2>3, <3>2, <3>3, <3>5, <3>6, <3>7
  <2> QED
    BY <2>1, <2>2, <2>3
<1>3. d = IF p.qos = 0 THEN x ELSE sendPacket(x, Answered(p))
  BY <1>1 DEF cyclePublish, Answered
<1> HIDE DEF x
<1>4. CASE p.qos = 0
  BY <1>2, <1>3, <1>4
<1>5. CASE p.qos # 0
  <2>1. d = sendPacket(x, Answered(p)) /\ x \in States
    BY <1>2, <1>3, <1>5 DEF Good
  <2>2. Answered(p) \in Packets
    BY <1>1, AnsweredIs
  <2>3. /\ d.c = x.c /\ d.seen = x.seen
        /\ d.net.up = IF x.net.link = "up" THEN Append(x.net.up, Answered(p))
                                           ELSE x.net.up
    BY <2>1, <2>2, SendPacketGood
  <2> QED
    BY <1>2, <1>5, <2>3
<1> QED
  BY <1>4, <1>5

LEMMA CyclePubrelIs ==
  ASSUME use \in DOMAIN Uses, NEW s, Good(s), NEW p \in Packets,
         NEW d, d = cyclePubrel(s, p),
         NEW q, q = Packet(IF p.type = PUBREC THEN PUBREL ELSE PUBCOMP,
                           p.id, 0, 0)
  PROVE  /\ d.seen = s.seen
         /\ d.c.qos2ids = IF p.type = PUBREL /\ s.net.link # "closed"
                          THEN s.c.qos2ids \ {p.id} ELSE s.c.qos2ids
         /\ d.net.up = IF s.net.link # "up" THEN s.net.up
                       ELSE Append(s.net.up, q)
<1> DEFINE x == sendPacket(s, q)
<1>1. q \in Packets
  BY DEF Packet, Packets, PacketFields, PUBREL, PUBCOMP, CONNACK
<1>2. d = IF p.type = PUBREL /\ x.rc = SUCCESS
          THEN [x EXCEPT !.c.qos2ids = @ \ {p.id}] ELSE x
  BY DEF cyclePubrel
<1>3. s \in States /\ SUCCESS # FAILURE
  BY DEF Good, SUCCESS, FAILURE
<1>4. /\ x \in States /\ x.c = s.c /\ x.seen = s.seen
      /\ x.rc \in {SUCCESS, FAILURE}
      /\ x.rc = FAILURE <=> s.net.link = "closed"
      /\ x.net.up = IF s.net.link = "up" THEN Append(s.net.up, q)
                                         ELSE s.net.up
  BY <1>1, <1>3, SendPacketGood
<1> HIDE DEF x
<1>5. CASE ~(p.type = PUBREL /\ x.rc = SUCCESS)
  BY <1>2, <1>3, <1>4, <1>5
<1>6. CASE p.type = PUBREL /\ x.rc = SUCCESS
  <2> DEFINE b == [x.c EXCEPT !.qos2ids = x.c.qos2ids \ {p.id}]
  <2>1. d = [x EXCEPT !.c = b]
    BY <1>2, <1>6
  <2>2. b \in Sessions /\ b.qos2ids = x.c.qos2ids \ {p.id}
    BY <1>4 DEF Sessions, States
  <2> HIDE DEF b
  <2>3. d.c = b /\ d.seen = x.seen /\ d.net = x.net
    BY <1>4, <2>1, <2>2, SetSession
  <2> QED
    BY <1>3, <1>4, <1>6, <2>2, <2>3
<1> QED
  BY <1>5, <1>6

Ping == Packet(PINGREQ, 0, 0, 0)
LEMMA PingIs == Ping \in Packets /\ Ping.type = PINGREQ
BY DEF Ping, Packet, Packets, PacketFields, PINGREQ, CONNACK
LEMMA KeepaliveIs ==
  ASSUME use \in DOMAIN Uses, NEW s, Good(s), NEW d, d = keepalive(s)
  PROVE  /\ d.seen = s.seen /\ d.c.qos2ids = s.c.qos2ids
         /\ d.net.up \in {s.net.up, Append(s.net.up, Ping)}
<1>1. s \in States
  BY DEF Good
<1> DEFINE x == sendPacket(s, Ping)
<1>2. /\ x \in States /\ x.c = s.c /\ x.seen = s.seen
      /\ x.net.up \in {s.net.up, Append(s.net.up, Ping)}
  BY <1>1, PingIs, SendPacketGood
<1>3. ASSUME d = pingSent(s) PROVE
        /\ d.seen = s.seen /\ d.c.qos2ids = s.c.qos2ids
        /\ d.net.up \in {s.net.up, Append(s.net.up, Ping)}
  <2>1. \/ d = x
        \/ d = [x EXCEPT !.c.ping_outstanding = TRUE, !.t.ping = KeepAlive,
                         !.closed = [why |-> "no", waited |-> 0]]
    BY <1>3 DEF pingSent, Ping
  <2> DEFINE b == [x.c EXCEPT !.ping_outstanding = TRUE]
             y == [x EXCEPT !.c = b]
  <2>2. x.c \in Sessions /\ b \in Sessions /\ b.qos2ids = x.c.qos2ids
    BY <1>2 DEF States, Sessions
  <2>3. \/ d = x
        \/ d = [y EXCEPT !.t.ping = KeepAlive,
                         !.closed = [why |-> "no", waited |-> 0]]
    BY <2>1
  <2> HIDE DEF x, b
  <2>4. y \in States /\ y.c = b /\ y.seen = x.seen /\ y.net = x.net
    BY <1>2, <2>2, SetSession
  <2> HIDE DEF y
  <2>5. d = x \/ (d.c = y.c /\ d.seen = y.seen /\ d.net = y.net)
    BY <2>3, <2>4 DEF States
  <2> QED
    BY <1>2, <2>2, <2>4, <2>5
<1>4. \/ d = pingSent(s) \/ d = s
      \/ d = [s EXCEPT !.rc = FAILURE, !.closed.why = "ping"]
  BY UseTypes DEF keepalive
<1>5. CASE d = s
  BY <1>5
<1>6. CASE d = [s EXCEPT !.rc = FAILURE, !.closed.why = "ping"]
  <2>1. d.seen = s.seen /\ d.c = s.c /\ d.net = s.net
    BY <1>1, <1>6 DEF States
  <2> QED
    BY <2>1
<1> QED
  BY <1>3, <1>4, <1>5, <1>6
LEMMA CloseSessionIs ==
  ASSUME NEW s, Good(s), NEW d, d = closeSession(s)
  PROVE  /\ d.seen = s.seen /\ d.net = s.net
         /\ d.c.qos2ids = IF s.c.cleansession THEN {} ELSE s.c.qos2ids
BY DEF closeSession, cleanSession, Good, States, Sessions

\* A packet that is read as what it is fits the buffer, on a stream that is
\* packets still.
LEMMA ReadIs ==
  ASSUME net \in Nets, NEW r \in readPacket, r.type \in 2..14
  PROVE  ~net.junk /\ ~r.net.junk /\ r.p.qos # TooLong
<1>1. CASE net.junk
  BY <1>1 DEF readPacket, Nets
<1>2. CASE ~net.junk /\ net.down = <<>>
  BY <1>2 DEF readPacket, FAILURE
<1>3. CASE ~net.junk /\ net.down # <<>>
  <2> DEFINE p == Head(net.down)
             whole == [net EXCEPT !.down = Tail(@)]
             broken == [net EXCEPT !.down = <<>>, !.junk = TRUE]
  <2>1. whole.junk = net.junk
    BY DEF Nets
  <2>2. \/ r = [type |-> BUFFER_OVERFLOW, p |-> p, net |-> broken]
        \/ r = [type |-> 1, p |-> p, net |-> broken]
        \/ /\ r = [type |-> p.type, p |-> p, net |-> whole]
           /\ p.qos # TooLong
    BY <1>3 DEF readPacket
  <2> HIDE DEF p, whole, broken
  <2>3. CASE \/ r = [type |-> BUFFER_OVERFLOW, p |-> p, net |-> broken]
             \/ r = [type |-> 1, p |-> p, net |-> broken]
    BY <2>3 DEF BUFFER_OVERFLOW
  <2>4. CASE r = [type |-> p.type, p |-> p, net |-> whole] /\ p.qos # TooLong
    BY <1>3, <2>1, <2>4
  <2> QED
    BY <2>2, <2>3, <2>4
<1> QED
  BY <1>1, <1>2, <1>3

\* What is done with a packet before the keep-alive is looked at.
ReadsPublish(p, x) ==
  /\ x.seen = IF Heard(c, p) /\ ~Dropped(c, p) THEN Counted(seen, p.msg)
              ELSE seen
  /\ x.c.qos2ids = IF Tabled(p) /\ ~Dropped(c, p)
                   THEN c.qos2ids \cup {p.id} ELSE c.qos2ids
  /\ x.net.up = IF p.qos = 0 \/ net.link # "up" THEN net.up
                ELSE Append(net.up, Answered(p))
ReadsPubrel(p, x) ==
  /\ x.seen = seen
  /\ x.c.qos2ids = IF net.link # "closed" THEN c.qos2ids \ {p.id}
                   ELSE c.qos2ids
  /\ x.net.up = IF net.link # "up" THEN net.up
                ELSE Append(net.up, Packet(PUBCOMP, p.id, 0, 0))
ReadsOther(p, x) ==
  /\ x.seen = seen /\ x.c.qos2ids = c.qos2ids
  /\ \/ x.net.up = net.up
     \/ QOS2Build /\ x.net.up = Append(net.up, Packet(PUBREL, p.id, 0, 0))
Reads(r, x) ==
  /\ Good(x) /\ x.net.down = r.net.down
  /\ \/ r.type = PUBLISH /\ r.p \in Pubs /\ ReadsPublish(r.p, x)
     \/ r.type = PUBREL /\ QOS2Build /\ ReadsPubrel(r.p, x)
     \/ r.type # PUBLISH /\ (r.type = PUBREL => ~QOS2Build)
        /\ ReadsOther(r.p, x)

LEMMA CycleIs ==
  ASSUME use \in DOMAIN Uses, Good(S), NEW r \in readPacket,
         NEW s, s = cycle(r)
  PROVE  \E x : /\ Reads(r, x) /\ s.seen = x.seen
                /\ s.net.down = x.net.down
                /\ s.net.up \in {x.net.up, Append(x.net.up, Ping)}
                /\ \/ /\ s.c.qos2ids = x.c.qos2ids
                      /\ c.cleansession =>
                           s.c.isconnected = c.isconnected
                   \/ /\ c.cleansession /\ ~s.c.isconnected
                      /\ s.c.qos2ids = {}
<1> DEFINE e == [t EXCEPT !.received = IF r.type > 1 /\ r.p.type # 0
                                       THEN KeepAlive ELSE @]
           y == [S EXCEPT !.net = r.net]
           s0 == [y EXCEPT !.t = e]
           s1 == CASE r.type = PUBLISH -> cyclePublish(s0, r.p)
                   [] r.type \in {PUBREC, PUBREL} -> cyclePubrel(s0, r.p)
                   [] r.type = PINGRESP ->
                        [s0 EXCEPT !.c.ping_outstanding = FALSE]
                   [] OTHER -> s0
           s2 == IF r.type \notin Handled THEN [s0 EXCEPT !.rc = r.type]
                 ELSE IF s1.rc = FAILURE THEN s1
                 ELSE keepalive(s1)
<1>1. /\ S \in States /\ S.c = c /\ S.t = t /\ S.net = net /\ S.seen = seen
      /\ S.closed = closed /\ S.rc = SUCCESS
  BY DEF Good, S
<1>2. /\ net \in Nets /\ t \in Timers /\ c \in Sessions /\ KeepAlive \in Nat
      /\ net.up \in Seq(Packets)
  BY <1>1, UseTypes DEF States, Nets
<1>3. /\ r.net \in Nets /\ r.p \in Packets /\ r.type \in -2..15
      /\ r.net.link = net.link /\ r.net.up = net.up
      /\ r.type \in 2..14 => r.p.type = r.type /\ r.p.qos # TooLong
  BY <1>2, ReadGood, ReadIs
<1>4. e \in Timers /\ e["ping"] = t["ping"]
  BY <1>2 DEF Timers
<1>5. /\ y \in States /\ y.net = r.net /\ y.c = c /\ y.t = t
      /\ y.seen = seen /\ y.closed = closed /\ y.rc = SUCCESS
  BY <1>1, <1>3, SetNet
<1>6. s = IF s2.rc = SUCCESS THEN [s2 EXCEPT !.rc = r.type]
          ELSE IF s2.c.isconnected THEN closeSession(s2) ELSE s2
  <2>1. s0 = [S EXCEPT !.net = r.net,
                       !.t.received = IF r.type > 1 /\ r.p.type # 0
                                      THEN KeepAlive ELSE @]
    BY DEF S
  <2> HIDE DEF s0
  <2> QED
    BY <2>1 DEF cycle
<1> HIDE DEF e, y
<1>7. /\ s0 \in States /\ s0.t = e /\ s0.c = c /\ s0.net = r.net
      /\ s0.seen = seen /\ s0.closed = closed /\ s0.rc = SUCCESS
  BY <1>4, <1>5, SetTimers
<1> HIDE DEF s0
<1>8. Good(s0)
  BY <1>1, <1>4, <1>7 DEF Good, TablesFit, PingFits
<1>9. ReadsOther(r.p, s0)
  BY <1>3, <1>7 DEF ReadsOther
<1>10. \E x : /\ Reads(r, x) /\ s2.seen = x.seen /\ Good(s2)
              /\ s2.net.down = x.net.down
              /\ s2.net.up \in {x.net.up, Append(x.net.up, Ping)}
              /\ s2.c.qos2ids = x.c.qos2ids
              /\ s2.c.cleansession = c.cleansession
              /\ s2.c.isconnected = c.isconnected
  <2>1. CASE r.type \notin Handled
    <3>1. s2 = [s0 EXCEPT !.rc = r.type]
      BY <2>1
    <3>2. Reads(r, s0)
      <4>1. r.type # PUBLISH /\ (r.type = PUBREL => ~QOS2Build)
        BY <2>1 DEF Handled
      <4> QED
        BY <1>7, <1>8, <1>9, <4>1 DEF Reads
    <3> HIDE DEF s2
    <3>3. /\ s2 \in States /\ s2.c = s0.c /\ s2.t = s0.t /\ s2.net = s0.net
          /\ s2.seen = s0.seen /\ s2.closed = s0.closed
      BY <1>3, <1>7, <3>1, SetRc
    <3>4. Good(s2)
      BY <1>8, <3>3 DEF Good, TablesFit, PingFits
    <3> QED
      BY <1>7, <3>2, <3>3, <3>4
  <2>2. CASE r.type \in Handled
    <3>1. /\ Reads(r, s1) /\ s1.c.cleansession = c.cleansession
          /\ s1.c.isconnected = c.isconnected
          /\ s1.rc \in {SUCCESS, FAILURE}
      <4>1. CASE r.type = PUBLISH
        <5>1. s1 = cyclePublish(s0, r.p)
          BY <4>1 DEF PUBLISH, PUBREC, PUBREL, PINGRESP
        <5>2. r.p \in Pubs /\ r.p \in Packets
          BY <1>3, <4>1 DEF Pubs, Of, PUBLISH
        <5> HIDE DEF s1
        <5>3. /\ Good(s1) /\ Same(s0, s1) /\ s1.rc \in {SUCCESS, FAILURE}
          BY <1>3, <1>7, <1>8, <5>1, <5>2, CyclePublishGood
        <5>4. /\ s1.seen = IF Heard(s0.c, r.p) /\ ~Dropped(s0.c, r.p)
                           THEN Counted(s0.seen, r.p.msg) ELSE s0.seen
              /\ s1.c.qos2ids = IF Tabled(r.p) /\ ~Dropped(s0.c, r.p)
                                THEN s0.c.qos2ids \cup {r.p.id}
                                ELSE s0.c.qos2ids
              /\ s1.net.up = IF r.p.qos = 0 \/ s0.net.link # "up"
                             THEN s0.net.up
                             ELSE Append(s0.net.up, Answered(r.p))
          BY <1>8, <5>1, <5>2, CyclePublishIs
        <5>5. ReadsPublish(r.p, s1)
          BY <1>3, <1>7, <5>4 DEF ReadsPublish
        <5> QED
          BY <1>7, <4>1, <5>2, <5>3, <5>5 DEF Reads, Same
      <4>2. CASE r.type \in {PUBREC, PUBREL}
        <5>1. s1 = cyclePubrel(s0, r.p) /\ QOS2Build
          BY <2>2, <4>2 DEF Handled, PUBLISH, PUBREC, PUBREL, CONNACK, PUBACK,
                            SUBACK, UNSUBACK, PINGRESP
        <5> HIDE DEF s1
        <5>2. /\ Good(s1) /\ Same(s0, s1) /\ s1.rc \in {SUCCESS, FAILURE}
          BY <1>3, <1>8, <5>1, CyclePubrelGood
        <5> DEFINE q == Packet(IF r.p.type = PUBREC THEN PUBREL ELSE PUBCOMP,
                               r.p.id, 0, 0)
        <5>0. q = Packet(IF r.p.type = PUBREC THEN PUBREL ELSE PUBCOMP,
                         r.p.id, 0, 0)
          OBVIOUS
        <5>a. /\ use \in DOMAIN Uses /\ Good(s0) /\ r.p \in Packets
              /\ s1 = cyclePubrel(s0, r.p)
          BY <1>3, <1>8, <5>1
        <5> HIDE DEF q
        <5>3. /\ s1.seen = s0.seen
              /\ s1.c.qos2ids =
                   IF r.p.type = PUBREL /\ s0.net.link # "closed"
                   THEN s0.c.qos2ids \ {r.p.id} ELSE s0.c.qos2ids
              /\ s1.net.up = IF s0.net.link # "up" THEN s0.net.up
                             ELSE Append(s0.net.up, q)
          BY <5>0, <5>a, CyclePubrelIs
        <5>4. r.p.type = r.type /\ r.type # PUBLISH
          BY <1>3, <4>2 DEF PUBREC, PUBREL, PUBLISH
        <5>5. CASE r.type = PUBREL
          <6>1. q = Packet(PUBCOMP, r.p.id, 0, 0)
            BY <5>0, <5>4, <5>5 DEF PUBREC, PUBREL
          <6>2. ReadsPubrel(r.p, s1)
            BY <1>3, <1>7, <5>3, <5>4, <5>5, <6>1 DEF ReadsPubrel
          <6> QED
            BY <1>7, <5>1, <5>2, <5>5, <6>2 DEF Reads, Same
        <5>6. CASE r.type = PUBREC
          <6>1. q = Packet(PUBREL, r.p.id, 0, 0) /\ r.type # PUBREL
            BY <5>0, <5>4, <5>6 DEF PUBREC, PUBREL
          <6>2. ReadsOther(r.p, s1)
            BY <1>3, <1>7, <5>1, <5>3, <5>4, <6>1 DEF ReadsOther
          <6> QED
            BY <1>7, <5>2, <5>4, <6>1, <6>2 DEF Reads, Same
        <5> QED
          BY <4>2, <5>5, <5>6
      <4>3. CASE r.type = PINGRESP
        <5> DEFINE b == [s0.c EXCEPT !.ping_outstanding = FALSE]
        <5>1. s1 = [s0 EXCEPT !.c = b]
          BY <4>3 DEF PUBLISH, PUBREC, PUBREL, PINGRESP
        <5>2. /\ b \in Sessions /\ b.cleansession = c.cleansession
              /\ b.isconnected = c.isconnected
              /\ b.handlers = c.handlers /\ b.qos2ids = c.qos2ids
              /\ ~b.ping_outstanding
          BY <1>2, <1>7 DEF Sessions
        <5> HIDE DEF b, s1
        <5>3. /\ s1 \in States /\ s1.c = b /\ s1.t = s0.t /\ s1.net = s0.net
              /\ s1.seen = s0.seen /\ s1.closed = s0.closed /\ s1.rc = s0.rc
          BY <1>7, <5>1, <5>2, SetSession
        <5>4. Good(s1)
          BY <1>7, <1>8, <5>2, <5>3 DEF TablesFit, PingFits, Good
        <5>5. ReadsOther(r.p, s1)
          BY <1>7, <1>9, <5>2, <5>3 DEF ReadsOther
        <5>6. r.type # PUBLISH /\ r.type # PUBREL
          BY <4>3 DEF PUBLISH, PUBREL, PINGRESP
        <5> QED
          BY <1>7, <5>2, <5>3, <5>4, <5>5, <5>6 DEF Reads
      <4>4. CASE r.type \notin {PUBLISH, PUBREC, PUBREL, PINGRESP}
        <5>1. s1 = s0
          BY <4>4
        <5> QED
          BY <1>7, <1>8, <1>9, <4>4, <5>1 DEF Reads
      <4> QED
        BY <4>1, <4>2, <4>3, <4>4
    <3> HIDE DEF s1
    <3>2. Good(s1)
      BY <3>1 DEF Reads
    <3>3. CASE s1.rc = FAILURE
      <4>1. s2 = s1
        BY <2>2, <3>3
      <4> QED
        BY <3>1, <3>2, <4>1
    <3>4. CASE s1.rc # FAILURE
      <4>1. s2 = keepalive(s1)
        BY <2>2, <3>4
      <4> HIDE DEF s2
      <4>2. /\ s2.seen = s1.seen /\ s2.c.qos2ids = s1.c.qos2ids
            /\ s2.net.up \in {s1.net.up, Append(s1.net.up, Ping)}
        BY <3>2, <4>1, KeepaliveIs
      <4>3. s1.net.up \in Seq(Packets)
        BY <3>2 DEF Good, States, Nets
      <4>4. Adds(s1.net.up, s1.net.up, r.p)
        BY <4>3, AddsNothing
      <4>5. Good(s2) /\ Same(s1, s2)
        BY <3>1, <3>2, <4>1, <4>3, <4>4, KeepaliveGood
      <4> QED
        BY <3>1, <4>2, <4>5 DEF Same
    <3> QED
      BY <3>3, <3>4
  <2> QED
    BY <2>1, <2>2
<1> HIDE DEF s2
<1>11. PICK x : /\ Reads(r, x) /\ s2.seen = x.seen /\ Good(s2)
                /\ s2.net.down = x.net.down
                /\ s2.net.up \in {x.net.up, Append(x.net.up, Ping)}
                /\ s2.c.qos2ids = x.c.qos2ids
                /\ s2.c.cleansession = c.cleansession
                /\ s2.c.isconnected = c.isconnected
  BY <1>10
<1>12. CASE s2.rc = SUCCESS
  <2>1. s = [s2 EXCEPT !.rc = r.type] /\ s2 \in States
    BY <1>6, <1>11, <1>12 DEF Good
  <2>2. s.seen = s2.seen /\ s.net = s2.net /\ s.c = s2.c
    BY <1>3, <2>1, SetRc
  <2> QED
    BY <1>11, <2>2
<1>13. CASE s2.rc # SUCCESS /\ s2.c.isconnected
  <2>1. s = closeSession(s2)
    BY <1>6, <1>13
  <2>2. /\ s.seen = s2.seen /\ s.net = s2.net
        /\ s.c.qos2ids = IF s2.c.cleansession THEN {} ELSE s2.c.qos2ids
    BY <1>11, <2>1, CloseSessionIs
  <2>3. ~s.c.isconnected
    BY <1>11, <2>1, CloseSessionGood
  <2> QED
    BY <1>11, <2>2, <2>3
<1>14. CASE s2.rc # SUCCESS /\ ~s2.c.isconnected
  <2>1. s = s2
    BY <1>6, <1>14
  <2> QED
    BY <1>11, <2>1
<1> QED
  BY <1>12, <1>13, <1>14

\* A publish that was on its way is read, and its acknowledgement may be sent.
LEMMA TransitReads ==
  ASSUME NEW nn \in Nets, NEW b \in Brokers, OutFits(b), InTransit(nn, b),
         nn.down # <<>>, NEW o \in b.out, Head(nn.down) = Sending(o),
         NEW mm, mm.down = Tail(nn.down),
         mm.up \in {nn.up, Append(nn.up, AckFor(o))}
  PROVE  InTransit(mm, b)
<1>1. /\ nn.up \in Seq(Packets) /\ nn.down \in Seq(Packets)
      /\ \A q \in b.out : q \in Outs
  BY WiresAre DEF Brokers
<1>2. \A q \in b.out : AckFor(q) \in Packets /\ AckFor(q).id = q.id
  BY <1>1, AckForIs
<1>3. Lacks(mm.up, Acks \ {AckFor(q) : q \in b.out})
  <2> DEFINE A == Acks \ {AckFor(q) : q \in b.out}
  <2>1. Lacks(nn.up, A) /\ AckFor(o) \notin A
    BY DEF InTransit
  <2> HIDE DEF A
  <2>2. Lacks(Append(nn.up, AckFor(o)), A)
    BY <1>1, <1>2, <2>1, LacksMore
  <2> QED
    BY <2>1, <2>2 DEF A
<1>4. Lacks(mm.down, Msgs \ {Sending(q) : q \in b.out})
  <2> DEFINE M == Msgs \ {Sending(q) : q \in b.out}
  <2>1. Lacks(nn.down, M)
    BY DEF InTransit
  <2> HIDE DEF M
  <2>2. Lacks(Tail(nn.down), M)
    BY <1>1, <2>1, LacksLess
  <2> QED
    BY <2>2 DEF M
<1>5. ASSUME NEW q \in b.out
      PROVE  /\ Once(mm.up, {AckFor(q)}) /\ Once(mm.down, {Sending(q)})
             /\ Lacks(mm.up, {AckFor(q)}) \/ Lacks(mm.down, {Sending(q)})
  <2>1. /\ Once(nn.up, {AckFor(q)}) /\ Once(nn.down, {Sending(q)})
        /\ Lacks(nn.up, {AckFor(q)}) \/ Lacks(nn.down, {Sending(q)})
    BY DEF InTransit
  <2>2. /\ Once(mm.down, {Sending(q)})
        /\ Lacks(nn.down, {Sending(q)}) => Lacks(mm.down, {Sending(q)})
    BY <1>1, <2>1, LacksLess, OnceLess
  <2>3. CASE q = o
    <3>1. Head(nn.down) \in {Sending(q)}
      BY <2>3
    <3>2. Lacks(mm.down, {Sending(q)})
      BY <1>1, <2>1, <3>1, OnceLess
    <3>3. Lacks(nn.up, {AckFor(q)})
      BY <2>1, <3>1, FirstIs
    <3>4. Once(Append(nn.up, AckFor(o)), {AckFor(q)})
      BY <1>1, <1>2, <3>3, LacksMore
    <3> QED
      BY <2>1, <2>2, <3>2, <3>4
  <2>4. CASE q # o
    <3>1. AckFor(o) \notin {AckFor(q)}
      BY <1>2, <2>4 DEF OutFits
    <3>2. /\ Once(Append(nn.up, AckFor(o)), {AckFor(q)})
          /\ Lacks(nn.up, {AckFor(q)}) =>
               Lacks(Append(nn.up, AckFor(o)), {AckFor(q)})
      BY <1>1, <1>2, <2>1, <3>1, LacksMore, OnceMore
    <3> QED
      BY <2>1, <2>2, <3>2
  <2> QED
    BY <2>3, <2>4
<1> QED
  BY <1>3, <1>4, <1>5 DEF InTransit

\* What is read of the packets that matter is a publish that waits.
LEMMA FirstSending ==
  ASSUME NEW nn \in Nets, NEW b \in Brokers, InTransit(nn, b),
         nn.down # <<>>, Head(nn.down) \in Msgs
  PROVE  \E o \in b.out : Head(nn.down) = Sending(o)
<1> DEFINE M == Msgs \ {Sending(q) : q \in b.out}
<1>1. Lacks(nn.down, M)
  BY DEF InTransit
<1> HIDE DEF M
<1>2. Head(nn.down) \notin M
  BY <1>1, FirstIs
<1> QED
  BY <1>2 DEF M

\* An acknowledgement is sent on a connection that is open already.
LEMMA OpenedReads ==
  ASSUME NEW nn \in Nets, NEW b, Opened(nn, b), nn.down # <<>>,
         Head(nn.down) \in Pubs \cup Msgs,
         NEW mm, mm.fresh = nn.fresh, NEW a \in Packets, a.type # CONNECT,
         mm.up \in {nn.up, Append(nn.up, a)}
  PROVE  Opened(mm, b) /\ ~nn.fresh /\ b.conn
<1>1. nn.up \in Seq(Packets)
  BY WiresAre
<1>2. b.conn
  BY FirstIs DEF Opened
<1>3. a \notin Of({CONNECT})
  BY DEF Of
<1>4. Once(mm.up, Of({CONNECT})) /\ Lacks(mm.up, Of({CONNECT}))
  BY <1>1, <1>2, <1>3, LacksMore, OnceMore DEF Opened
<1> QED
  BY <1>2, <1>4 DEF Opened

\* A message is read: it is handed on for the first time, or not at all.
LEMMA SeenReads ==
  ASSUME OnceIn(use), TypeInv, DelFits(c, net, broker, seen), net.down # <<>>,
         NEW p \in Pubs, p = Head(net.down),
         NEW dd, NEW mm, NEW sn, mm.down = Tail(net.down),
         sn = IF Heard(c, p) /\ ~Dropped(c, p) THEN Counted(seen, p.msg)
              ELSE seen,
         dd.qos2ids = IF Tabled(p) /\ ~Dropped(c, p)
                      THEN c.qos2ids \cup {p.id} ELSE c.qos2ids
  PROVE  SeenFits(dd, mm, broker, sn)
<1>1. /\ net \in Nets /\ broker \in Brokers /\ seen \in [Incoming -> 0..2]
      /\ net.down \in Seq(Packets) /\ use \in DOMAIN Uses
      /\ MaxPublished \in Nat /\ broker.sent \in Nat
      /\ \A o \in broker.out : o \in Outs
  BY StateParts, WiresAre, UseTypes DEF TypeInv, ClientFits, BrokerFits, Brokers
<1>2. /\ OutFits(broker) /\ InTransit(net, broker)
      /\ SeenFits(c, net, broker, seen)
  BY DEF DelFits
<1>3. p.msg \in 1..broker.sent /\ p.msg \in Incoming
  <2>1. p \notin Unsent(broker)
    BY <1>1, <1>2, FirstIs DEF SeenFits
  <2>2. p.msg \in 1..broker.sent
    BY <2>1 DEF Unsent
  <2> QED
    BY <1>1, <1>2, <2>2 DEF OutFits, Incoming
<1>4. seen[p.msg] = 0 \/ Noted(c, p)
  <2>1. p \notin Again(c, seen)
    BY <1>1, <1>2, FirstIs DEF SeenFits
  <2>2. ~(seen[p.msg] > 0) \/ Noted(c, p)
    BY <2>1 DEF Again
  <2>3. seen[p.msg] \in 0..2
    BY <1>1, <1>3
  <2> QED
    BY <2>2, <2>3
<1>5. Noted(c, p) => Dropped(c, p)
  BY DEF Noted, Dropped, Tabled, Remembers
<1>6. \A m \in Incoming :
        /\ sn[m] = seen[m] \/ (m = p.msg /\ sn[m] = 1 /\ seen[m] = 0)
        /\ sn[m] \in 0..2 /\ seen[m] \in 0..2
  <2>1. CASE Heard(c, p) /\ ~Dropped(c, p)
    <3>1. sn = Counted(seen, p.msg) /\ seen[p.msg] = 0
      BY <1>4, <1>5, <2>1
    <3> DEFINE n == IF seen[p.msg] = 2 THEN 2 ELSE seen[p.msg] + 1
    <3>2. n = 1
      BY <3>1
    <3>3. sn = [seen EXCEPT ![p.msg] = n]
      BY <3>1 DEF Counted
    <3> HIDE DEF n
    <3> QED
      BY <1>1, <1>3, <3>1, <3>2, <3>3
  <2>2. CASE ~(Heard(c, p) /\ ~Dropped(c, p))
    BY <1>1, <2>2
  <2> QED
    BY <2>1, <2>2
<1>7. \A q : Noted(c, q) => Noted(dd, q)
  BY DEF Noted
<1>8. \A m \in Incoming : sn[m] <= 1 /\ (m > broker.sent => sn[m] = 0)
  <2> SUFFICES ASSUME NEW m \in Incoming
               PROVE  sn[m] <= 1 /\ (m > broker.sent => sn[m] = 0)
    OBVIOUS
  <2>1. seen[m] <= 1 /\ (m > broker.sent => seen[m] = 0)
    BY <1>2 DEF SeenFits
  <2> QED
    BY <1>1, <1>3, <1>6, <2>1
<1>9. \A m \in Nat : Once(mm.down, Copies(m))
  BY <1>1, <1>2, OnceLess DEF SeenFits
<1>10. Lacks(mm.down, Unsent(broker))
  BY <1>1, <1>2, LacksLess DEF SeenFits
<1>11. Lacks(mm.down, Again(dd, sn))
  <2>1. Lacks(mm.down, Copies(p.msg))
    <3>1. p.msg \in Nat /\ p \in Copies(p.msg)
      BY <1>1, <1>3 DEF Copies
    <3>2. Once(net.down, Copies(p.msg))
      BY <1>2, <3>1 DEF SeenFits
    <3> QED
      BY <1>1, <3>1, <3>2, OnceLess
  <2>2. Lacks(mm.down, Again(c, seen))
    BY <1>1, <1>2, LacksLess DEF SeenFits
  <2>3. Again(dd, sn) \subseteq
          Again(c, seen) \cup Copies(p.msg) \cup Unsent(broker)
    <3> SUFFICES ASSUME NEW q \in Again(dd, sn), q \notin Copies(p.msg),
                        q \notin Unsent(broker)
                 PROVE  q \in Again(c, seen)
      OBVIOUS
    <3>1. q \in Pubs /\ sn[q.msg] > 0 /\ ~Noted(dd, q) /\ q.msg # p.msg
          /\ q.msg \in 1..broker.sent
      BY DEF Again, Copies, Unsent
    <3>2. q.msg \in Incoming
      BY <1>1, <1>2, <3>1 DEF OutFits, Incoming
    <3> QED
      BY <1>6, <1>7, <3>1, <3>2 DEF Again
  <2> QED
    BY <1>10, <2>1, <2>2, <2>3 DEF Lacks
<1>12. ASSUME NEW o \in broker.out
       PROVE  /\ Lacks(mm.down, Copies(o.msg) \ {Sending(o)})
              /\ ~o.rel /\ sn[o.msg] > 0 => Anew \/ Noted(dd, Sending(o))
  <2>1. Lacks(net.down, Copies(o.msg) \ {Sending(o)})
        /\ (~o.rel /\ seen[o.msg] > 0 => Anew \/ Noted(c, Sending(o)))
    BY <1>2 DEF SeenFits
  <2>2. Lacks(mm.down, Copies(o.msg) \ {Sending(o)})
    BY <1>1, <2>1, LacksLess
  <2>3. ASSUME ~o.rel, sn[o.msg] > 0, ~Anew PROVE Noted(dd, Sending(o))
    <3>1. o.msg \in Incoming
      BY <1>1, <1>2 DEF OutFits, Incoming
    <3>2. CASE seen[o.msg] > 0
      BY <1>7, <2>1, <2>3, <3>2
    <3>3. CASE ~(seen[o.msg] > 0)
      <4>1. o.msg = p.msg /\ sn # seen
        BY <1>6, <2>3, <3>1, <3>3
      <4>2. p = Sending(o)
        <5>1. p \in Copies(o.msg)
          BY <4>1 DEF Copies
        <5>2. p \notin Copies(o.msg) \ {Sending(o)}
          BY <1>1, <2>1, FirstIs
        <5> QED
          BY <5>1, <5>2
      <4>3. p.qos = o.qos
        BY <1>1, <2>3, <4>2, SendingIs
      <4>4. o.qos \in InQoS \ {0} /\ InQoS \subseteq 0..2
        BY <1>1, <1>2, UseTypes DEF OutFits
      <4>5. o.qos = 2 /\ Remembers
        <5>1. /\ 1 \in InQoS => Anew
              /\ 2 \in InQoS => Anew \/ Remembers
          BY <1>1 DEF OnceIn, Anew, Remembers, InQoS, CleanOptions, QOS2Build
        <5>2. o.qos \in InQoS /\ o.qos \in 0..2 /\ o.qos # 0
          BY <4>4
        <5>3. o.qos \in {1, 2}
          BY <5>2
        <5> QED
          BY <2>3, <5>1, <5>2, <5>3
      <4>6. Tabled(p) /\ ~Dropped(c, p)
        BY <4>1, <4>3, <4>5 DEF Tabled, Remembers
      <4> QED
        BY <4>2, <4>3, <4>5, <4>6 DEF Noted
    <3> QED
      BY <3>2, <3>3
  <2> QED
    BY <2>2, <2>3
<1> QED
  BY <1>8, <1>9, <1>10, <1>11, <1>12 DEF SeenFits


\* A PUBREL is read: the id it frees is of no publish that is still to come.
LEMMA SeenReleases ==
  ASSUME NEW nn \in Nets, NEW b \in Brokers, NEW cc, NEW sn, OutFits(b),
         InTransit(nn, b), SeenFits(cc, nn, b, sn), nn.down # <<>>,
         NEW o \in b.out, o.rel, NEW dd, NEW mm, mm.down = Tail(nn.down),
         dd.qos2ids \in {cc.qos2ids, cc.qos2ids \ {o.id}}
  PROVE  SeenFits(dd, mm, b, sn)
<1>1. nn.down \in Seq(Packets) /\ \A q \in b.out : q \in Outs
  BY WiresAre DEF Brokers
<1>2. ASSUME NEW q \in b.out, ~q.rel, Noted(cc, Sending(q))
      PROVE  Noted(dd, Sending(q))
  <2>1. q.id # o.id
    BY <1>2 DEF OutFits
  <2>2. Sending(q).id = q.id
    BY <1>1, SendingIs
  <2> QED
    BY <1>2, <2>1, <2>2 DEF Noted
<1>3. Lacks(mm.down, Again(dd, sn))
  <2> DEFINE M == Msgs \ {Sending(q) : q \in b.out}
  <2>1. Again(dd, sn) \subseteq Again(cc, sn) \cup M
    <3> SUFFICES ASSUME NEW q \in Again(dd, sn), q \notin Again(cc, sn)
                 PROVE  q \in M
      OBVIOUS
    <3>1. q \in Pubs /\ Noted(cc, q) /\ ~Noted(dd, q)
      BY DEF Again
    <3>2. q \in Msgs
      BY <3>1 DEF Pubs, Msgs, Of, Noted
    <3>3. ASSUME NEW w \in b.out, q = Sending(w) PROVE FALSE
      <4>1. q.type = PUBLISH /\ PUBLISH # PUBREL
        BY <3>1 DEF Pubs, Of, PUBLISH, PUBREL
      <4>2. ~w.rel
        BY <1>1, <3>3, <4>1, SendingIs
      <4> QED
        BY <1>2, <3>1, <3>3, <4>2
    <3> QED
      BY <3>2, <3>3
  <2>2. Lacks(nn.down, M) /\ Lacks(nn.down, Again(cc, sn))
    BY DEF InTransit, SeenFits
  <2> HIDE DEF M
  <2>3. Lacks(nn.down, Again(dd, sn))
    BY <2>1, <2>2 DEF Lacks
  <2> QED
    BY <1>1, <2>3, LacksLess
<1>4. \A m \in Nat : Once(mm.down, Copies(m))
  BY <1>1, OnceLess DEF SeenFits
<1>5. Lacks(mm.down, Unsent(b))
  BY <1>1, LacksLess DEF SeenFits
<1>6. ASSUME NEW q \in b.out
      PROVE  Lacks(mm.down, Copies(q.msg) \ {Sending(q)})
  <2>1. Lacks(nn.down, Copies(q.msg) \ {Sending(q)})
    BY DEF SeenFits
  <2> QED
    BY <1>1, <2>1, LacksLess
<1> QED
  BY <1>2, <1>3, <1>4, <1>5, <1>6 DEF SeenFits

LEMMA KindSent ==
  ASSUME NEW nn \in Nets, NEW b, NEW cc, KindFits(cc, nn, b), ~nn.fresh,
         NEW a \in Packets, a.type # CONNECT,
         NEW mm, mm.up \in {nn.up, Append(nn.up, a)},
         NEW dd, dd.cleansession = cc.cleansession
  PROVE  KindFits(dd, mm, b)
<1>1. nn.up \in Seq(Packets) /\ a \notin Without(CONNECT, 1)
  BY WiresAre DEF Without, Of
<1> QED
  BY <1>1, LacksMore DEF KindFits

\* One packet is read, whichever it is.
LEMMA ReadsDel ==
  ASSUME OnceIn(use), TypeInv, DelFits(c, net, broker, seen), ~net.fresh,
         NEW r \in readPacket, NEW x, Reads(r, x),
         NEW dd, dd.qos2ids = x.c.qos2ids, dd.cleansession = c.cleansession,
         NEW mm, mm.up = x.net.up, mm.down = x.net.down, mm.fresh = net.fresh
  PROVE  DelFits(dd, mm, broker, x.seen)
<1>1. /\ net \in Nets /\ broker \in Brokers
      /\ net.up \in Seq(Packets) /\ net.down \in Seq(Packets)
      /\ \A o \in broker.out : o \in Outs
  BY StateParts, WiresAre DEF TypeInv, ClientFits, BrokerFits, Brokers
<1>2. /\ OutFits(broker) /\ InTransit(net, broker) /\ Opened(net, broker)
      /\ SeenFits(c, net, broker, seen) /\ KindFits(c, net, broker)
  BY DEF DelFits
<1>3. /\ r.p \in Packets
      /\ \/ r.net.down \in {net.down, <<>>}
         \/ net.down # <<>> /\ r.net.down = Tail(net.down)
      /\ r.type \in 2..14 =>
           /\ net.down # <<>> /\ r.p = Head(net.down)
           /\ r.p.type = r.type /\ r.net.down = Tail(net.down)
  BY <1>1, ReadGood
<1>4. CASE r.type = PUBLISH /\ r.p \in Pubs /\ ReadsPublish(r.p, x)
  <2>1. /\ net.down # <<>> /\ r.p = Head(net.down) /\ r.p.type = PUBLISH
        /\ mm.down = Tail(net.down)
    BY <1>3, <1>4 DEF PUBLISH, Reads
  <2>2. /\ Answered(r.p) \in Packets
        /\ Answered(r.p).type = IF r.p.qos = 1 THEN PUBACK ELSE PUBREC
    BY <1>3, AnsweredIs
  <2>3. mm.up \in {net.up, Append(net.up, Answered(r.p))}
        /\ Answered(r.p).type # CONNECT
    BY <1>4, <2>2 DEF ReadsPublish, PUBACK, PUBREC, CONNECT
  <2>4. Opened(mm, broker)
    BY <1>1, <1>2, <1>4, <2>1, <2>2, <2>3, OpenedReads
  <2>5. KindFits(dd, mm, broker)
    BY <1>1, <1>2, <2>2, <2>3, KindSent
  <2>6. SeenFits(dd, mm, broker, x.seen)
    BY <1>4, <2>1, SeenReads DEF ReadsPublish
  <2>7. InTransit(mm, broker)
    <3>1. CASE r.p.qos = 0
      <4>1. mm.up = net.up
        BY <1>4, <3>1 DEF ReadsPublish
      <4>2. Lacks(mm.down, Msgs \ {Sending(q) : q \in broker.out})
        BY <1>1, <1>2, <2>1, LacksLess DEF InTransit
      <4>3. \A q \in broker.out :
              /\ Once(mm.down, {Sending(q)})
              /\ Lacks(net.down, {Sending(q)}) => Lacks(mm.down, {Sending(q)})
        BY <1>1, <1>2, <2>1, LacksLess, OnceLess DEF InTransit
      <4> QED
        BY <1>2, <4>1, <4>2, <4>3 DEF InTransit
    <3>2. CASE r.p.qos # 0
      <4>1. r.p.qos \in {1, 2}
        <5>1. r.p.qos \in 0..3 /\ r.p.qos # 3
          BY <1>4 DEF Pubs, Of, Packets, PacketFields, TooLong
        <5> QED
          BY <3>2, <5>1
      <4>2. r.p \in Msgs
        BY <1>3, <2>1, <4>1 DEF Msgs, Of
      <4>3. PICK o \in broker.out : Head(net.down) = Sending(o)
        BY <1>1, <1>2, <2>1, <4>2, FirstSending
      <4>4. ~o.rel /\ o.qos = r.p.qos /\ o.id = r.p.id
        <5>1. PUBLISH # PUBREL
          BY DEF PUBLISH, PUBREL
        <5> QED
          BY <1>1, <2>1, <4>3, <5>1, SendingIs
      <4>5. Answered(r.p) = AckFor(o)
        BY <4>4 DEF Answered, AckFor
      <4> QED
        BY <1>1, <1>2, <2>1, <2>3, <4>3, <4>5, TransitReads
    <3> QED
      BY <3>1, <3>2
  <2> QED
    BY <1>2, <2>4, <2>5, <2>6, <2>7 DEF DelFits
<1>5. CASE r.type = PUBREL /\ QOS2Build /\ ReadsPubrel(r.p, x)
  <2>1. /\ net.down # <<>> /\ r.p = Head(net.down) /\ r.p.type = PUBREL
        /\ mm.down = Tail(net.down)
    BY <1>3, <1>5 DEF PUBREL, Reads
  <2>2. r.p \in Msgs
    BY <1>3, <2>1 DEF Msgs, Of
  <2>3. PICK o \in broker.out : Head(net.down) = Sending(o)
    BY <1>1, <1>2, <2>1, <2>2, FirstSending
  <2>4. o.rel /\ o.id = r.p.id /\ o \in Outs
    <3>1. PUBLISH # PUBREL
      BY DEF PUBLISH, PUBREL
    <3> QED
      BY <1>1, <2>1, <2>3, <3>1, SendingIs DEF Outs
  <2>5. /\ Packet(PUBCOMP, r.p.id, 0, 0) = AckFor(o)
        /\ AckFor(o) \in Packets /\ AckFor(o).type = PUBCOMP
    <3>1. AckFor(o) \in Packets /\ AckFor(o).type = PUBCOMP
      BY <2>4, AckForIs
    <3> QED
      BY <2>4, <3>1 DEF AckFor
  <2>6. mm.up \in {net.up, Append(net.up, AckFor(o))}
        /\ AckFor(o).type # CONNECT
    BY <1>5, <2>5 DEF ReadsPubrel, PUBCOMP, CONNECT
  <2>7. Opened(mm, broker)
    BY <1>1, <1>2, <2>1, <2>2, <2>5, <2>6, OpenedReads
  <2>8. KindFits(dd, mm, broker)
    <3> DEFINE a == AckFor(o)
    <3>1. a \in Packets /\ a.type # CONNECT
      BY <2>5, <2>6
    <3>2. mm.up \in {net.up, Append(net.up, a)}
      BY <2>6
    <3>3. /\ net \in Nets /\ KindFits(c, net, broker)
          /\ dd.cleansession = c.cleansession
      BY <1>1, <1>2
    <3> HIDE DEF a
    <3> QED
      BY <3>1, <3>2, <3>3, KindSent
  <2>9. InTransit(mm, broker)
    BY <1>1, <1>2, <2>1, <2>3, <2>6, TransitReads
  <2>10. dd.qos2ids \in {c.qos2ids, c.qos2ids \ {o.id}} /\ x.seen = seen
    BY <1>5, <2>4 DEF ReadsPubrel
  <2>11. SeenFits(dd, mm, broker, x.seen)
    BY <1>1, <1>2, <2>1, <2>4, <2>10, SeenReleases
  <2> QED
    BY <1>2, <2>7, <2>8, <2>9, <2>11 DEF DelFits
<1>6. CASE ReadsOther(r.p, x)
  <2>1. x.seen = seen /\ dd.qos2ids = c.qos2ids
    BY <1>6 DEF ReadsOther
  <2>2. Less(net.down, mm.down, {PUBLISH, PUBREL})
    BY <1>1, <1>3, LessEmpty, LessFewer DEF Reads
  <2>3. Less(net.up, mm.up, {CONNECT, PUBACK, PUBREC, PUBCOMP})
    <3> DEFINE a == Packet(PUBREL, r.p.id, 0, 0)
    <3>1. /\ a \in Packets /\ a.type = PUBREL
      BY <1>3 DEF Packet, Packets, PacketFields, PUBREL, CONNACK
    <3>2. a.type \notin {CONNECT, PUBACK, PUBREC, PUBCOMP}
      BY <3>1 DEF PUBREL, CONNECT, PUBACK, PUBREC, PUBCOMP
    <3>3. mm.up \in {net.up, Append(net.up, a)}
      BY <1>6 DEF ReadsOther
    <3> HIDE DEF a
    <3> QED
      BY <1>1, <3>1, <3>2, <3>3, LessEmpty, LessMore
  <2> QED
    BY <2>1, <2>2, <2>3, DelQuiet
<1> QED
  BY <1>4, <1>5, <1>6 DEF Reads

\* One turn of the loop.
LEMMA CycleDel ==
  ASSUME OnceIn(use), TypeInv, DelInv, call.op # "idle",
         NEW r \in readPacket, NEW s, s = cycle(r)
  PROVE  DelFits(s.c, s.net, broker, s.seen) /\ Good(s) /\ ~s.net.fresh
<1>1. use \in DOMAIN Uses /\ Good(S) /\ ~net.fresh
      /\ DelFits(c, net, broker, seen)
  BY DEF TypeInv, ClientFits, DelInv, Unopened
<1>2. PICK x : /\ Reads(r, x) /\ s.seen = x.seen
               /\ s.net.down = x.net.down
               /\ s.net.up \in {x.net.up, Append(x.net.up, Ping)}
               /\ \/ s.c.qos2ids = x.c.qos2ids
                  \/ /\ c.cleansession /\ ~s.c.isconnected
                     /\ s.c.qos2ids = {}
  BY <1>1, CycleIs
<1>3. /\ Good(s) /\ s.c.cleansession = c.cleansession
      /\ s.net.fresh = net.fresh
  BY <1>1, CycleGood
<1> DEFINE dd == [qos2ids |-> x.c.qos2ids, cleansession |-> c.cleansession]
           mm == [up |-> x.net.up, down |-> x.net.down, fresh |-> net.fresh]
<1>4. /\ dd.qos2ids = x.c.qos2ids /\ dd.cleansession = c.cleansession
      /\ mm.up = x.net.up /\ mm.down = x.net.down /\ mm.fresh = net.fresh
  OBVIOUS
<1> HIDE DEF dd, mm
<1>5. DelFits(dd, mm, broker, s.seen)
  BY <1>1, <1>2, <1>4, ReadsDel
<1>6. x.net.up \in Seq(Packets)
  BY <1>2 DEF Reads, Good, States, Nets
<1>7. Less(mm.up, s.net.up, {CONNECT, PUBACK, PUBREC, PUBCOMP})
  <2>1. PINGREQ \notin {CONNECT, PUBACK, PUBREC, PUBCOMP}
    BY DEF PINGREQ, CONNECT, PUBACK, PUBREC, PUBCOMP
  <2>2. Less(mm.up, Append(mm.up, Ping), {CONNECT, PUBACK, PUBREC, PUBCOMP})
    BY <1>4, <1>6, <2>1, PingIs, LessMore
  <2> QED
    BY <1>2, <1>4, <2>2, LessEmpty
<1>8. Less(mm.down, s.net.down, {PUBLISH, PUBREL})
  BY <1>2, <1>4, LessEmpty
<1>9. s.c.qos2ids = dd.qos2ids \/ dd.cleansession
  BY <1>2, <1>4
<1>10. DelFits(s.c, s.net, broker, s.seen)
  BY <1>1, <1>3, <1>4, <1>5, <1>7, <1>8, <1>9, DelQuiet
<1> QED
  BY <1>1, <1>3, <1>10

-----------------------------------------------------------------------------
(* The client's functions, of which only cycle() deals with messages.      *)

DelFit(s) == Good(s) /\ DelFits(s.c, s.net, broker, s.seen)

LEMMA DelNext ==
  ASSUME UNCHANGED use, DelFits(c', net', broker', seen'),
         net'.fresh => ~c'.isconnected /\ call'.op = "idle"
  PROVE  DelInv'
<1>1. /\ Anew' = Anew /\ Remembers' = Remembers /\ InQoS' = InQoS
      /\ MaxPublished' = MaxPublished
  BY DEF Anew, Remembers, CleanOptions, QOS2Build, InQoS, MaxPublished
<1>2. /\ Acks' = Acks /\ Pubs' = Pubs /\ Msgs' = Msgs /\ Incoming' = Incoming
      /\ Of({CONNECT})' = Of({CONNECT})
      /\ Without(CONNECT, 1)' = Without(CONNECT, 1)
  BY SameUse DEF Acks, Pubs, Msgs, Of, Without
<1>3. OutFits(broker)'
  BY <1>1 DEF DelFits, OutFits
<1>4. Opened(net, broker)'
  BY <1>2 DEF DelFits, Opened, Lacks, Once
<1>5. InTransit(net, broker)'
  BY <1>2 DEF DelFits, InTransit, Lacks, Once, AckFor, Sending
<1>6. SeenFits(c, net, broker, seen)'
  BY <1>1, <1>2 DEF DelFits, SeenFits, Lacks, Once, Copies, Unsent, Again,
                    Noted, Sending
<1>7. KindFits(c, net, broker)'
  BY <1>1, <1>2 DEF DelFits, KindFits, Lacks
<1> QED
  BY <1>3, <1>4, <1>5, <1>6, <1>7 DEF DelInv, DelFits, Unopened
LEMMA DelReturn ==
  ASSUME UNCHANGED <<use, broker>>, NEW op, NEW rc, NEW d, Return(op, rc, d),
         DelFit(d), d.net.fresh => ~d.c.isconnected
  PROVE  DelInv'
BY DelNext DEF Return, Apply, DelFit, Idle
LEMMA DelWait ==
  ASSUME UNCHANGED <<use, broker>>, NEW k, NEW d, Wait(k, d),
         DelFit(d), ~d.net.fresh
  PROVE  DelInv'
BY DelNext DEF Wait, Apply, DelFit

\* A session that changes in what deliverMessage() does not look at.
LEMMA DelSession ==
  ASSUME NEW s, DelFit(s), NEW d, Good(d), d.net = s.net, d.seen = s.seen,
         d.c.cleansession = s.c.cleansession,
         d.c.qos2ids = s.c.qos2ids \/ s.c.cleansession
  PROVE  DelFit(d)
<1>1. /\ Less(s.net.up, d.net.up, {CONNECT, PUBACK, PUBREC, PUBCOMP})
      /\ Less(s.net.down, d.net.down, {PUBLISH, PUBREL})
  BY LessEmpty
<1> QED
  BY <1>1, DelQuiet DEF DelFit
LEMMA DelClosed ==
  ASSUME use \in DOMAIN Uses, NEW s, DelFit(s), NEW d, d = closeSession(s)
  PROVE  DelFit(d) /\ d.net = s.net /\ ~d.c.isconnected
<1>1. /\ Good(d) /\ ~d.c.isconnected /\ d.net = s.net /\ d.seen = s.seen
      /\ d.c.cleansession = s.c.cleansession
  BY CloseSessionGood DEF DelFit
<1>2. d.c.qos2ids = s.c.qos2ids \/ s.c.cleansession
  BY CloseSessionIs DEF DelFit
<1> QED
  BY <1>1, <1>2, DelSession
LEMMA DelSent ==
  ASSUME use \in DOMAIN Uses, NEW s, DelFit(s), ~s.net.fresh,
         NEW p \in Packets, p.type \notin {CONNECT, PUBACK, PUBREC, PUBCOMP},
         NEW d, d = sendPacket(s, p)
  PROVE  DelFit(d) /\ ~d.net.fresh /\ d.c = s.c
<1>1. /\ s \in States /\ Good(d) /\ Same(s, d) /\ d.c = s.c
      /\ d.net.up \in {s.net.up, Append(s.net.up, p)}
  BY AskSent DEF DelFit, Good
<1>2. d.seen = s.seen
  BY <1>1, SendPacketGood
<1>3. s.net.up \in Seq(Packets)
  BY <1>1 DEF States, Nets
<1>4. /\ Less(s.net.up, d.net.up, {CONNECT, PUBACK, PUBREC, PUBCOMP})
      /\ Less(s.net.down, d.net.down, {PUBLISH, PUBREL})
      /\ d.net.fresh = s.net.fresh
  BY <1>1, <1>3, LessEmpty, LessMore DEF Same
<1> QED
  BY <1>1, <1>2, <1>4, DelQuiet DEF DelFit

LEMMA EndConnectDel ==
  ASSUME UNCHANGED <<use, broker>>, NEW rc, NEW s, EndConnect(rc, s),
         DelFit(s), ~s.net.fresh
  PROVE  DelInv'
<1> DEFINE d == connected(s)
<1>1. CASE rc # SUCCESS
  BY <1>1, DelReturn DEF EndConnect
<1>2. CASE rc = SUCCESS
  <2>1. Return("connect", rc, d)
    BY <1>2 DEF EndConnect
  <2>2. /\ Good(d) /\ d.net = s.net /\ d.c.cleansession = s.c.cleansession
    BY ConnectedGood DEF DelFit
  <2>3. d.seen = s.seen /\ d.c.qos2ids = s.c.qos2ids
    BY DEF connected, DelFit, Good, States, Sessions
  <2> HIDE DEF d
  <2>4. DelFit(d)
    BY <2>2, <2>3, DelSession
  <2> QED
    BY <2>1, <2>2, <2>4, DelReturn
<1> QED
  BY <1>1, <1>2
LEMMA ResendDel ==
  ASSUME UNCHANGED <<use, broker>>, use \in DOMAIN Uses,
         NEW rc, NEW s, NEW expired, resend(s, rc, expired),
         DelFit(s), ~s.net.fresh
  PROVE  DelInv'
<1> DEFINE i == s.c.inflight
           p == PublishPacket(i.id, i.qos, 0, i.msg)
           d == sendPacket(s, p)
           e == closeSession(d)
           k == [Waiting("resend", AckOf(i.qos)) EXCEPT !.msg = i.msg]
<1>1. \/ EndConnect(rc, s) \/ EndConnect(FAILURE, e)
      \/ EndConnect(SUCCESS, d) \/ Wait(k, d)
  BY DEF resend
<1>2. /\ p \in Packets /\ p.type = PUBLISH
  <2>1. i.id \in Nat /\ i.qos \in 0..2 /\ i.msg \in Nat
    BY UseTypes DEF DelFit, Good, States, Sessions
  <2> HIDE DEF i
  <2> QED
    BY <2>1, PublishTypes
<1>3. p.type \notin {CONNECT, PUBACK, PUBREC, PUBCOMP}
  BY <1>2 DEF PUBLISH, CONNECT, PUBACK, PUBREC, PUBCOMP
<1> HIDE DEF p, k, e
<1>4. DelFit(d) /\ ~d.net.fresh
  BY <1>2, <1>3, DelSent
<1> HIDE DEF d
<1>5. DelFit(e) /\ ~e.net.fresh
  BY <1>4, DelClosed DEF e
<1> QED
  BY <1>1, <1>4, <1>5, EndConnectDel, DelWait
LEMMA MissedDel ==
  ASSUME UNCHANGED <<use, broker>>, use \in DOMAIN Uses,
         NEW s, NEW expired, Missed(s, expired), DelFit(s), ~s.net.fresh
  PROVE  DelInv'
<1> DEFINE e == closeSession(s)
<1>1. \/ resend(s, FAILURE, expired) \/ EndConnect(FAILURE, e)
      \/ Return(call.op, FAILURE, e)
  BY DEF Missed
<1> HIDE DEF e
<1>2. DelFit(e) /\ ~e.net.fresh
  BY DelClosed DEF e
<1> QED
  BY <1>1, <1>2, ResendDel, EndConnectDel, DelReturn
LEMMA GotDel ==
  ASSUME UNCHANGED <<use, broker>>, use \in DOMAIN Uses, CallFits(call),
         NEW s, NEW p, Got(s, p), DelFit(s), ~s.net.fresh, call.op # "idle",
         call.op # "yield"
  PROVE  DelInv'
<1>1. Good(s) /\ s \in States
  BY DEF DelFit, Good
<1>2. CASE call.op = "connect"
  BY <1>2, ResendDel DEF Got
<1>3. CASE call.op \in {"resend", "publish"}
  <2> DEFINE d == acked(s, p)
  <2>1. EndConnect(SUCCESS, d) \/ Return("publish", SUCCESS, d)
    BY <1>3 DEF Got
  <2>2. /\ Good(d) /\ d.net = s.net /\ d.c.cleansession = s.c.cleansession
    BY <1>1, AckedGood
  <2>3. d.seen = s.seen /\ d.c.qos2ids = s.c.qos2ids
    BY <1>1 DEF acked, States, Sessions
  <2> HIDE DEF d
  <2>4. DelFit(d)
    BY <2>2, <2>3, DelSession
  <2> QED
    BY <2>1, <2>2, <2>4, EndConnectDel, DelReturn
<1>4. CASE call.op = "subscribe"
  <2> DEFINE x == [s EXCEPT !.rc = SUCCESS]
             y == setHandler(s, call.topic)
             d == IF p.what = 128 THEN x ELSE y
             e == closeSession(d)
  <2>1. Return("subscribe", d.rc, d) \/ Return("subscribe", d.rc, e)
    BY <1>4 DEF Got, GotSuback
  <2>2. Good(x) /\ x.net = s.net /\ x.seen = s.seen /\ x.c = s.c
    BY <1>1 DEF Good, States, TablesFit, PingFits, SUCCESS
  <2>3. Good(y) /\ y.net = s.net /\ y.c.cleansession = s.c.cleansession
    <3>1. call.topic \in Topics
      BY <1>4 DEF CallFits
    <3> QED
      BY <1>1, <3>1, SetHandlerGood
  <2>4. y.seen = s.seen /\ y.c.qos2ids = s.c.qos2ids
    BY <1>1 DEF setHandler, States, Sessions
  <2> HIDE DEF x, y
  <2>5. DelFit(d) /\ ~d.net.fresh
    BY <2>2, <2>3, <2>4, DelSession
  <2> HIDE DEF d, e
  <2>6. DelFit(e) /\ ~e.net.fresh
    BY <2>5, DelClosed DEF e
  <2> QED
    BY <2>1, <2>5, <2>6, DelReturn
<1>5. CASE call.op = "unsubscribe"
  <2> DEFINE d == removeHandler(s, call.topic)
  <2>1. Return("unsubscribe", SUCCESS, d)
    BY <1>5 DEF Got
  <2>2. /\ Good(d) /\ d.net = s.net /\ d.c.cleansession = s.c.cleansession
    BY <1>1, RemoveHandlerGood
  <2>3. d.seen = s.seen /\ d.c.qos2ids = s.c.qos2ids
    BY <1>1 DEF removeHandler, States, Sessions
  <2> HIDE DEF d
  <2>4. DelFit(d)
    BY <2>2, <2>3, DelSession
  <2> QED
    BY <2>1, <2>2, <2>4, DelReturn
<1> QED
  BY <1>2, <1>3, <1>4, <1>5 DEF CallFits, Calls
LEMMA CycleDels ==
  ASSUME OnceIn(use), TypeInv, UNCHANGED use, DelInv, Cycle PROVE DelInv'
<1>1. use \in DOMAIN Uses /\ CallFits(call) /\ call.op # "idle"
      /\ UNCHANGED broker
  BY DEF TypeInv, ClientFits, Cycle
<1>2. PICK r \in readPacket :
        LET s == cycle(r) IN
        IF call.op = "yield"
        THEN IF s.rc < 0 THEN Return("yield", FAILURE, s)
             ELSE IF r.type = 0 THEN Return("yield", SUCCESS, s)
             ELSE Wait([call EXCEPT !.cycled = TRUE], s)
        ELSE IF s.rc = call.want THEN Got(s, r.p)
             ELSE IF s.rc < 0 THEN Missed(s, FALSE)
             ELSE IF r.type = 0 THEN Missed(s, TRUE)
             ELSE Wait([call EXCEPT !.cycled = TRUE], s)
  BY DEF Cycle
<1>3. PICK s : s = cycle(r)
  OBVIOUS
<1>4. DelFit(s) /\ ~s.net.fresh
  BY <1>1, <1>3, CycleDel DEF DelFit
<1>5. \/ \E rc : Return("yield", rc, s)
      \/ \E k : Wait(k, s)
      \/ call.op # "yield" /\ Got(s, r.p)
      \/ \E expired : Missed(s, expired)
  BY <1>2, <1>3
<1> QED
  BY <1>1, <1>4, <1>5, DelReturn, DelWait, GotDel, MissedDel
LEMMA DelState ==
  ASSUME TypeInv, DelInv
  PROVE  /\ use \in DOMAIN Uses /\ DelFit(S) /\ S.net = net /\ S.c = c
         /\ S.seen = seen
BY DEF TypeInv, ClientFits, DelInv, DelFit, S
LEMMA ExpireDel ==
  ASSUME TypeInv, UNCHANGED use, DelInv, Expire PROVE DelInv'
<1>1. /\ UNCHANGED broker /\ ~net.fresh
      /\ Return("yield", SUCCESS, S) \/ Missed(S, TRUE)
  BY DEF Expire, DelInv, Unopened
<1> QED
  BY <1>1, DelState, DelReturn, MissedDel

-----------------------------------------------------------------------------
(* The application's calls, the network and the clock.                     *)

LEMMA YieldDel ==
  ASSUME TypeInv, UNCHANGED use, DelInv, Yield PROVE DelInv'
BY DelState, DelWait DEF Yield
LEMMA DisconnectDel ==
  ASSUME TypeInv, UNCHANGED use, DelInv, Disconnect PROVE DelInv'
<1> DEFINE p == Packet(DISCONNECT, 0, 0, 0)
           d == sendPacket(S, p)
           e == closeSession(d)
<1>1. p \in Packets /\ p.type \notin {CONNECT, PUBACK, PUBREC, PUBCOMP}
  BY DEF Packet, Packets, PacketFields, DISCONNECT, CONNACK, CONNECT, PUBACK,
         PUBREC, PUBCOMP
<1>2. Return("disconnect", d.rc, e) /\ ~net.fresh /\ UNCHANGED broker
  BY DEF Disconnect
<1> HIDE DEF p
<1>3. DelFit(d) /\ ~d.net.fresh /\ use \in DOMAIN Uses
  BY <1>1, <1>2, DelState, DelSent
<1> HIDE DEF d, e
<1>4. DelFit(e) /\ ~e.net.fresh
  BY <1>3, DelClosed DEF e
<1> QED
  BY <1>2, <1>4, DelReturn
LEMMA PublishDel ==
  ASSUME TypeInv, UNCHANGED use, DelInv, NEW qos \in OutQoS,
         NEW long \in BOOLEAN, Publish(qos, long)
  PROVE  DelInv'
<1> DEFINE msg == used.calls + 1
           id == PublishId(qos)
           s == Publishes(qos, long)
           p == PublishPacket(id, qos, 0, msg)
           d == sendPacket(s, p)
           e == closeSession(d)
           w == [Waiting("publish", AckOf(qos)) EXCEPT !.msg = msg, !.qos = qos]
<1>1. /\ use \in DOMAIN Uses /\ Good(S) /\ qos \in 0..2 /\ used.calls \in Nat
      /\ S.c = c /\ S.net = net /\ S.seen = seen /\ UNCHANGED broker
      /\ DelFit(S) /\ c.next \in 0..MAX_PACKET_ID /\ c \in Sessions
  BY DelState, StateParts, UseTypes
  DEF TypeInv, ClientFits, UsedFits, Publish, Sessions
<1>2. \/ ~c.isconnected /\ Return("publish", FAILURE, S)
      \/ /\ c.isconnected
         /\ \/ Return("publish", FAILURE, s) \/ Return("publish", FAILURE, e)
            \/ Return("publish", SUCCESS, d) \/ Wait(w, d)
  BY DEF Publish, PublishId, Publishes
<1>3. /\ Good(s) /\ s.net = net /\ s.c.cleansession = c.cleansession
  BY <1>1, PublishesGood
<1>4. s.seen = seen /\ s.c.qos2ids = c.qos2ids
  BY <1>1 DEF Publishes, S, Sessions
<1>5. DelFit(s)
  <2> HIDE DEF s
  <2> QED
    BY <1>1, <1>3, <1>4, DelSession
<1>6. p \in Packets /\ p.type \notin {CONNECT, PUBACK, PUBREC, PUBCOMP}
  <2>1. id \in Nat /\ msg \in Nat
    BY <1>1, NextId, UseTypes DEF PublishId
  <2> HIDE DEF id, msg
  <2>2. p \in Packets /\ p.type = PUBLISH
    BY <1>1, <2>1, PublishTypes
  <2> HIDE DEF p
  <2> QED
    BY <2>2 DEF PUBLISH, CONNECT, PUBACK, PUBREC, PUBCOMP
<1> HIDE DEF s, p, w
<1>7. CASE ~c.isconnected /\ Return("publish", FAILURE, S)
  BY <1>1, <1>7, DelReturn
<1>8. CASE c.isconnected
  <2>1. ~net.fresh
    BY <1>8 DEF DelInv, Unopened
  <2>2. DelFit(d) /\ ~d.net.fresh
    BY <1>1, <1>3, <1>5, <1>6, <2>1, DelSent
  <2> HIDE DEF d, e
  <2>3. DelFit(e) /\ ~e.net.fresh
    BY <1>1, <2>2, DelClosed DEF e
  <2> QED
    BY <1>1, <1>2, <1>3, <1>5, <1>8, <2>1, <2>2, <2>3, DelReturn, DelWait
<1> QED
  BY <1>2, <1>7, <1>8
LEMMA AskDel ==
  ASSUME TypeInv, UNCHANGED use, DelInv, NEW topic \in Topics,
         Subscribe(topic) \/ Unsubscribe(topic)
  PROVE  DelInv'
<1>1. PICK op, type, want :
        /\ \/ op = "subscribe" /\ type = SUBSCRIBE /\ want = SUBACK
           \/ op = "unsubscribe" /\ type = UNSUBSCRIBE /\ want = UNSUBACK
        /\ Ask(op, type, want, topic)
  BY DEF Subscribe, Unsubscribe
<1> DEFINE p == Packet(type, getNext(c.next), 0, topic)
           d == sendPacket(Asks, p)
           e == closeSession(d)
           f == closeSession(S)
           k == [Waiting(op, want) EXCEPT !.topic = topic]
<1>2. /\ use \in DOMAIN Uses /\ Good(S) /\ S.c = c /\ S.net = net
      /\ S.seen = seen /\ DelFit(S) /\ UNCHANGED broker
      /\ c.next \in 0..MAX_PACKET_ID /\ c \in Sessions
  BY <1>1, DelState, StateParts DEF TypeInv, ClientFits, Ask, Sessions
<1>3. \/ ~c.isconnected /\ Return(op, FAILURE, f)
      \/ c.isconnected /\ (Return(op, FAILURE, e) \/ Wait(k, d))
  BY <1>1 DEF Ask, Asks
<1>4. p \in Packets /\ p.type \notin {CONNECT, PUBACK, PUBREC, PUBCOMP}
  <2>1. getNext(c.next) \in Nat
    BY <1>2, NextId, UseTypes
  <2>2. type \in 0..15
        /\ type \notin {CONNACK, CONNECT, PUBACK, PUBREC, PUBCOMP}
    BY <1>1 DEF SUBSCRIBE, UNSUBSCRIBE, CONNACK, CONNECT, PUBACK, PUBREC,
                PUBCOMP
  <2> QED
    BY <2>1, <2>2 DEF Packet, Packets, PacketFields
<1> HIDE DEF p, k
<1>5. /\ Good(Asks) /\ Asks.net = net
      /\ Asks.c.cleansession = c.cleansession
  BY <1>2, AsksGood
<1>6. Asks.seen = seen /\ Asks.c.qos2ids = c.qos2ids
  BY <1>2 DEF Asks, S, Sessions
<1>7. DelFit(Asks)
  BY <1>2, <1>5, <1>6, DelSession
<1>8. CASE ~c.isconnected
  <2>1. DelFit(f) /\ ~f.c.isconnected
    BY <1>2, DelClosed
  <2> HIDE DEF f
  <2> QED
    BY <1>2, <1>3, <1>8, <2>1, DelReturn
<1>9. CASE c.isconnected
  <2>1. ~net.fresh
    BY <1>9 DEF DelInv, Unopened
  <2>2. DelFit(d) /\ ~d.net.fresh
    BY <1>2, <1>4, <1>5, <1>7, <2>1, DelSent
  <2> HIDE DEF d, e, f
  <2>3. DelFit(e) /\ ~e.net.fresh
    BY <1>2, <2>2, DelClosed DEF e
  <2> QED
    BY <1>2, <1>3, <1>9, <2>2, <2>3, DelReturn, DelWait
<1> QED
  BY <1>8, <1>9
LEMMA TickDel ==
  ASSUME UNCHANGED use, DelInv, Tick PROVE DelInv'
<1>1. DelFits(c', net', broker', seen')
  BY DEF Tick, DelInv
<1> QED
  BY <1>1, DelNext DEF Tick, DelInv, Unopened

\* A new connection: nothing is under way.
LEMMA EmptyDel ==
  ASSUME NEW cc, NEW dd, NEW nn, NEW mm, NEW b, NEW e, NEW sn,
         DelFits(cc, nn, b, sn), mm.up = <<>>, mm.down = <<>>, ~e.conn,
         e.out = b.out, e.sent = b.sent, dd.qos2ids = cc.qos2ids,
         Remembers /\ dd.cleansession => mm.fresh /\ b.out = {}
  PROVE  DelFits(dd, mm, e, sn)
<1>1. \A P : /\ Lacks(mm.up, P) /\ Lacks(mm.down, P)
             /\ Once(mm.up, P) /\ Once(mm.down, P)
  BY DEF Lacks, Once
<1>2. OutFits(e) /\ Opened(mm, e) /\ InTransit(mm, e) /\ KindFits(dd, mm, e)
  BY <1>1 DEF DelFits, OutFits, Opened, InTransit, KindFits
<1>3. SeenFits(dd, mm, e, sn)
  BY <1>1 DEF DelFits, SeenFits, Noted
<1> QED
  BY <1>2, <1>3 DEF DelFits
LEMMA OpenNetworkDel ==
  ASSUME TypeInv, UNCHANGED use, DelInv, OpenNetwork PROVE DelInv'
<1>1. /\ c' = c /\ seen' = seen /\ call' = call /\ call.op = "idle"
      /\ ~c.isconnected /\ ~net.fresh
      /\ net' = NewNet /\ broker' = [broker EXCEPT !.conn = FALSE]
  BY DEF OpenNetwork
<1>2. net'.up = <<>> /\ net'.down = <<>> /\ net'.fresh
  BY <1>1 DEF NewNet
<1>3. /\ ~broker'.conn /\ broker'.out = broker.out
      /\ broker'.sent = broker.sent
  BY <1>1 DEF TypeInv, BrokerFits, Brokers
<1>4. DelFits(c', net', broker', seen')
  BY <1>1, <1>2, <1>3, EmptyDel DEF DelInv, DelFits, KindFits
<1> QED
  BY <1>1, <1>4, DelNext

\* CONNECT is the first packet on a new connection.
LEMMA ConnectDel ==
  ASSUME TypeInv, UNCHANGED use, DelInv, NEW clean \in CleanOptions,
         MqttConnect(clean)
  PROVE  DelInv'
<1>1. /\ use \in DOMAIN Uses /\ Good(S) /\ clean \in BOOLEAN
      /\ S.c = c /\ S.net = net /\ S.seen = seen /\ UNCHANGED broker
      /\ call.op = "idle" /\ (c.isconnected \/ net.fresh) /\ DelFit(S)
      /\ c \in Sessions /\ net \in Nets
  BY UseTypes, DelState, StateParts DEF TypeInv, ClientFits, MqttConnect
<1>2. CASE c.isconnected
  <2>1. Return("connect", FAILURE, S) /\ ~net.fresh
    BY <1>2 DEF MqttConnect, DelInv, Unopened
  <2> QED
    BY <1>1, <2>1, DelReturn
<1>3. CASE ~c.isconnected
  <2> DEFINE p == Packet(CONNECT, 0, 0, IF clean THEN 1 ELSE 0)
             b == Begins(clean)
             d == sendPacket(b, p)
             e == [d EXCEPT !.t.received = KeepAlive]
             k == Waiting("connect", CONNACK)
  <2>1. /\ IF d.rc = FAILURE THEN EndConnect(FAILURE, d) ELSE Wait(k, e)
    BY <1>3 DEF MqttConnect, Begins
  <2>2. /\ p \in Packets /\ p.type = CONNECT
        /\ p.what = (IF clean THEN 1 ELSE 0)
    BY DEF Packet, Packets, PacketFields, CONNECT, CONNACK
  <2>3. /\ Good(b) /\ b \in States /\ b.c.cleansession = clean
        /\ b.net.up = net.up /\ b.net.down = net.down /\ ~b.net.fresh
        /\ b.seen = seen /\ b.c.qos2ids = c.qos2ids
    <3>1. b.seen = seen /\ b.c.qos2ids = c.qos2ids
      BY <1>1 DEF Begins, S, Sessions
    <3>2. b = Begins(clean)
      OBVIOUS
    <3> HIDE DEF b
    <3> QED
      BY <1>1, <1>3, <3>1, <3>2, BeginsGood DEF Good
  <2> HIDE DEF p, b
  <2>4. /\ Good(d) /\ Same(b, d) /\ d.c = b.c
        /\ d.net.up \in {b.net.up, Append(b.net.up, p)}
    BY <1>1, <2>2, <2>3, AskSent
  <2>5. d.seen = b.seen
    BY <1>1, <2>2, <2>3, SendPacketGood
  <2>6. e.c = d.c /\ e.net = d.net /\ e.seen = d.seen
    BY <2>4 DEF Good, States
  <2> HIDE DEF d, e, k
  <2>7. net.up = <<>> /\ net.down = <<>> /\ ~broker.conn /\ net.fresh
    BY <1>1, <1>3 DEF DelInv, DelFits, Opened
  <2>8. /\ ~d.net.fresh /\ d.net.down = <<>> /\ d.seen = seen
        /\ d.c.qos2ids = c.qos2ids /\ d.c.cleansession = clean
        /\ d.net.up \in {<<>>, Append(<<>>, p)}
    BY <2>3, <2>4, <2>5, <2>7 DEF Same
  <2>9. ASSUME NEW P PROVE /\ Once(d.net.up, P)
                           /\ p \notin P => Lacks(d.net.up, P)
    <3>1. <<>> \in Seq(Packets) /\ Lacks(<<>>, P) /\ Once(<<>>, P)
      BY DEF Lacks, Once
    <3> QED
      BY <2>2, <2>8, <3>1, LacksMore
  <2>10. \A P : Lacks(d.net.down, P) /\ Once(d.net.down, P)
    BY <2>8 DEF Lacks, Once
  <2>11. /\ p \notin Acks /\ \A A : p \notin Acks \ A
         /\ clean => p \notin Without(CONNECT, 1)
    BY <2>2 DEF Acks, Of, Without, CONNECT, PUBACK, PUBREC, PUBCOMP
  <2>12. DelFits(d.c, d.net, broker, d.seen)
    <3>1. OutFits(broker) /\ SeenFits(c, net, broker, seen)
      BY DEF DelInv, DelFits
    <3>2. Opened(d.net, broker)
      BY <2>7, <2>8, <2>9, <2>10, <2>11 DEF Opened
    <3>3. InTransit(d.net, broker)
      BY <2>9, <2>10, <2>11 DEF InTransit
    <3>4. SeenFits(d.c, d.net, broker, d.seen)
      BY <2>8, <2>10, <3>1 DEF SeenFits, Noted
    <3>5. KindFits(d.c, d.net, broker)
      <4>1. (Anew => clean) /\ (Remembers => ~clean)
        BY <1>1 DEF Anew, Remembers
      <4> QED
        BY <2>8, <2>9, <2>11, <4>1 DEF KindFits
    <3> QED
      BY <3>1, <3>2, <3>3, <3>4, <3>5 DEF DelFits
  <2>13. net' = d.net /\ c' = d.c /\ seen' = d.seen
    BY <2>1, <2>6 DEF EndConnect, Return, Wait, Apply, FAILURE, SUCCESS
  <2> QED
    BY <1>1, <2>8, <2>12, <2>13, DelNext
<1> QED
  BY <1>2, <1>3

\* Some of what is under way is lost.
LEMMA LossDel ==
  ASSUME UNCHANGED <<use, c, call, seen>>, DelInv, ~net.fresh,
         net'.fresh = net.fresh,
         Less(net.up, net'.up, {CONNECT, PUBACK, PUBREC, PUBCOMP}),
         Less(net.down, net'.down, {PUBLISH, PUBREL}),
         broker'.out = broker.out, broker'.sent = broker.sent,
         broker'.conn = broker.conn
  PROVE  DelInv'
<1>1. DelFits(c', net', broker', seen')
  BY DelQuiet DEF DelInv
<1> QED
  BY <1>1, DelNext
LEMMA FailsDel ==
  ASSUME TypeInv, UNCHANGED use, DelInv, NEW how \in {"cut", "closed"},
         Fails(how)
  PROVE  DelInv'
<1>1. net \in Nets /\ net.down \in Seq(Packets)
  BY StateParts, WiresAre DEF TypeInv, ClientFits
<1>2. PICK n \in 0..Len(net.down) :
        net' = [net EXCEPT !.link = how, !.up = <<>>,
                           !.down = SubSeq(@, 1, n)]
  BY DEF Fails, Break
<1>3. /\ net'.up = <<>> /\ net'.down = SubSeq(net.down, 1, n)
      /\ ~net.fresh /\ net'.fresh = net.fresh
      /\ UNCHANGED <<c, call, seen, broker>>
  BY <1>1, <1>2 DEF Nets, Fails, Break, Others
<1>4. /\ \A types : Less(net.up, net'.up, types)
      /\ \A types : Less(net.down, net'.down, types)
  BY <1>1, <1>3, LessEmpty, LessFewer
<1> QED
  BY <1>3, <1>4, LossDel

-----------------------------------------------------------------------------
(* The broker publishes, and deals with the packets it finds.              *)

\* Two publishes that wait have the two ids there are.
LEMMA OneIdFree ==
  ASSUME NEW b \in Brokers, OutFits(b), Cardinality(b.out) < 2
  PROVE  ~\E o, q \in b.out : o.id = 1 /\ q.id = 2
<1> SUFFICES ASSUME NEW o \in b.out, NEW q \in b.out, o.id = 1, q.id = 2
             PROVE  FALSE
  OBVIOUS
<1>1. o # q
  OBVIOUS
<1>2. b.out = {o, q}
  <2>1. \A x \in b.out : x.id = o.id \/ x.id = q.id
    BY DEF OutFits
  <2>2. \A x \in b.out : x = o \/ x = q
    BY <2>1 DEF OutFits
  <2> QED
    BY <2>2
<1>3. IsFiniteSet({o}) /\ Cardinality({o}) = 1
  BY FS_Singleton
<1>4. Cardinality({o} \cup {q}) = 2
  <2>1. q \notin {o}
    BY <1>1
  <2>2. Cardinality({o} \cup {q}) = Cardinality({o}) + 1
    BY <1>3, <2>1, FS_AddElement
  <2> QED
    BY <1>3, <2>2
<1>5. {o} \cup {q} = {o, q}
  OBVIOUS
<1> QED
  BY <1>2, <1>4, <1>5

\* A publish of a message of its own: it was never on its way, nor handed on.
LEMMA SeenArrives ==
  ASSUME NEW cc, NEW nn \in Nets, NEW b \in Brokers, NEW sn, OutFits(b),
         SeenFits(cc, nn, b, sn), b.sent < MaxPublished,
         MaxPublished \in Nat, sn \in [Incoming -> 0..2],
         NEW a \in Packets, a \in Pubs => a.msg = b.sent + 1,
         NEW mm, mm.down = Append(nn.down, a),
         NEW e, e.sent = b.sent + 1,
         \/ e.out = b.out
         \/ \E o : /\ e.out = b.out \cup {o} /\ Sending(o) = a
                   /\ o.msg = b.sent + 1
  PROVE  SeenFits(cc, mm, e, sn)
<1>1. /\ nn.down \in Seq(Packets) /\ b.sent \in Nat
      /\ b.sent + 1 \in Incoming /\ b.sent + 1 \in Nat
  BY WiresAre DEF Brokers, Incoming
<1>2. sn[b.sent + 1] = 0
  <2>1. b.sent + 1 > b.sent
    BY <1>1
  <2> QED
    BY <1>1, <2>1 DEF SeenFits
<1>3. \A m \in Incoming : sn[m] <= 1 /\ (m > e.sent => sn[m] = 0)
  BY <1>1 DEF SeenFits, Incoming
<1>4. Lacks(nn.down, Copies(b.sent + 1))
  <2>1. Copies(b.sent + 1) \subseteq Unsent(b)
    BY <1>1 DEF Copies, Unsent
  <2> QED
    BY <2>1 DEF SeenFits, Lacks
<1>5. ASSUME NEW m \in Nat PROVE Once(mm.down, Copies(m))
  <2>1. CASE m = b.sent + 1
    BY <1>1, <1>4, <2>1, LacksMore
  <2>2. CASE m # b.sent + 1
    <3>1. a \notin Copies(m)
      BY <2>2 DEF Copies
    <3>2. Once(nn.down, Copies(m))
      BY DEF SeenFits
    <3> QED
      BY <1>1, <3>1, <3>2, OnceMore
  <2> QED
    BY <2>1, <2>2
<1>6. Lacks(mm.down, Unsent(e))
  <2>1. Unsent(e) \subseteq Unsent(b) /\ a \notin Unsent(e)
    BY <1>1 DEF Unsent
  <2>2. Lacks(nn.down, Unsent(e))
    BY <2>1 DEF SeenFits, Lacks
  <2> QED
    BY <1>1, <2>1, <2>2, LacksMore
<1>7. Lacks(mm.down, Again(cc, sn))
  <2>1. a \notin Again(cc, sn)
    BY <1>2 DEF Again
  <2>2. Lacks(nn.down, Again(cc, sn))
    BY DEF SeenFits
  <2> QED
    BY <1>1, <2>1, <2>2, LacksMore
<1>8. ASSUME NEW q \in e.out
      PROVE  /\ Lacks(mm.down, Copies(q.msg) \ {Sending(q)})
             /\ ~q.rel /\ sn[q.msg] > 0 => Anew \/ Noted(cc, Sending(q))
  <2> DEFINE P == Copies(q.msg) \ {Sending(q)}
  <2>1. CASE q \in b.out
    <3>1. Lacks(nn.down, P)
          /\ (~q.rel /\ sn[q.msg] > 0 => Anew \/ Noted(cc, Sending(q)))
      BY <2>1 DEF SeenFits
    <3>2. a \notin P
      <4>1. q.msg # b.sent + 1
        BY <1>1, <2>1 DEF OutFits
      <4> QED
        BY <4>1 DEF Copies
    <3> HIDE DEF P
    <3>3. Lacks(mm.down, P)
      BY <1>1, <3>1, <3>2, LacksMore
    <3> QED
      BY <3>1, <3>3 DEF P
  <2>2. CASE q.msg = b.sent + 1 /\ Sending(q) = a
    <3>1. a \notin P /\ P \subseteq Copies(b.sent + 1)
      BY <2>2
    <3> HIDE DEF P
    <3>2. Lacks(nn.down, P)
      BY <1>4, <3>1 DEF Lacks
    <3>3. Lacks(mm.down, P)
      BY <1>1, <3>1, <3>2, LacksMore
    <3> QED
      BY <1>2, <2>2, <3>3 DEF P
  <2> QED
    BY <2>1, <2>2
<1> QED
  BY <1>3, <1>5, <1>6, <1>7, <1>8 DEF SeenFits

\* It is the publish that waits, and nothing else of its id is under way.
LEMMA TransitArrives ==
  ASSUME NEW nn \in Nets, NEW b \in Brokers, InTransit(nn, b),
         NEW o \in Outs, ~o.rel, o.qos # 0, \A q \in b.out : q.id # o.id,
         NEW mm, mm.up = nn.up, mm.down = Append(nn.down, Sending(o)),
         NEW e, e.out = b.out \cup {o}
  PROVE  InTransit(mm, e)
<1>1. /\ nn.up \in Seq(Packets) /\ nn.down \in Seq(Packets)
      /\ \A q \in b.out : q \in Outs
  BY WiresAre DEF Brokers
<1>2. /\ AckFor(o) \in Acks /\ AckFor(o).id = o.id
      /\ Sending(o) \in Msgs /\ Sending(o).id = o.id
      /\ Sending(o) \in Packets
  BY AckForIs, SendingIs
<1>3. \A q \in b.out : AckFor(q) # AckFor(o) /\ Sending(q) # Sending(o)
  BY <1>1, <1>2, AckForIs, SendingIs
<1> DEFINE A == Acks \ {AckFor(q) : q \in b.out}
           M == Msgs \ {Sending(q) : q \in b.out}
           B == Acks \ {AckFor(q) : q \in e.out}
           N == Msgs \ {Sending(q) : q \in e.out}
<1>4. Lacks(nn.up, A) /\ Lacks(nn.down, M)
  BY DEF InTransit
<1>5. /\ {AckFor(o)} \subseteq A /\ {Sending(o)} \subseteq M
      /\ B \subseteq A /\ N \subseteq M /\ Sending(o) \notin N
  BY <1>2, <1>3
<1> HIDE DEF A, M, B, N
<1>6. /\ Lacks(nn.up, {AckFor(o)}) /\ Lacks(nn.down, {Sending(o)})
      /\ Lacks(nn.up, B) /\ Lacks(nn.down, N)
  BY <1>4, <1>5 DEF Lacks
<1>7. Lacks(mm.up, B) /\ Lacks(mm.down, N)
  BY <1>1, <1>2, <1>5, <1>6, LacksMore
<1>8. ASSUME NEW q \in e.out
      PROVE  /\ Once(mm.up, {AckFor(q)}) /\ Once(mm.down, {Sending(q)})
             /\ Lacks(mm.up, {AckFor(q)}) \/ Lacks(mm.down, {Sending(q)})
  <2>1. CASE q = o
    <3>1. Once(mm.down, {Sending(o)})
      BY <1>1, <1>2, <1>6, LacksMore
    <3>2. Once(mm.up, {AckFor(o)})
      BY <1>6 DEF Lacks, Once
    <3> QED
      BY <1>6, <2>1, <3>1, <3>2
  <2>2. CASE q \in b.out
    <3>1. /\ Once(nn.up, {AckFor(q)}) /\ Once(nn.down, {Sending(q)})
          /\ Lacks(nn.up, {AckFor(q)}) \/ Lacks(nn.down, {Sending(q)})
      BY <2>2 DEF InTransit
    <3>2. Sending(o) \notin {Sending(q)}
      BY <1>3, <2>2
    <3>3. /\ Once(mm.down, {Sending(q)})
          /\ Lacks(nn.down, {Sending(q)}) => Lacks(mm.down, {Sending(q)})
      BY <1>1, <1>2, <3>1, <3>2, LacksMore, OnceMore
    <3> QED
      BY <3>1, <3>3
  <2> QED
    BY <2>1, <2>2
<1> QED
  BY <1>7, <1>8 DEF InTransit, B, N

LEMMA ArrivesDel ==
  ASSUME TypeInv, UNCHANGED use, DelInv, NEW topic \in Topics,
         NEW qos \in InQoS, NEW long \in BOOLEAN, long => qos = 0,
         Arrives(topic, qos, long)
  PROVE  DelInv'
<1> DEFINE id == IF qos = 0 THEN 0
                 ELSE IF \E o \in broker.out : o.id = 1 THEN 2 ELSE 1
           o == [id |-> id, qos |-> qos, msg |-> broker.sent + 1,
                 topic |-> topic, rel |-> FALSE]
           a == IF long THEN Packet(PUBLISH, 0, TooLong, 0) ELSE Sending(o)
<1>1. /\ net \in Nets /\ broker \in Brokers /\ broker.sent \in Nat
      /\ seen \in [Incoming -> 0..2] /\ net.down \in Seq(Packets)
      /\ use \in DOMAIN Uses /\ MaxPublished \in Nat /\ qos \in 0..2
  BY StateParts, WiresAre, UseTypes
  DEF TypeInv, ClientFits, BrokerFits, Brokers
<1>2. /\ OutFits(broker) /\ Opened(net, broker) /\ InTransit(net, broker)
      /\ SeenFits(c, net, broker, seen) /\ KindFits(c, net, broker)
  BY DEF DelInv, DelFits
<1>3. /\ broker.conn /\ broker.sent < MaxPublished
      /\ Cardinality(broker.out) < 2
      /\ net' = [net EXCEPT !.down = Append(@, a)]
      /\ broker' = [broker EXCEPT !.sent = @ + 1,
                      !.out = IF qos = 0 THEN @ ELSE @ \cup {o}]
      /\ UNCHANGED <<c, call, seen>>
  BY DEF Arrives, BrokerPublishes, Others
<1>4. /\ id \in {0, 1, 2} /\ (qos # 0 => id \in {1, 2})
      /\ qos # 0 => \A q \in broker.out : q.id # id
  <2>1. ASSUME qos # 0, NEW q \in broker.out PROVE q.id # id
    <3>1. ~\E x, y \in broker.out : x.id = 1 /\ y.id = 2
      BY <1>1, <1>2, <1>3, OneIdFree
    <3> QED
      BY <2>1, <3>1
  <2> QED
    BY <2>1
<1> HIDE DEF id
<1>5. /\ o.id = id /\ o.qos = qos /\ o.msg = broker.sent + 1
      /\ ~o.rel /\ o \in Outs
  BY <1>1, <1>4 DEF Outs
<1> HIDE DEF o
<1>6. /\ a \in Packets /\ (a \in Pubs => ~long)
      /\ ~long => a = Sending(o) /\ a.msg = broker.sent + 1
                  /\ a.type = PUBLISH /\ a.qos = qos
      /\ a \in Msgs => ~long /\ qos # 0
  <2>1. CASE long
    <3>1. /\ a \in Packets /\ a.qos = TooLong /\ a.type = PUBLISH
      BY <2>1 DEF Packet, Packets, PacketFields, PUBLISH, CONNACK, TooLong
    <3> HIDE DEF a
    <3>2. a \notin Pubs /\ a \notin Msgs
      BY <3>1 DEF Pubs, Msgs, PUBLISH, PUBREL, TooLong
    <3> QED
      BY <2>1, <3>1, <3>2
  <2>2. CASE ~long
    <3>1. a = Sending(o)
      BY <2>2
    <3>2. /\ a \in Packets /\ a.msg = broker.sent + 1 /\ a.type = PUBLISH
          /\ a.qos = qos
      BY <1>5, <3>1, SendingIs
    <3> HIDE DEF a
    <3>3. a \in Msgs => qos # 0
      BY <3>2 DEF Msgs, PUBLISH, PUBREL
    <3> QED
      BY <2>2, <3>1, <3>2, <3>3
  <2> QED
    BY <2>1, <2>2
<1> HIDE DEF a
<1>7. /\ net'.up = net.up /\ net'.down = Append(net.down, a)
      /\ net'.fresh = net.fresh
  BY <1>1, <1>3 DEF Nets
<1>8. /\ broker'.sent = broker.sent + 1 /\ broker'.conn = broker.conn
      /\ broker'.out = IF qos = 0 THEN broker.out ELSE broker.out \cup {o}
  BY <1>1, <1>3 DEF Brokers
<1>9. ~net.fresh
  BY <1>2, <1>3 DEF Opened
<1>10. OutFits(broker')
  <2>1. broker'.sent <= MaxPublished
    BY <1>1, <1>3, <1>8
  <2>2. CASE qos = 0
    BY <1>1, <1>2, <1>8, <2>1, <2>2 DEF OutFits
  <2>3. CASE qos # 0
    <3>1. \A q \in broker.out : q.id # o.id /\ q.msg # o.msg
      BY <1>1, <1>2, <1>4, <1>5, <2>3 DEF OutFits
    <3>2. \A q \in broker.out : q.msg \in 1..broker'.sent
      BY <1>1, <1>2, <1>8 DEF OutFits
    <3>3. /\ o.id \in {1, 2} /\ o.qos \in InQoS \ {0} /\ ~o.rel
          /\ o.msg \in 1..broker'.sent
      BY <1>1, <1>4, <1>5, <1>8, <2>3
    <3> QED
      BY <1>2, <1>8, <2>1, <2>3, <3>1, <3>2, <3>3 DEF OutFits
  <2> QED
    BY <2>2, <2>3
<1>11. Opened(net', broker')
  BY <1>2, <1>3, <1>7, <1>8, <1>9 DEF Opened
<1>12. InTransit(net', broker')
  <2>1. CASE qos = 0
    <3>1. a \notin Msgs
      BY <1>6, <2>1
    <3>2. \A q \in broker.out : Sending(q) # a
      <4>1. \A q \in broker.out : q \in Outs /\ q.qos # 0
        BY <1>1, <1>2 DEF Brokers, OutFits
      <4> QED
        BY <3>1, <4>1, SendingIs
    <3>3. Lacks(net'.down, Msgs \ {Sending(q) : q \in broker.out})
      <4> DEFINE M == Msgs \ {Sending(q) : q \in broker.out}
      <4>1. Lacks(net.down, M) /\ a \notin M
        BY <1>2, <3>1 DEF InTransit
      <4> HIDE DEF M
      <4>2. Lacks(net'.down, M)
        BY <1>1, <1>6, <1>7, <4>1, LacksMore
      <4> QED
        BY <4>2 DEF M
    <3>4. ASSUME NEW q \in broker.out
          PROVE  /\ Once(net'.down, {Sending(q)})
                 /\ Lacks(net.down, {Sending(q)}) =>
                      Lacks(net'.down, {Sending(q)})
      <4>1. a \notin {Sending(q)} /\ Once(net.down, {Sending(q)})
        BY <1>2, <3>2 DEF InTransit
      <4> QED
        BY <1>1, <1>6, <1>7, <4>1, LacksMore, OnceMore
    <3> QED
      BY <1>2, <1>7, <1>8, <2>1, <3>3, <3>4 DEF InTransit
  <2>2. CASE qos # 0
    <3>1. a = Sending(o)
      BY <1>6, <2>2
    <3>2. \A q \in broker.out : q.id # o.id
      BY <1>4, <1>5, <2>2
    <3>3. broker'.out = broker.out \cup {o}
      BY <1>8, <2>2
    <3> QED
      BY <1>1, <1>2, <1>5, <1>7, <2>2, <3>1, <3>2, <3>3, TransitArrives
  <2> QED
    BY <2>1, <2>2
<1>13. SeenFits(c, net', broker', seen)
  <2>1. a \in Pubs => a.msg = broker.sent + 1
    BY <1>6
  <2>2. \/ broker'.out = broker.out
        \/ /\ broker'.out = broker.out \cup {o} /\ Sending(o) = a
           /\ o.msg = broker.sent + 1
    BY <1>5, <1>6, <1>8
  <2> QED
    BY <1>1, <1>2, <1>3, <1>6, <1>7, <1>8, <2>1, <2>2, SeenArrives
<1>14. KindFits(c, net', broker')
  BY <1>2, <1>7, <1>9 DEF KindFits
<1>15. DelFits(c', net', broker', seen')
  BY <1>3, <1>10, <1>11, <1>12, <1>13, <1>14 DEF DelFits
<1> QED
  BY <1>3, <1>7, <1>9, <1>15, DelNext

\* What the broker sends once more: each publish that waits, once.
LEMMA ResentIs ==
  ASSUME NEW b \in Brokers, OutFits(b)
  PROVE  /\ Resent(b.out) \in Seq(Packets)
         /\ \A i \in 1..Len(Resent(b.out)) :
              \E o \in b.out : Resent(b.out)[i] = Sending(o)
         /\ \A i, j \in 1..Len(Resent(b.out)) :
              Resent(b.out)[i].id = Resent(b.out)[j].id => i = j
<1> DEFINE out == b.out
           ids == {o.id : o \in out}
           of(id) == CHOOSE o \in out : o.id = id
<1>1. out \subseteq Outs
  BY DEF Brokers
<1>2. ASSUME NEW id \in ids
      PROVE  of(id) \in out /\ Sending(of(id)).id = id
             /\ Sending(of(id)) \in Packets
  <2>1. of(id) \in out /\ of(id).id = id
    OBVIOUS
  <2> HIDE DEF of, ids, out
  <2> QED
    BY <1>1, <2>1, SendingIs
<1>3. ids # {} => (CHOOSE id \in ids : TRUE) \in ids
  OBVIOUS
<1>4. Resent(b.out) = CASE ids = {} -> <<>>
        [] ids = {1, 2} -> <<Sending(of(1)), Sending(of(2))>>
        [] OTHER -> <<Sending(of(CHOOSE id \in ids : TRUE))>>
  BY DEF Resent
<1>5. Resent(b.out) \in Seq(Packets)
  BY <1>1, ResentPackets
<1> HIDE DEF ids, of
<1>6. CASE ids = {}
  <2>1. Resent(b.out) = <<>>
    BY <1>4, <1>6
  <2> QED
    BY <1>5, <2>1
<1>7. CASE ids = {1, 2}
  <2> DEFINE x == Sending(of(1))
             y == Sending(of(2))
  <2>1. Resent(b.out) = <<x, y>>
    BY <1>4, <1>7
  <2>2. /\ of(1) \in out /\ of(2) \in out /\ x.id = 1 /\ y.id = 2
        /\ x = Sending(of(1)) /\ y = Sending(of(2))
    BY <1>2, <1>7
  <2> HIDE DEF x, y
  <2>3. /\ Len(<<x, y>>) = 2 /\ <<x, y>>[1] = x /\ <<x, y>>[2] = y
    OBVIOUS
  <2>4. \A i \in 1..2 : i = 1 \/ i = 2
    OBVIOUS
  <2> QED
    BY <1>5, <2>1, <2>2, <2>3, <2>4
<1>8. CASE ids # {} /\ ids # {1, 2}
  <2> DEFINE id == CHOOSE id \in ids : TRUE
             x == Sending(of(id))
  <2>1. Resent(b.out) = <<x>>
    BY <1>4, <1>8
  <2>2. of(id) \in out /\ x = Sending(of(id))
    BY <1>2, <1>3, <1>8
  <2> HIDE DEF x, id
  <2>3. Len(<<x>>) = 1 /\ <<x>>[1] = x /\ \A i \in 1..1 : i = 1
    OBVIOUS
  <2> QED
    BY <1>5, <2>1, <2>2, <2>3
<1> QED
  BY <1>6, <1>7, <1>8

\* A connection is accepted: a session anew has nothing to send, and in one
\* that was kept each publish that waits is sent again.
LEMMA AcceptsDel ==
  ASSUME TypeInv, UNCHANGED <<use, c, call, seen>>, DelInv, net.up # <<>>,
         NEW p, p = Head(net.up), p.type = CONNECT, BrokerAccepts(p)
  PROVE  DelInv'
<1> DEFINE b == IF p.what = 1 \/ broker.clean
                THEN [NoSession EXCEPT !.acked = broker.acked,
                                       !.sent = broker.sent]
                ELSE broker
           e == [b EXCEPT !.conn = TRUE, !.clean = (p.what = 1)]
           q == Resent(b.out)
           r == Ack(CONNACK, 0) \o q
<1>1. /\ net \in Nets /\ broker \in Brokers /\ broker.sent \in Nat
      /\ net.up \in Seq(Packets) /\ net.down \in Seq(Packets)
      /\ p \in Packets
  BY StateParts, WiresAre
  DEF TypeInv, ClientFits, BrokerFits, Brokers
<1>2. /\ OutFits(broker) /\ Opened(net, broker) /\ InTransit(net, broker)
      /\ SeenFits(c, net, broker, seen) /\ KindFits(c, net, broker)
  BY DEF DelInv, DelFits
<1>3. Answer(e, r)
  BY DEF BrokerAccepts
<1>4. /\ b \in Brokers /\ b.sent = broker.sent
      /\ b.out \in {{}, broker.out} /\ (p.what = 1 => b.out = {})
  BY <1>1 DEF Brokers, NoSession
<1> HIDE DEF b
<1>5. /\ e.out = b.out /\ e.sent = broker.sent /\ e.conn
  BY <1>4 DEF Brokers
<1> HIDE DEF e
<1>6. OutFits(b) /\ OutFits(e)
  BY <1>2, <1>4, <1>5 DEF OutFits
<1>7. /\ q \in Seq(Packets)
      /\ \A i \in 1..Len(q) : \E o \in b.out : q[i] = Sending(o)
      /\ \A i, j \in 1..Len(q) : q[i].id = q[j].id => i = j
  BY <1>4, <1>6, ResentIs
<1> HIDE DEF q
<1>8. /\ r \in Seq(Packets)
      /\ \A P : Lacks(q, P) /\ P \subseteq Pubs \cup Msgs => Lacks(r, P)
      /\ \A P : Once(q, P) /\ P \subseteq Pubs \cup Msgs => Once(r, P)
  <2> DEFINE a == Ack(CONNACK, 0)
  <2>1. /\ a \in Seq(Packets) /\ Len(a) = 1 /\ a[1].type = CONNACK
    BY AckPackets
  <2> HIDE DEF a
  <2>2. r \in Seq(Packets)
    BY <1>7, <2>1 DEF a
  <2>3. ASSUME NEW P, P \subseteq Pubs \cup Msgs PROVE Lacks(a, P)
    <3>1. \A x \in P : x.type # CONNACK
      BY <2>3 DEF Pubs, Msgs, Of, PUBLISH, PUBREL, CONNACK
    <3>2. \A i \in 1..Len(a) : i = 1
      BY <2>1
    <3> QED
      BY <2>1, <3>1, <3>2 DEF Lacks
  <2>4. /\ \A P : Lacks(q, P) /\ P \subseteq Pubs \cup Msgs => Lacks(a \o q, P)
        /\ \A P : Once(q, P) /\ P \subseteq Pubs \cup Msgs => Once(a \o q, P)
    BY <1>7, <2>1, <2>3, LacksConcat, OnceConcat
  <2> QED
    BY <2>2, <2>4 DEF a
<1> HIDE DEF r
<1>9. /\ net'.up = Tail(net.up) /\ net'.down = net.down \o r
      /\ net'.fresh = net.fresh /\ broker' = e
  BY <1>1, <1>3, <1>8, AnswerNets
<1>10. p \in Of({CONNECT})
  BY <1>1 DEF Of
<1>11. /\ ~broker.conn /\ ~net.fresh
       /\ Lacks(net.up, Acks) /\ Lacks(net.down, Pubs \cup Msgs)
  <2>1. ~Lacks(net.up, Of({CONNECT}))
    <3>1. Len(net.up) >= 1 /\ net.up[1] = p
      BY <1>1
    <3> QED
      BY <1>10, <3>1 DEF Lacks
  <2> QED
    BY <1>2, <2>1 DEF Opened
<1>12. /\ Lacks(net'.up, Of({CONNECT})) /\ Once(net'.up, Of({CONNECT}))
       /\ Lacks(net'.up, Acks)
  BY <1>1, <1>2, <1>9, <1>10, <1>11, LacksLess, OnceLess DEF Opened
<1>13. ASSUME NEW P, P \subseteq Pubs \cup Msgs
       PROVE  /\ Lacks(q, P) => Lacks(net'.down, P)
              /\ Once(q, P) => Once(net'.down, P)
  <2>1. Lacks(net.down, P)
    BY <1>11, <1>13 DEF Lacks
  <2> QED
    BY <1>1, <1>8, <1>9, <1>13, <2>1, LacksConcat, OnceConcat
<1>14. Opened(net', e)
  BY <1>5, <1>9, <1>11, <1>12 DEF Opened
<1>15. b.out # {} => ~Anew
  <2>1. ASSUME Anew PROVE p.what = 1
    <3>1. Lacks(net.up, Without(CONNECT, 1))
      BY <1>2, <2>1 DEF KindFits
    <3>2. Len(net.up) >= 1 /\ net.up[1] = p
      BY <1>1
    <3>3. p \notin Without(CONNECT, 1)
      BY <3>1, <3>2 DEF Lacks
    <3> QED
      BY <1>10, <3>3 DEF Without
  <2> QED
    BY <1>4, <2>1
<1>16. \A o \in b.out : o \in Outs /\ Sending(o).id = o.id
  BY <1>4, SendingIs DEF Brokers
<1>17. InTransit(net', e)
  <2> DEFINE M == Msgs \ {Sending(o) : o \in e.out}
  <2>1. Lacks(q, M)
    BY <1>5, <1>7 DEF Lacks
  <2>2. M \subseteq Pubs \cup Msgs
    OBVIOUS
  <2> HIDE DEF M
  <2>3. Lacks(net'.down, M)
    BY <1>13, <2>1, <2>2
  <2>4. ASSUME NEW o \in e.out
        PROVE  /\ Once(net'.up, {AckFor(o)}) /\ Lacks(net'.up, {AckFor(o)})
               /\ Once(net'.down, {Sending(o)})
    <3>1. o \in Outs /\ o.qos # 0
      BY <1>5, <1>6, <1>16 DEF OutFits
    <3>2. AckFor(o) \in Acks /\ Sending(o) \in Msgs
      BY <3>1, AckForIs, SendingIs
    <3>3. Once(q, {Sending(o)})
      BY <1>7 DEF Once
    <3>4. Once(net'.down, {Sending(o)})
      BY <1>13, <3>2, <3>3
    <3> QED
      BY <1>12, <3>2, <3>4 DEF Lacks, Once
  <2>5. Lacks(net'.up, Acks \ {AckFor(o) : o \in e.out})
    BY <1>12 DEF Lacks
  <2> QED
    BY <2>3, <2>4, <2>5 DEF InTransit, M
<1>18. ASSUME NEW i \in 1..Len(q), q[i] \in Pubs
       PROVE  \E o \in b.out : /\ q[i] = Sending(o) /\ ~o.rel
                               /\ q[i].msg = o.msg
  <2>1. PICK o \in b.out : q[i] = Sending(o)
    BY <1>7
  <2>2. q[i].type = PUBLISH /\ PUBLISH # PUBREL
    BY <1>18 DEF Pubs, Of, PUBLISH, PUBREL
  <2>3. ~o.rel /\ q[i].msg = o.msg
    BY <1>16, <2>1, <2>2, SendingIs
  <2> QED
    BY <2>1, <2>3
<1>19. ASSUME NEW i \in 1..Len(q), NEW o \in b.out, q[i] \in Copies(o.msg)
       PROVE  q[i] = Sending(o) /\ ~o.rel
  <2>1. q[i] \in Pubs /\ q[i].msg = o.msg
    BY <1>19 DEF Copies
  <2>2. PICK x \in b.out : q[i] = Sending(x) /\ ~x.rel /\ q[i].msg = x.msg
    BY <1>18, <2>1
  <2>3. x = o
    BY <1>6, <2>1, <2>2 DEF OutFits
  <2> QED
    BY <2>2, <2>3
<1>20. SeenFits(c, net', e, seen)
  <2>1. ASSUME NEW m \in Nat PROVE Once(net'.down, Copies(m))
    <3>1. Once(q, Copies(m))
      <4> SUFFICES ASSUME NEW i \in 1..Len(q), NEW j \in 1..Len(q),
                          q[i] \in Copies(m), q[j] \in Copies(m)
                   PROVE  i = j
        BY DEF Once
      <4>1. q[i] \in Pubs /\ q[j].msg = q[i].msg /\ q[j] \in Pubs
        BY DEF Copies
      <4>2. PICK o \in b.out : q[i] = Sending(o) /\ q[i].msg = o.msg
        BY <1>18, <4>1
      <4>3. q[j] \in Copies(o.msg)
        BY <4>1, <4>2 DEF Copies
      <4>4. q[j] = Sending(o)
        BY <1>19, <4>3
      <4> QED
        BY <1>7, <4>2, <4>4
    <3>2. Copies(m) \subseteq Pubs \cup Msgs
      BY DEF Copies
    <3> QED
      BY <1>13, <3>1, <3>2
  <2>2. Lacks(net'.down, Unsent(e))
    <3>1. Lacks(q, Unsent(e))
      <4> SUFFICES ASSUME NEW i \in 1..Len(q), q[i] \in Unsent(e)
                   PROVE  FALSE
        BY DEF Lacks
      <4>1. q[i] \in Pubs /\ q[i].msg \notin 1..broker.sent
        BY <1>5 DEF Unsent
      <4>2. PICK o \in b.out : q[i].msg = o.msg
        BY <1>18, <4>1
      <4> QED
        BY <1>4, <1>6, <4>1, <4>2 DEF OutFits
    <3>2. Unsent(e) \subseteq Pubs \cup Msgs
      BY DEF Unsent
    <3> QED
      BY <1>13, <3>1, <3>2
  <2>3. ASSUME NEW o \in b.out, ~o.rel, seen[o.msg] > 0
        PROVE  Noted(c, Sending(o))
    <3>1. o \in broker.out /\ ~Anew
      BY <1>4, <1>15
    <3> QED
      BY <1>2, <2>3, <3>1 DEF SeenFits
  <2>4. Lacks(net'.down, Again(c, seen))
    <3>1. Lacks(q, Again(c, seen))
      <4> SUFFICES ASSUME NEW i \in 1..Len(q), q[i] \in Again(c, seen)
                   PROVE  FALSE
        BY DEF Lacks
      <4>1. q[i] \in Pubs /\ seen[q[i].msg] > 0 /\ ~Noted(c, q[i])
        BY DEF Again
      <4>2. PICK o \in b.out : q[i] = Sending(o) /\ ~o.rel /\ q[i].msg = o.msg
        BY <1>18, <4>1
      <4> QED
        BY <2>3, <4>1, <4>2
    <3>2. Again(c, seen) \subseteq Pubs \cup Msgs
      BY DEF Again
    <3> QED
      BY <1>13, <3>1, <3>2
  <2>5. ASSUME NEW o \in e.out
        PROVE  Lacks(net'.down, Copies(o.msg) \ {Sending(o)})
    <3> DEFINE P == Copies(o.msg) \ {Sending(o)}
    <3>1. Lacks(q, P)
      BY <1>5, <1>19 DEF Lacks
    <3>2. P \subseteq Pubs \cup Msgs
      BY DEF Copies
    <3> HIDE DEF P
    <3>3. Lacks(net'.down, P)
      BY <1>13, <3>1, <3>2
    <3> QED
      BY <3>3 DEF P
  <2>6. \A m \in Incoming : seen[m] <= 1 /\ (m > e.sent => seen[m] = 0)
    BY <1>2, <1>5 DEF SeenFits
  <2> QED
    BY <1>5, <2>1, <2>2, <2>3, <2>4, <2>5, <2>6 DEF SeenFits
<1>21. KindFits(c, net', e)
  <2>1. Lacks(net'.up, Without(CONNECT, 1))
    BY <1>12 DEF Lacks, Without
  <2> QED
    BY <1>2, <1>11, <2>1 DEF KindFits
<1>22. DelFits(c', net', broker', seen')
  BY <1>6, <1>9, <1>14, <1>17, <1>20, <1>21 DEF DelFits
<1> QED
  BY <1>9, <1>11, <1>22, DelNext

\* The broker takes a packet and sends none that matters.
LEMMA PlainDel ==
  ASSUME TypeInv, UNCHANGED <<use, c, call, seen>>, DelInv, net.up # <<>>,
         ~net.fresh, NEW b, b.out = broker.out, b.sent = broker.sent,
         b.conn = broker.conn, NEW packets, packets \in Seq(Packets),
         \A i \in 1..Len(packets) : packets[i].type \notin {PUBLISH, PUBREL},
         Answer(b, packets)
  PROVE  DelInv'
<1>1. /\ net \in Nets /\ net.up \in Seq(Packets)
      /\ net.down \in Seq(Packets)
  BY StateParts, WiresAre DEF TypeInv, ClientFits, BrokerFits
<1>2. /\ net'.up = Tail(net.up) /\ net'.down = net.down \o packets
      /\ net'.fresh = net.fresh /\ broker' = b
  BY <1>1, AnswerNets
<1>3. Less(net.up, net'.up, {CONNECT, PUBACK, PUBREC, PUBCOMP})
  BY <1>1, <1>2, LessFewer
<1>4. Less(net.down, net'.down, {PUBLISH, PUBREL})
  BY <1>1, <1>2, LessConcat
<1> QED
  BY <1>2, <1>3, <1>4, LossDel

\* The connection is refused or ends.
LEMMA ClosesDel ==
  ASSUME TypeInv, UNCHANGED <<use, c, call, seen>>, DelInv, ~net.fresh,
         BrokerRefuses \/ BrokerCloses
  PROVE  DelInv'
<1> DEFINE a == Packet(CONNACK, 0, 0, 5)
<1>1. /\ net \in Nets /\ net.up \in Seq(Packets)
      /\ net.down \in Seq(Packets)
  BY StateParts, WiresAre DEF TypeInv, ClientFits, BrokerFits
<1>2. /\ net'.up = <<>> /\ net'.fresh = net.fresh /\ broker' = broker
      /\ net'.down \in {net.down, net.down \o <<a>>}
  BY <1>1 DEF BrokerRefuses, BrokerCloses, Nets
<1>3. /\ <<a>> \in Seq(Packets) /\ Len(<<a>>) = 1 /\ <<a>>[1] = a
      /\ a.type \notin {PUBLISH, PUBREL}
  BY DEF Packet, Packets, PacketFields, PUBLISH, PUBREL, CONNACK
<1> HIDE DEF a
<1>4. Less(net.down, net.down \o <<a>>, {PUBLISH, PUBREL})
  <2>1. \A i \in 1..Len(<<a>>) : <<a>>[i].type \notin {PUBLISH, PUBREL}
    BY <1>3
  <2> QED
    BY <1>1, <1>3, <2>1, LessConcat
<1>5. /\ Less(net.up, net'.up, {CONNECT, PUBACK, PUBREC, PUBCOMP})
      /\ Less(net.down, net'.down, {PUBLISH, PUBREL})
  BY <1>2, <1>4, LessEmpty
<1> QED
  BY <1>2, <1>5, LossDel

\* A publish is acknowledged: it waits no more, or for PUBCOMP; neither it
\* nor its acknowledgement is under way any more.
TookAck(p, o) ==
  /\ p = AckFor(o) /\ net'.up = Tail(net.up) /\ net'.fresh = net.fresh
  /\ broker'.sent = broker.sent /\ broker'.conn = broker.conn
  /\ \/ /\ p.type = PUBREC /\ ~o.rel /\ o.qos = 2
        /\ \E q \in Outs :
             /\ q = [o EXCEPT !.rel = TRUE]
             /\ broker'.out = (broker.out \ {o}) \cup {q}
             /\ net'.down = net.down \o <<Sending(q)>>
        /\ broker'.acked = broker.acked
     \/ /\ p.type # PUBREC /\ (o.rel \/ o.qos = 1)
        /\ broker'.out = broker.out \ {o} /\ net'.down = net.down
        /\ broker'.acked = broker.acked \cup {o.msg}
LEMMA TakesAckIs ==
  ASSUME TypeInv, DelInv, net.up # <<>>, NEW p, p = Head(net.up), p \in Acks,
         BrokerTakesAck(p)
  PROVE  \E o \in broker.out : TookAck(p, o)
<1> DEFINE o == CHOOSE o \in broker.out : o.id = p.id
           ours == \E o1 \in broker.out : o1.id = p.id
           q == [o EXCEPT !.rel = TRUE]
<1>1. /\ net \in Nets /\ broker \in Brokers /\ net.up \in Seq(Packets)
      /\ net.down \in Seq(Packets) /\ p \in Packets /\ p.id \in Nat
  BY StateParts, WiresAre, MessageTypes
  DEF TypeInv, ClientFits, BrokerFits, Packets, PacketFields
<1>2. OutFits(broker) /\ InTransit(net, broker)
  BY DEF DelInv, DelFits
<1>3. PICK x \in broker.out : p = AckFor(x)
  <2>1. Len(net.up) >= 1 /\ net.up[1] = p
    BY <1>1
  <2>2. p \notin Acks \ {AckFor(x) : x \in broker.out}
    BY <1>2, <2>1 DEF InTransit, Lacks
  <2> QED
    BY <2>2
<1>4. x \in Outs /\ p.id = x.id
      /\ p.type = IF x.rel THEN PUBCOMP
                  ELSE IF x.qos = 1 THEN PUBACK ELSE PUBREC
  BY <1>1, <1>3, AckForIs DEF Brokers
<1>5. ours /\ o = x
  <2>1. ours /\ o \in broker.out /\ o.id = p.id
    BY <1>4
  <2> HIDE DEF o
  <2> QED
    BY <1>2, <1>4, <2>1 DEF OutFits
<1>6. x.qos \in {1, 2} /\ (x.rel => x.qos = 2)
  <2>1. x.qos \in 0..2 /\ x.qos # 0 /\ (x.rel => x.qos = 2)
    BY <1>2, <1>4 DEF OutFits, Outs
  <2> QED
    BY <2>1
<1>7. CASE p.type = PUBREC
  <2> DEFINE b == [broker EXCEPT !.out = (@ \ {o}) \cup {q}]
  <2>1. Answer(b, Ack(PUBREL, p.id))
    BY <1>5, <1>7 DEF BrokerTakesAck
  <2>2. ~x.rel /\ x.qos = 2
    BY <1>4, <1>6, <1>7 DEF PUBREC, PUBACK, PUBCOMP
  <2>3. q = [x EXCEPT !.rel = TRUE] /\ q \in Outs /\ q.rel /\ q.id = p.id
    BY <1>4, <1>5 DEF Outs
  <2>4. b = [broker EXCEPT !.out = (@ \ {x}) \cup {q}]
    BY <1>5
  <2> HIDE DEF q, o, ours, b
  <2>5. Ack(PUBREL, p.id) = <<Sending(q)>>
    BY <2>3 DEF Ack, Sending
  <2>6. /\ b.out = (broker.out \ {x}) \cup {q} /\ b.sent = broker.sent
        /\ b.conn = broker.conn /\ b.acked = broker.acked
    BY <1>1, <2>4 DEF Brokers
  <2>7. Ack(PUBREL, p.id) \in Seq(Packets)
    BY <1>1, AckPackets
  <2>8. /\ net'.up = Tail(net.up) /\ net'.fresh = net.fresh /\ broker' = b
        /\ net'.down = net.down \o Ack(PUBREL, p.id)
    BY <1>1, <2>1, <2>7, AnswerNets
  <2> QED
    BY <1>3, <1>7, <2>2, <2>3, <2>5, <2>6, <2>8 DEF TookAck
<1>8. CASE p.type # PUBREC
  <2> DEFINE b == [broker EXCEPT !.out = IF ours THEN @ \ {o} ELSE @,
                       !.acked = IF ours THEN @ \cup {o.msg} ELSE @]
  <2>1. Answer(b, <<>>)
    BY <1>5, <1>8 DEF BrokerTakesAck
  <2>2. x.rel \/ x.qos = 1
    BY <1>4, <1>8
  <2>3. b = [broker EXCEPT !.out = broker.out \ {x},
                           !.acked = broker.acked \cup {x.msg}]
    BY <1>5
  <2> HIDE DEF b
  <2>4. /\ b.out = broker.out \ {x} /\ b.sent = broker.sent
        /\ b.conn = broker.conn /\ b.acked = broker.acked \cup {x.msg}
    BY <1>1, <2>3 DEF Brokers
  <2>5. <<>> \in Seq(Packets) /\ net.down \o <<>> = net.down
    BY <1>1
  <2>6. /\ net'.up = Tail(net.up) /\ net'.fresh = net.fresh /\ broker' = b
        /\ net'.down = net.down
    BY <1>1, <2>1, <2>5, AnswerNets
  <2> QED
    BY <1>3, <1>8, <2>2, <2>4, <2>6 DEF TookAck
<1> QED
  BY <1>7, <1>8
LEMMA TakesAckDel ==
  ASSUME TypeInv, UNCHANGED <<use, c, call, seen>>, DelInv, net.up # <<>>,
         NEW p, p = Head(net.up), p \in Acks, BrokerTakesAck(p)
  PROVE  DelInv'
<1>1. /\ net \in Nets /\ broker \in Brokers /\ net.up \in Seq(Packets)
      /\ net.down \in Seq(Packets) /\ p \in Packets
      /\ \A x \in broker.out : x \in Outs
  BY StateParts, WiresAre, MessageTypes
  DEF TypeInv, ClientFits, BrokerFits, Brokers
<1>2. /\ OutFits(broker) /\ Opened(net, broker) /\ InTransit(net, broker)
      /\ SeenFits(c, net, broker, seen) /\ KindFits(c, net, broker)
  BY DEF DelInv, DelFits
<1>3. ~net.fresh /\ broker.conn
  <2>1. Len(net.up) >= 1 /\ net.up[1] = p
    BY <1>1
  <2>2. ~Lacks(net.up, Acks)
    BY <2>1 DEF Lacks
  <2> QED
    BY <1>2, <2>2 DEF Opened
<1>4. PICK o \in broker.out : TookAck(p, o)
  BY TakesAckIs
<1>5. o \in Outs /\ p.id = o.id
  BY <1>1, <1>4, AckForIs DEF TookAck
<1>6. /\ Lacks(net'.up, {AckFor(o)}) /\ Lacks(net.down, {Sending(o)})
  <2>1. Len(net.up) >= 1 /\ net.up[1] = p
    BY <1>1
  <2>2. ~Lacks(net.up, {AckFor(o)})
    BY <1>4, <2>1 DEF Lacks, TookAck
  <2>3. Once(net.up, {AckFor(o)}) /\ Lacks(net.down, {Sending(o)})
    BY <1>2, <2>2 DEF InTransit
  <2>4. Head(net.up) \in {AckFor(o)}
    BY <1>4 DEF TookAck
  <2> QED
    BY <1>1, <1>4, <2>3, <2>4, OnceLess DEF TookAck
<1>7. \A P : /\ Lacks(net.up, P) => Lacks(net'.up, P)
             /\ Once(net.up, P) => Once(net'.up, P)
  BY <1>1, <1>4, LacksLess, OnceLess DEF TookAck
<1>8. \A x \in broker.out : x # o => x.id # o.id /\ x.msg # o.msg
  BY <1>2 DEF OutFits
<1>9. PICK Q \in {{}} \cup {{q} : q \in Outs} :
        /\ broker'.out = (broker.out \ {o}) \cup Q
        /\ \A q \in Q : /\ q \in Outs /\ q.rel /\ q.id = o.id
                        /\ q.msg = o.msg /\ o.qos = 2 /\ q.qos = 2 /\ ~o.rel
        /\ \/ Q = {} /\ net'.down = net.down
           \/ \E q \in Q : net'.down = net.down \o <<Sending(q)>>
  <2>1. CASE broker'.out = broker.out \ {o} /\ net'.down = net.down
    <3>1. broker'.out = (broker.out \ {o}) \cup {}
      BY <2>1
    <3> QED
      BY <2>1, <3>1
  <2>2. ASSUME ~o.rel, o.qos = 2, NEW q \in Outs, q = [o EXCEPT !.rel = TRUE],
               broker'.out = (broker.out \ {o}) \cup {q},
               net'.down = net.down \o <<Sending(q)>>
        PROVE  \E Q \in {{}} \cup {{x} : x \in Outs} :
        /\ broker'.out = (broker.out \ {o}) \cup Q
        /\ \A x \in Q : /\ x \in Outs /\ x.rel /\ x.id = o.id
                        /\ x.msg = o.msg /\ o.qos = 2 /\ x.qos = 2 /\ ~o.rel
        /\ \/ Q = {} /\ net'.down = net.down
           \/ \E x \in Q : net'.down = net.down \o <<Sending(x)>>
    <3>1. q.rel /\ q.id = o.id /\ q.msg = o.msg /\ q.qos = o.qos
      BY <1>5, <2>2 DEF Outs
    <3> QED
      BY <2>2, <3>1
  <2> QED
    BY <1>4, <2>1, <2>2 DEF TookAck
<1>10. \A q \in Q : /\ Sending(q) \in Packets /\ Sending(q).type = PUBREL
                    /\ Sending(q).id = o.id /\ Sending(q) \in Msgs
                    /\ Sending(q) \notin Pubs
  <2>1. PUBREL # PUBLISH
    BY DEF PUBREL, PUBLISH
  <2>2. \A x \in Pubs : x.type = PUBLISH
    BY MessageTypes
  <2> QED
    BY <1>9, <2>1, <2>2, SendingIs
<1>11. \A P : /\ Lacks(net.down, P) /\ (\A q \in Q : Sending(q) \notin P)
                   => Lacks(net'.down, P)
              /\ Once(net.down, P) /\ (\A q \in Q : Sending(q) \notin P)
                   => Once(net'.down, P)
              /\ Lacks(net.down, P) => Once(net'.down, P)
  <2>1. CASE net'.down = net.down
    BY <2>1 DEF Lacks, Once
  <2>2. CASE \E q \in Q : net'.down = net.down \o <<Sending(q)>>
    <3>1. PICK q \in Q : net'.down = net.down \o <<Sending(q)>>
      BY <2>2
    <3>2. PICK a \in Packets : a = Sending(q)
      BY <1>10
    <3>3. net'.down = Append(net.down, a)
      BY <1>1, <3>1, <3>2
    <3> QED
      BY <1>1, <3>2, <3>3, LacksMore, OnceMore
  <2> QED
    BY <1>9, <2>1, <2>2
<1>12. OutFits(broker')
  <2>1. /\ o.id \in {1, 2} /\ o.qos \in InQoS \ {0}
        /\ o.msg \in 1..broker.sent
    BY <1>2 DEF OutFits
  <2>2. ASSUME NEW x \in broker'.out, NEW y \in broker'.out,
               x.id = y.id \/ x.msg = y.msg
        PROVE  x = y
    <3>1. CASE x \in broker.out /\ x # o
      <4>1. y \notin Q
        BY <1>8, <1>9, <2>2, <3>1
      <4> QED
        BY <1>2, <1>9, <2>2, <3>1, <4>1 DEF OutFits
    <3>2. CASE x \in Q
      <4>1. y \notin broker.out \ {o}
        BY <1>8, <1>9, <2>2, <3>2
      <4> QED
        BY <1>9, <3>2, <4>1
    <3> QED
      BY <1>9, <3>1, <3>2
  <2>3. ASSUME NEW x \in broker'.out
        PROVE  /\ x.id \in {1, 2} /\ x.qos \in InQoS \ {0}
               /\ x.msg \in 1..broker.sent /\ (x.rel => x.qos = 2)
    <3>1. CASE x \in broker.out
      BY <1>2, <3>1 DEF OutFits
    <3>2. CASE x \in Q
      BY <1>9, <2>1, <3>2
    <3> QED
      BY <1>9, <3>1, <3>2
  <2> QED
    BY <1>2, <1>4, <2>2, <2>3 DEF OutFits, TookAck
<1>13. Opened(net', broker')
  BY <1>2, <1>3, <1>4, <1>7 DEF Opened, TookAck
<1>14. InTransit(net', broker')
  <2> DEFINE A == Acks \ {AckFor(x) : x \in broker'.out}
             M == Msgs \ {Sending(x) : x \in broker'.out}
             B == Acks \ {AckFor(x) : x \in broker.out}
             N == Msgs \ {Sending(x) : x \in broker.out}
  <2>1. Lacks(net.up, B) /\ Lacks(net.down, N)
    BY <1>2 DEF InTransit
  <2>2. A \subseteq B \cup {AckFor(o)} /\ M \subseteq N \cup {Sending(o)}
        /\ \A q \in Q : Sending(q) \notin M
    BY <1>9
  <2>3. \A q \in Q : AckFor(q) \in B /\ Sending(q) \in N
    <3> SUFFICES ASSUME NEW q \in Q PROVE AckFor(q) \in B /\ Sending(q) \in N
      OBVIOUS
    <3>1. /\ AckFor(q) \in Acks /\ AckFor(q).type = PUBCOMP
          /\ AckFor(q).id = o.id
      BY <1>9, AckForIs
    <3>2. /\ AckFor(o).type # PUBCOMP /\ Sending(o).type # PUBREL
      <4>1. AckFor(o).type = PUBREC /\ Sending(o).type = PUBLISH
        BY <1>5, <1>9, AckForIs, SendingIs
      <4> QED
        BY <4>1 DEF PUBREC, PUBCOMP, PUBLISH, PUBREL
    <3>3. \A x \in broker.out : x # o =>
            AckFor(x).id # o.id /\ Sending(x).id # o.id
      BY <1>1, <1>8, AckForIs, SendingIs
    <3> QED
      BY <1>10, <3>1, <3>2, <3>3
  <2> HIDE DEF A, M, B, N
  <2>4. Lacks(net'.up, A)
    <3>1. Lacks(net'.up, B)
      BY <1>7, <2>1
    <3> QED
      BY <1>6, <2>2, <3>1 DEF Lacks
  <2>5. Lacks(net'.down, M)
    <3>1. Lacks(net.down, M)
      BY <1>6, <2>1, <2>2 DEF Lacks
    <3> QED
      BY <1>11, <2>2, <3>1
  <2>6. ASSUME NEW x \in broker'.out
        PROVE  /\ Once(net'.up, {AckFor(x)}) /\ Once(net'.down, {Sending(x)})
               /\ Lacks(net'.up, {AckFor(x)}) \/ Lacks(net'.down, {Sending(x)})
    <3>1. CASE x \in broker.out /\ x # o
      <4>1. /\ Once(net.up, {AckFor(x)}) /\ Once(net.down, {Sending(x)})
            /\ Lacks(net.up, {AckFor(x)}) \/ Lacks(net.down, {Sending(x)})
        BY <1>2, <3>1 DEF InTransit
      <4>2. \A q \in Q : Sending(q) \notin {Sending(x)}
        BY <1>1, <1>8, <1>10, <3>1, SendingIs
      <4> QED
        BY <1>7, <1>11, <4>1, <4>2
    <3>2. CASE x \in Q
      <4>1. Lacks(net.up, {AckFor(x)}) /\ Lacks(net.down, {Sending(x)})
        BY <2>1, <2>3, <3>2 DEF Lacks
      <4>2. Lacks(net'.up, {AckFor(x)})
        BY <1>7, <4>1
      <4> QED
        BY <1>11, <4>1, <4>2 DEF Lacks, Once
    <3> QED
      BY <1>9, <3>1, <3>2
  <2> QED
    BY <2>4, <2>5, <2>6 DEF InTransit, A, M
<1>15. ASSUME NEW P, P \subseteq Pubs
       PROVE  /\ Lacks(net.down, P) => Lacks(net'.down, P)
              /\ Once(net.down, P) => Once(net'.down, P)
  BY <1>10, <1>11, <1>15
<1>16. SeenFits(c, net', broker', seen)
  <2>1. \A m \in Nat : Once(net'.down, Copies(m))
    BY <1>2, <1>15 DEF SeenFits, Copies
  <2>2. Lacks(net'.down, Unsent(broker'))
    <3>1. Unsent(broker') = Unsent(broker) /\ Unsent(broker) \subseteq Pubs
      BY <1>4 DEF Unsent, TookAck
    <3> QED
      BY <1>2, <1>15, <3>1 DEF SeenFits
  <2>3. Lacks(net'.down, Again(c, seen))
    BY <1>2, <1>15 DEF SeenFits, Again
  <2>4. ASSUME NEW x \in broker'.out
        PROVE  /\ Lacks(net'.down, Copies(x.msg) \ {Sending(x)})
               /\ ~x.rel /\ seen[x.msg] > 0 => Anew \/ Noted(c, Sending(x))
    <3> DEFINE P == Copies(x.msg) \ {Sending(x)}
    <3>1. P \subseteq Pubs
      BY DEF Copies
    <3>2. Lacks(net.down, P)
      <4>1. CASE x \in broker.out
        BY <1>2, <4>1 DEF SeenFits
      <4>2. CASE x \in Q
        <5>1. Lacks(net.down, Copies(o.msg) \ {Sending(o)})
          BY <1>2 DEF SeenFits
        <5> QED
          BY <1>6, <1>9, <4>2, <5>1 DEF Lacks
      <4> QED
        BY <1>9, <4>1, <4>2
    <3> HIDE DEF P
    <3>3. Lacks(net'.down, P)
      BY <1>15, <3>1, <3>2
    <3>4. ~x.rel /\ seen[x.msg] > 0 => Anew \/ Noted(c, Sending(x))
      BY <1>2, <1>9 DEF SeenFits
    <3> QED
      BY <3>3, <3>4 DEF P
  <2> QED
    BY <1>2, <1>4, <2>1, <2>2, <2>3, <2>4 DEF SeenFits, TookAck
<1>17. KindFits(c, net', broker')
  BY <1>2, <1>3, <1>7 DEF KindFits
<1>18. DelFits(c', net', broker', seen')
  BY <1>12, <1>13, <1>14, <1>16, <1>17 DEF DelFits
<1> QED
  BY <1>3, <1>4, <1>18, DelNext DEF TookAck

LEMMA BrokerDel ==
  ASSUME TypeInv, UNCHANGED use, DelInv, Broker PROVE DelInv'
<1> DEFINE p == Head(net.up)
<1>1. PICK refuse : BrokerStep(refuse)
  BY DEF Broker
<1>2. /\ net \in Nets /\ broker \in Brokers /\ net.up # <<>>
      /\ UNCHANGED <<use, c, call, seen>>
  BY <1>1, StateParts DEF TypeInv, ClientFits, BrokerFits, BrokerStep, Broker,
                          Others
<1>3. p \in Packets /\ p.id \in Nat /\ p.qos \in 0..3
  <2>1. p \in Packets
    BY <1>2, WiresAre
  <2> QED
    BY <2>1 DEF Packets, PacketFields
<1>4. ~net.fresh
  BY <1>2 DEF DelInv, DelFits, Opened
<1>5. \/ p.type = CONNECT /\ BrokerAccepts(p)
      \/ BrokerRefuses \/ BrokerCloses
      \/ broker.conn /\ BrokerConnected(p)
  BY <1>1 DEF BrokerStep
<1> DEFINE Plain(packets) ==
      /\ packets \in Seq(Packets)
      /\ \A i \in 1..Len(packets) :
           packets[i].type \notin {PUBLISH, PUBREL}
<1> HIDE DEF p
<1>6. ASSUME NEW b, b.conn = broker.conn, b.out = broker.out,
             b.sent = broker.sent,
             NEW packets, Plain(packets), Answer(b, packets)
      PROVE  DelInv'
  BY <1>2, <1>4, <1>6, PlainDel
<1>7. Plain(<<>>)
  <2>1. <<>> \in Seq(Packets) /\ Len(<<>>) = 0 /\ 1..0 = {}
    OBVIOUS
  <2> QED
    BY <2>1
<1> DEFINE Plains == {PUBACK, PUBREC, PUBCOMP, SUBACK, UNSUBACK, PINGRESP}
<1>8. ASSUME NEW a \in Packets, a.type \in Plains
      PROVE  Plain(<<a>>)
  <2> DEFINE r == <<a>>
  <2>1. a.type \notin {PUBLISH, PUBREL}
    BY <1>8 DEF PUBLISH, PUBREL, SUBACK, UNSUBACK, PINGRESP, PUBACK, PUBREC,
                PUBCOMP
  <2>2. r \in Seq(Packets) /\ Len(r) = 1 /\ r[1] = a
    OBVIOUS
  <2> HIDE DEF r
  <2>3. Plain(r)
    BY <2>1, <2>2
  <2> QED
    BY <2>3 DEF r
<1>9. ASSUME NEW type \in Plains, NEW id \in Nat
      PROVE  Plain(Ack(type, id))
  <2>1. /\ Packet(type, id, 0, 0) \in Packets
        /\ Packet(type, id, 0, 0).type = type
    BY DEF Packet, Packets, PacketFields, PUBACK, PUBREC, PUBCOMP, SUBACK,
           UNSUBACK, PINGRESP, CONNACK
  <2> QED
    BY <1>8, <2>1 DEF Ack
<1> HIDE DEF Plain
<1>10. CASE p.type = CONNECT /\ BrokerAccepts(p)
  BY <1>2, <1>10, AcceptsDel DEF p
<1>11. CASE BrokerRefuses \/ BrokerCloses
  BY <1>2, <1>4, <1>11, ClosesDel
<1>12. CASE p.type = PUBLISH /\ BrokerTakesPublish(p)
  <2> DEFINE b == IF p.qos = 2 THEN [broker EXCEPT !.taken = @ \cup {p.id}]
                  ELSE broker
             r == CASE p.qos = 0 -> <<>> [] p.qos = 1 -> Ack(PUBACK, p.id)
                    [] OTHER -> Ack(PUBREC, p.id)
  <2>1. Answer(b, r)
    BY <1>12 DEF BrokerTakesPublish
  <2>2. /\ b.conn = broker.conn /\ b.out = broker.out
        /\ b.sent = broker.sent
    BY <1>2 DEF Brokers
  <2>3. r \in {<<>>, Ack(PUBACK, p.id), Ack(PUBREC, p.id)}
    OBVIOUS
  <2> HIDE DEF b, r
  <2>4. Plain(r)
    BY <1>3, <1>7, <1>9, <2>3
  <2> QED
    BY <1>6, <2>1, <2>2, <2>4
<1>13. CASE p.type \in {PUBACK, PUBREC, PUBCOMP} /\ BrokerTakesAck(p)
  <2>1. p \in Acks
    BY <1>3, <1>13 DEF Acks, Of
  <2> QED
    BY <1>2, <1>13, <2>1, TakesAckDel DEF p
<1>14. CASE Answer([broker EXCEPT !.taken = @ \ {p.id}], Ack(PUBCOMP, p.id))
  <2> DEFINE b == [broker EXCEPT !.taken = @ \ {p.id}]
  <2>1. /\ b.conn = broker.conn /\ b.out = broker.out
        /\ b.sent = broker.sent
    BY <1>2 DEF Brokers
  <2> HIDE DEF b
  <2>2. Answer(b, Ack(PUBCOMP, p.id))
    BY <1>14 DEF b
  <2> QED
    BY <1>3, <1>6, <1>9, <2>1, <2>2
<1>15. CASE Answer([broker EXCEPT !.subs = @ \cup {p.what}], Ack(SUBACK, p.id))
  <2> DEFINE b == [broker EXCEPT !.subs = @ \cup {p.what}]
  <2>1. /\ b.conn = broker.conn /\ b.out = broker.out
        /\ b.sent = broker.sent
    BY <1>2 DEF Brokers
  <2> HIDE DEF b
  <2>2. Answer(b, Ack(SUBACK, p.id))
    BY <1>15 DEF b
  <2> QED
    BY <1>3, <1>6, <1>9, <2>1, <2>2
<1>16. CASE Answer(broker, <<Packet(SUBACK, p.id, 0, 128)>>)
  <2> DEFINE a == Packet(SUBACK, p.id, 0, 128)
  <2>1. a \in Packets /\ a.type = SUBACK
    BY <1>3 DEF Packet, Packets, PacketFields, SUBACK, CONNACK
  <2>2. Answer(broker, <<a>>)
    BY <1>16
  <2> HIDE DEF a
  <2>3. Plain(<<a>>)
    BY <1>8, <2>1
  <2> QED
    BY <1>6, <2>2, <2>3
<1>17. CASE Answer([broker EXCEPT !.subs = @ \ {p.what}], Ack(UNSUBACK, p.id))
  <2> DEFINE b == [broker EXCEPT !.subs = @ \ {p.what}]
  <2>1. /\ b.conn = broker.conn /\ b.out = broker.out
        /\ b.sent = broker.sent
    BY <1>2 DEF Brokers
  <2> HIDE DEF b
  <2>2. Answer(b, Ack(UNSUBACK, p.id))
    BY <1>17 DEF b
  <2> QED
    BY <1>3, <1>6, <1>9, <2>1, <2>2
<1>18. CASE Answer(broker, Ack(PINGRESP, 0))
  BY <1>6, <1>9, <1>18
<1> QED
  BY <1>5, <1>10, <1>11, <1>12, <1>13, <1>14, <1>15, <1>16, <1>17, <1>18
  DEF BrokerConnected

-----------------------------------------------------------------------------
(* Every step keeps it, and what it says of the messages.                  *)
LEMMA DelInit == ASSUME TypeInv, MqttInit PROVE DelInv
<1>1. /\ net.up = <<>> /\ net.down = <<>> /\ net.fresh
      /\ ~c.isconnected /\ c.cleansession /\ call.op = "idle"
      /\ ~broker.conn /\ broker.out = {} /\ broker.sent = 0
      /\ \A m \in Incoming : seen[m] = 0
  BY DEF MqttInit, NewNet, Idle, NoSession
<1>2. \A P : /\ Lacks(net.up, P) /\ Lacks(net.down, P)
             /\ Once(net.up, P) /\ Once(net.down, P)
  BY <1>1 DEF Lacks, Once
<1>3. MaxPublished \in Nat
  <2>1. use \in DOMAIN Uses
    BY DEF MqttInit
  <2> QED
    BY <2>1, UseTypes
<1>4. OutFits(broker) /\ Opened(net, broker) /\ InTransit(net, broker)
  BY <1>1, <1>2, <1>3 DEF OutFits, Opened, InTransit
<1>5. SeenFits(c, net, broker, seen)
  BY <1>1, <1>2 DEF SeenFits
<1>6. KindFits(c, net, broker)
  BY <1>1, <1>2 DEF KindFits
<1> QED
  BY <1>1, <1>4, <1>5, <1>6 DEF DelInv, DelFits, Unopened
LEMMA DelKept ==
  ASSUME OnceIn(use), TypeInv, DelInv, [MqttNext]_<<mqttVars, use>>
  PROVE  DelInv'
<1>1. CASE UNCHANGED <<mqttVars, use>>
  <2>1. /\ DelFits(c', net', broker', seen') /\ UNCHANGED use
        /\ net'.fresh => ~c'.isconnected /\ call'.op = "idle"
    BY <1>1 DEF mqttVars, DelInv, Unopened
  <2> QED
    BY <2>1, DelNext
<1>2. CASE MqttNext
  <2>1. UNCHANGED use /\ InQoS \subseteq 0..2
    BY <1>2, UseTypes DEF MqttNext, TypeInv
  <2>2. CASE Cycle \/ Expire
    BY <2>1, <2>2, CycleDels, ExpireDel
  <2>3. CASE OpenNetwork \/ Yield \/ Disconnect \/ Tick
    BY <2>1, <2>3, OpenNetworkDel, YieldDel, DisconnectDel, TickDel
  <2>4. CASE Broker
    BY <2>1, <2>4, BrokerDel
  <2>5. CASE \E clean \in CleanOptions : MqttConnect(clean)
    BY <2>1, <2>5, ConnectDel
  <2>6. CASE \E qos \in OutQoS, long \in BOOLEAN : Publish(qos, long)
    BY <2>1, <2>6, PublishDel
  <2>7. CASE \E topic \in Topics : Subscribe(topic) \/ Unsubscribe(topic)
    BY <2>1, <2>7, AskDel
  <2>8. CASE \E topic \in Topics, qos \in InQoS : Arrives(topic, qos, FALSE)
    BY <2>1, <2>8, ArrivesDel
  <2>9. CASE \E topic \in Topics : 0 \in InQoS /\ Arrives(topic, 0, TRUE)
    BY <2>1, <2>9, ArrivesDel
  <2>10. CASE \E how \in {"cut", "closed"} : Fails(how)
    BY <2>1, <2>10, FailsDel
  <2> QED
    BY <1>2, <2>2, <2>3, <2>4, <2>5, <2>6, <2>7, <2>8, <2>9, <2>10
    DEF MqttNext, MqttStep
<1> QED
  BY <1>1, <1>2

\* No message is handed to the application twice: not in clean sessions, and
\* not in kept ones, where the broker repeats a publish and the table of
\* incoming QoS 2 ids has to outlive the connection.
THEOREM HandedOnOnce ==
  ASSUME SentOnce PROVE MqttSpec => []QoS2AtMostOnce
<1>1. TypeInv /\ MqttInit => DelInv
  BY DelInit
<1>2. TypeInv /\ DelInv /\ [MqttNext]_<<mqttVars, use>> => DelInv'
  BY DelKept DEF SentOnce, TypeInv
<1>3. DelInv => QoS2AtMostOnce
  BY DEF DelInv, DelFits, SeenFits, QoS2AtMostOnce
<1> QED
  BY <1>1, <1>2, <1>3, TypesHold, PTL DEF MqttSpec

-----------------------------------------------------------------------------
(***************************************************************************)
(* What the broker forgets has been handed on.  It forgets a message when  *)
(* its PUBACK or PUBCOMP comes, and the client of MQTTClient.h sends those *)
(* whatever became of the message; so in a session the client must know    *)
(* each topic that it may be sent.  Between a SUBSCRIBE and its SUBACK it  *)
(* does not, and then it is the order of the packets that saves it.        *)
(***************************************************************************)

\* A use in which it does: its sessions are clean, it yields only in one, and
\* for QoS 2 it has the state machine and a table for the two ids there are.
AttendsTo(u) ==
  /\ FALSE \notin Uses[u].clean /\ ~Uses[u].yieldsAnyway
  /\ 2 \in Uses[u].inQoS =>
       Uses[u].qos2build /\ MAX_INCOMING_QOS2_MESSAGES >= 2

\* What waits for an acknowledgement; what cycle() takes for an error, and
\* what is never sent to a client, or by one, that was built without QoS 2.
Told == {p \in Pubs : p.qos # 0}
Strange == {p \in Packets : p.type \notin Handled}
Elaborate ==
  {p \in Packets : \/ p.type \in {PUBREC, PUBREL}
                   \/ p.type = PUBLISH /\ p.qos \notin {0, 1}}
OnlyHandled(nn) ==
  Lacks(nn.down, Strange) /\ (QOS2Build \/ Lacks(nn.up, Elaborate))

\* A clean session and the connection it lasts: there is nothing to send
\* again, it is accepted before it is there, and a call goes on without one
\* only until it is, or when nothing can be read any more.
Calm(cc, nn, k, b) ==
  /\ cc.cleansession /\ cc.inflight.id = 0 /\ k.op # "resend"
  /\ b.conn \/ (~cc.isconnected /\ Lacks(nn.down, With(CONNACK, 0)))
  /\ ~cc.isconnected => /\ cc.qos2ids = {}
                        /\ k.op \in {"idle", "connect"} \/ nn.junk
  /\ k.op = "connect" => Lacks(nn.down, Told)

\* What is on its way has a handler, or the SUBACK that brings it is before
\* it; behind an UNSUBACK nothing of the topic comes.
Awaits(k, q, i) ==
  /\ k.op = "subscribe" /\ q[i].what = k.topic
  /\ \E j \in 1..Len(q) : j < i /\ q[j] \in With(SUBACK, 0)
Hears(cc, q, k, b) ==
  /\ \A i \in 1..Len(q) :
       q[i] \in Told => Heard(cc, q[i]) \/ Awaits(k, q, i)
  /\ k.op = "subscribe" /\ k.topic \in b.subs \ cc.handlers =>
       ~Lacks(q, With(SUBACK, 0))
  /\ k.op = "unsubscribe" =>
       \A i, j \in 1..Len(q) :
         q[i] \in Told /\ q[i].what = k.topic /\ q[j] \in Of({UNSUBACK}) =>
           i < j

\* An id in the table of incoming QoS 2 ids is that of a message the client
\* has and has not acknowledged for good.
Filed(cc, nn, b) ==
  \A id \in cc.qos2ids :
    \E o \in b.out : /\ o.id = id /\ o.qos = 2
                     /\ IF o.rel THEN Lacks(nn.up, {AckFor(o)})
                                 ELSE Lacks(nn.down, {Sending(o)})

\* What is acknowledged, or past its PUBREC, or about to be, was handed on.
Handed(nn, b, sn) ==
  /\ \A m \in b.acked : m \in Incoming /\ sn[m] > 0
  /\ \A o \in b.out : o.rel \/ ~Lacks(nn.up, {AckFor(o)}) => sn[o.msg] > 0

Live(cc, nn) == nn.link = "up" /\ ~nn.junk /\ cc.isconnected
HearFits(cc, nn, k, b, sn) ==
  /\ OnlyHandled(nn) /\ Calm(cc, nn, k, b) /\ Handed(nn, b, sn)
  /\ Live(cc, nn) => Hears(cc, nn.down, k, b) /\ Filed(cc, nn, b)
HearInv == HearFits(c, net, call, broker, seen)

LEMMA HearNext ==
  ASSUME UNCHANGED use, HearFits(c', net', call', broker', seen')
  PROVE  HearInv'
<1>1. /\ Pubs' = Pubs /\ Handled' = Handled /\ Packets' = Packets
      /\ QOS2Build' = QOS2Build /\ HasDefault' = HasDefault
      /\ Incoming' = Incoming
  BY SameUse DEF Pubs, Of, Handled, HasDefault
<1>2. /\ Told' = Told /\ Strange' = Strange /\ Elaborate' = Elaborate
      /\ \A y, w : With(y, w)' = With(y, w)
      /\ \A types : Of(types)' = Of(types)
  BY <1>1 DEF Told, Strange, Elaborate, With, Of
<1>3. OnlyHandled(net)'
  BY <1>1, <1>2 DEF HearFits, OnlyHandled, Lacks
<1>4. Calm(c, net, call, broker)' /\ Live(c, net)' = Live(c', net')
  BY <1>2 DEF HearFits, Calm, Lacks, Live
<1>5. Handed(net, broker, seen)'
  BY <1>1 DEF HearFits, Handed, Lacks, AckFor
<1>6. ASSUME Hears(c', net'.down, call', broker')
      PROVE  Hears(c, net.down, call, broker)'
  BY <1>1, <1>2, <1>6 DEF Hears, Heard, Awaits, Lacks
<1>7. ASSUME Filed(c', net', broker')
      PROVE  Filed(c, net, broker)'
  BY <1>7 DEF Filed, Lacks, AckFor, Sending
<1> QED
  BY <1>3, <1>4, <1>5, <1>6, <1>7 DEF HearInv, HearFits
HearFit(s, k) == Good(s) /\ HearFits(s.c, s.net, k, broker, s.seen)
LEMMA HearReturn ==
  ASSUME UNCHANGED <<use, broker>>, NEW op, NEW rc, NEW d, Return(op, rc, d),
         HearFit(d, Idle)
  PROVE  HearInv'
BY HearNext DEF Return, Apply, HearFit
LEMMA HearWait ==
  ASSUME UNCHANGED <<use, broker>>, NEW k, NEW d, Wait(k, d), HearFit(d, k)
  PROVE  HearInv'
BY HearNext DEF Wait, Apply, HearFit

\* What the two wires owe to no session.
HearNet(nn, b, sn) ==
  /\ OnlyHandled(nn) /\ Handed(nn, b, sn)
  /\ b.conn \/ Lacks(nn.down, With(CONNACK, 0))

\* Fewer acknowledgements are under way.
LEMMA FewerAcks ==
  ASSUME NEW u, NEW v, Less(u, v, {PUBACK, PUBREC, PUBCOMP}),
         NEW b \in Brokers
  PROVE  \A o \in b.out : Lacks(u, {AckFor(o)}) => Lacks(v, {AckFor(o)})
<1> SUFFICES ASSUME NEW o \in b.out, Lacks(u, {AckFor(o)})
             PROVE  Lacks(v, {AckFor(o)})
  OBVIOUS
<1>1. AckFor(o).type \in {PUBACK, PUBREC, PUBCOMP}
  BY AckForIs DEF Brokers
<1> QED
  BY <1>1 DEF Less
LEMMA HandedQuiet ==
  ASSUME NEW nn, NEW mm, NEW b \in Brokers, NEW sn, Handed(nn, b, sn),
         Less(nn.up, mm.up, {PUBACK, PUBREC, PUBCOMP})
  PROVE  Handed(mm, b, sn)
BY FewerAcks DEF Handed
LEMMA HearQuiet ==
  ASSUME NEW cc, NEW nn, NEW mm, NEW k, NEW b \in Brokers, NEW sn,
         HearFits(cc, nn, k, b, sn),
         mm.down = nn.down, mm.link = nn.link, mm.junk = nn.junk,
         Less(nn.up, mm.up, {PUBACK, PUBREC, PUBCOMP}),
         QOS2Build \/ (Lacks(nn.up, Elaborate) => Lacks(mm.up, Elaborate))
  PROVE  HearFits(cc, mm, k, b, sn)
<1>1. \A o \in b.out : Lacks(nn.up, {AckFor(o)}) => Lacks(mm.up, {AckFor(o)})
  BY FewerAcks
<1>2. OnlyHandled(mm) /\ Calm(cc, mm, k, b) /\ Handed(mm, b, sn)
  BY HandedQuiet DEF HearFits, OnlyHandled, Calm
<1>3. Filed(cc, nn, b) => Filed(cc, mm, b)
  BY <1>1 DEF Filed
<1> QED
  BY <1>2, <1>3 DEF HearFits, Live

\* A packet is sent that acknowledges nothing.
LEMMA HearSent ==
  ASSUME use \in DOMAIN Uses, broker \in Brokers, NEW k, NEW s, HearFit(s, k),
         NEW p \in Packets, p.type \notin {PUBACK, PUBREC, PUBCOMP},
         QOS2Build \/ p \notin Elaborate,
         NEW d, d = sendPacket(s, p)
  PROVE  HearFit(d, k) /\ d.c = s.c /\ d.net.down = s.net.down
<1>1. /\ s \in States /\ Good(d) /\ Same(s, d) /\ d.c = s.c
      /\ d.net.up \in {s.net.up, Append(s.net.up, p)}
  BY AskSent DEF HearFit, Good
<1>2. d.seen = s.seen
  BY <1>1, SendPacketGood
<1>3. s.net.up \in Seq(Packets)
  BY <1>1 DEF States, Nets
<1>4. /\ Less(s.net.up, d.net.up, {PUBACK, PUBREC, PUBCOMP})
      /\ d.net.down = s.net.down /\ d.net.link = s.net.link
      /\ d.net.junk = s.net.junk
  BY <1>1, <1>3, LessEmpty, LessMore DEF Same
<1>5. QOS2Build \/ (Lacks(s.net.up, Elaborate) => Lacks(d.net.up, Elaborate))
  BY <1>1, <1>3, LacksMore
<1>6. HearFits(s.c, s.net, k, broker, s.seen)
  BY DEF HearFit
<1>7. HearFits(s.c, d.net, k, broker, s.seen)
  BY <1>4, <1>5, <1>6, HearQuiet
<1> QED
  BY <1>1, <1>2, <1>4, <1>7 DEF HearFit

\* The session is gone: what is on its way has nothing to be heard by.
LEMMA HearGone ==
  ASSUME NEW cc, ~cc.isconnected, cc.cleansession, cc.inflight.id = 0,
         cc.qos2ids = {}, NEW nn, NEW b, NEW sn, HearNet(nn, b, sn),
         NEW k, k.op # "resend", k.op \in {"idle", "connect"} \/ nn.junk,
         k.op = "connect" => Lacks(nn.down, Told)
  PROVE  HearFits(cc, nn, k, b, sn)
BY DEF HearFits, HearNet, Calm, Live
LEMMA HearClosed ==
  ASSUME use \in DOMAIN Uses, NEW s, Good(s), s.c.cleansession,
         HearNet(s.net, broker, s.seen), NEW d, d = closeSession(s)
  PROVE  HearFit(d, Idle)
<1>1. /\ Good(d) /\ ~d.c.isconnected /\ d.net = s.net /\ d.seen = s.seen
      /\ d.c.cleansession /\ d.c.inflight = NoInflight /\ d.c.qos2ids = {}
  BY CloseSessionGood, CloseSessionIs
<1>2. d.c.inflight.id = 0 /\ Idle.op = "idle"
  BY <1>1 DEF NoInflight, Idle
<1> QED
  BY <1>1, <1>2, HearGone DEF HearFit

\* A call begins, or one ends that asked for nothing.
LEMMA HearCall ==
  ASSUME NEW cc, NEW nn, NEW k, NEW b, NEW sn, HearFits(cc, nn, k, b, sn),
         k.op \notin {"subscribe", "unsubscribe"},
         NEW l, l.op \notin {"resend", "connect"},
         cc.isconnected \/ l.op = "idle" \/ nn.junk,
         cc.isconnected /\ l.op = "subscribe" => b.subs \subseteq cc.handlers,
         cc.isconnected /\ l.op = "unsubscribe" =>
           Lacks(nn.down, Of({UNSUBACK}))
  PROVE  HearFits(cc, nn, l, b, sn)
<1>1. Calm(cc, nn, l, b)
  BY DEF HearFits, Calm
<1>2. ASSUME Live(cc, nn) PROVE Hears(cc, nn.down, l, b)
  <2>1. Hears(cc, nn.down, k, b) /\ cc.isconnected
    BY <1>2 DEF HearFits, Live
  <2>2. \A i \in 1..Len(nn.down) : nn.down[i] \in Told => Heard(cc, nn.down[i])
    BY <2>1 DEF Hears, Awaits
  <2> QED
    BY <2>1, <2>2 DEF Hears, Lacks
<1> QED
  BY <1>1, <1>2 DEF HearFits

-----------------------------------------------------------------------------
(* connect(), and the ends of calls.                                       *)

\* Nothing is sent again, so connect() ends with what CONNACK says.
LEMMA EndConnectHear ==
  ASSUME UNCHANGED <<use, broker>>, NEW rc, NEW s, EndConnect(rc, s), Good(s),
         HearNet(s.net, broker, s.seen), s.c.cleansession,
         s.c.inflight.id = 0, s.c.qos2ids = {}, ~s.c.isconnected,
         rc = SUCCESS => broker.conn /\ Lacks(s.net.down, Told)
  PROVE  HearInv'
<1>0. Idle.op = "idle"
  BY DEF Idle
<1>1. CASE rc # SUCCESS
  <2>1. HearFit(s, Idle)
    BY <1>0, HearGone DEF HearFit
  <2> QED
    BY <1>1, <2>1, HearReturn DEF EndConnect
<1>2. CASE rc = SUCCESS
  <2> DEFINE d == connected(s)
  <2>1. Return("connect", rc, d)
    BY <1>2 DEF EndConnect
  <2>2. /\ Good(d) /\ d.net = s.net /\ d.c.cleansession = s.c.cleansession
    BY ConnectedGood
  <2>3. /\ d.seen = s.seen /\ d.c.qos2ids = s.c.qos2ids
        /\ d.c.inflight = s.c.inflight
    BY DEF connected, Good, States, Sessions
  <2> HIDE DEF d
  <2>4. Calm(d.c, d.net, Idle, broker)
    BY <1>0, <1>2, <2>2, <2>3 DEF Calm
  <2>5. Hears(d.c, d.net.down, Idle, broker)
    BY <1>0, <1>2, <2>2 DEF Hears, Lacks
  <2>6. Filed(d.c, d.net, broker)
    BY <2>3 DEF Filed
  <2>7. HearFit(d, Idle)
    BY <2>2, <2>3, <2>4, <2>5, <2>6 DEF HearFit, HearFits, HearNet
  <2> QED
    BY <2>1, <2>7, HearReturn
<1> QED
  BY <1>1, <1>2
LEMMA ResendHear ==
  ASSUME UNCHANGED <<use, broker>>, NEW rc, NEW s, NEW expired,
         resend(s, rc, expired), Good(s),
         HearNet(s.net, broker, s.seen), s.c.cleansession,
         s.c.inflight.id = 0, s.c.qos2ids = {}, ~s.c.isconnected,
         rc = SUCCESS => broker.conn /\ Lacks(s.net.down, Told)
  PROVE  HearInv'
<1>1. EndConnect(rc, s)
  BY DEF resend
<1> QED
  BY <1>1, EndConnectHear
LEMMA MissedHear ==
  ASSUME use \in DOMAIN Uses, UNCHANGED <<use, broker>>, NEW s,
         NEW expired, Missed(s, expired), Good(s),
         HearNet(s.net, broker, s.seen), s.c.cleansession,
         s.c.inflight.id = 0, call.op # "resend",
         call.op = "connect" => s.c.qos2ids = {} /\ ~s.c.isconnected
  PROVE  HearInv'
<1>1. CASE call.op = "connect"
  <2>1. resend(s, FAILURE, expired) /\ FAILURE # SUCCESS
    BY <1>1 DEF Missed, FAILURE, SUCCESS
  <2> QED
    BY <1>1, <2>1, ResendHear
<1>2. CASE call.op # "connect"
  <2> DEFINE d == closeSession(s)
  <2>1. Return(call.op, FAILURE, d)
    BY <1>2 DEF Missed
  <2> HIDE DEF d
  <2>2. HearFit(d, Idle)
    BY HearClosed DEF d
  <2> QED
    BY <2>1, <2>2, HearReturn
<1> QED
  BY <1>1, <1>2

-----------------------------------------------------------------------------
(* What is read and acknowledged is handed on.                             *)

LEMMA ToldTypes ==
  \A p \in Told : /\ p \in Pubs /\ p \in Msgs /\ p \in Packets
                  /\ p.type = PUBLISH /\ p.qos \in {1, 2}
<1> SUFFICES ASSUME NEW p \in Told
             PROVE  /\ p \in Pubs /\ p \in Msgs /\ p \in Packets
                    /\ p.type = PUBLISH /\ p.qos \in {1, 2}
  OBVIOUS
<1>1. p \in Pubs /\ p \in Packets /\ p.type = PUBLISH /\ p.qos # 0
  BY DEF Told, Pubs, Of
<1>2. p.qos \in 0..3 /\ p.qos # 3
  BY DEF Told, Pubs, Of, Packets, PacketFields, TooLong
<1>3. p.qos \in {1, 2}
  BY <1>1, <1>2
<1> QED
  BY <1>1, <1>3 DEF Msgs, Of

\* Each publish that waits has an acknowledgement of its own.
LEMMA OwnAck ==
  ASSUME NEW b \in Brokers, OutFits(b), NEW o \in b.out, NEW u,
         u \in Seq(Packets)
  PROVE  \A q \in b.out : q # o =>
           (Lacks(u, {AckFor(q)}) => Lacks(Append(u, AckFor(o)), {AckFor(q)}))
<1> SUFFICES ASSUME NEW q \in b.out, q # o, Lacks(u, {AckFor(q)})
             PROVE  Lacks(Append(u, AckFor(o)), {AckFor(q)})
  OBVIOUS
<1>1. o \in Outs /\ q \in Outs /\ q.id # o.id
  BY DEF Brokers, OutFits
<1>2. AckFor(o) \in Packets /\ AckFor(o).id = o.id /\ AckFor(q).id = q.id
  BY <1>1, AckForIs
<1>3. AckFor(o) \notin {AckFor(q)}
  BY <1>1, <1>2
<1> QED
  BY <1>2, <1>3, LacksMore

\* A message that waits for its acknowledgement is only read in a session.
LEMMA ToldRead ==
  ASSUME TypeInv, DelInv, HearInv, call.op # "idle",
         NEW r \in readPacket, r.type = PUBLISH, r.p \in Told
  PROVE  /\ c.isconnected /\ ~net.junk /\ net.down # <<>>
         /\ r.p = Head(net.down)
         /\ \E o \in broker.out :
              /\ r.p = Sending(o) /\ ~o.rel /\ o.qos = r.p.qos
              /\ o.id = r.p.id /\ o.msg = r.p.msg /\ Answered(r.p) = AckFor(o)
<1>1. /\ net \in Nets /\ broker \in Brokers /\ InTransit(net, broker)
      /\ \A o \in broker.out : o \in Outs
  BY StateParts
  DEF TypeInv, ClientFits, BrokerFits, Brokers, DelInv, DelFits
<1>2. r.type \in 2..14
  BY DEF PUBLISH
<1>3. net.down # <<>> /\ r.p = Head(net.down) /\ ~net.junk
  BY <1>1, <1>2, ReadGood, ReadIs
<1>4. c.isconnected
  <2>1. ~Lacks(net.down, Told)
    BY <1>1, <1>3, FirstIs
  <2> QED
    BY <1>3, <2>1 DEF HearInv, HearFits, Calm
<1>5. PICK o \in broker.out : Head(net.down) = Sending(o)
  BY <1>1, <1>3, ToldTypes, FirstSending
<1>6. r.p.type = PUBLISH /\ PUBLISH # PUBREL /\ o \in Outs
  BY <1>1, ToldTypes DEF PUBLISH, PUBREL
<1>7. ~o.rel /\ o.qos = r.p.qos /\ o.id = r.p.id /\ o.msg = r.p.msg
  BY <1>3, <1>5, <1>6, SendingIs
<1>8. Answered(r.p) = AckFor(o)
  BY <1>7 DEF Answered, AckFor
<1> QED
  BY <1>3, <1>4, <1>5, <1>7, <1>8

\* On a live connection it has a handler, and the table has room for its id.
LEMMA ToldHeard ==
  ASSUME AttendsTo(use), TypeInv, DelInv, HearInv, Live(c, net),
         net.down # <<>>, NEW p \in Told, p = Head(net.down),
         NEW o \in broker.out, p = Sending(o), ~o.rel, o.qos = p.qos,
         o.id = p.id
  PROVE  Heard(c, p) /\ ~Dropped(c, p)
<1>1. /\ net \in Nets /\ broker \in Brokers /\ OutFits(broker)
      /\ net.down \in Seq(Packets) /\ Len(net.down) \in Nat
      /\ Len(net.down) >= 1 /\ net.down[1] = p
      /\ MAX_INCOMING_QOS2_MESSAGES \in Nat
  BY StateParts, WiresAre, MqttAssumption
  DEF TypeInv, ClientFits, BrokerFits, DelInv, DelFits
<1>2. Hears(c, net.down, call, broker) /\ Filed(c, net, broker)
  BY DEF HearInv, HearFits
<1>3. Heard(c, p)
  <2>1. 1 \in 1..Len(net.down) /\ ~Awaits(call, net.down, 1)
    BY <1>1 DEF Awaits
  <2> QED
    BY <1>1, <1>2, <2>1 DEF Hears
<1>4. ASSUME Tabled(p)
      PROVE  /\ p.id \notin c.qos2ids
             /\ Cardinality(c.qos2ids) < MAX_INCOMING_QOS2_MESSAGES
  <2>1. p.id \notin c.qos2ids
    <3> SUFFICES ASSUME p.id \in c.qos2ids PROVE FALSE
      OBVIOUS
    <3>1. PICK q \in broker.out :
            /\ q.id = p.id
            /\ IF q.rel THEN Lacks(net.up, {AckFor(q)})
                        ELSE Lacks(net.down, {Sending(q)})
      BY <1>2 DEF Filed
    <3>2. q = o
      BY <1>1, <3>1 DEF OutFits
    <3>3. Lacks(net.down, {p})
      BY <3>1, <3>2
    <3> QED
      BY <1>1, <3>3, FirstIs
  <2>2. c.qos2ids \subseteq {1, 2} \ {p.id} /\ p.id \in {1, 2}
    BY <1>1, <1>2, <2>1 DEF Filed, OutFits
  <2>3. PICK id : c.qos2ids \subseteq {id}
    BY <2>2
  <2>4. Cardinality({id}) = 1 /\ IsFiniteSet({id})
    BY FS_Singleton
  <2>5. Cardinality(c.qos2ids) <= 1 /\ Cardinality(c.qos2ids) \in Nat
    BY <2>3, <2>4, FS_Subset, FS_CardinalityType
  <2>6. MAX_INCOMING_QOS2_MESSAGES >= 2
    <3>1. 2 \in InQoS
      BY <1>1, <1>4 DEF OutFits, Tabled
    <3> QED
      BY <3>1 DEF AttendsTo, InQoS
  <2> QED
    BY <1>1, <2>1, <2>5, <2>6
<1>5. Cardinality(c.qos2ids) \in Nat
  <2>1. IsFiniteSet(c.qos2ids)
    BY DEF TypeInv, ClientFits, Good, TablesFit, S
  <2> QED
    BY <2>1, FS_CardinalityType
<1>6. ~Dropped(c, p)
  BY <1>1, <1>4, <1>5 DEF Dropped
<1> QED
  BY <1>3, <1>6

LEMMA CountedMore ==
  ASSUME NEW f \in [Incoming -> 0..2], NEW m
  PROVE  /\ \A i \in Incoming : f[i] > 0 => Counted(f, m)[i] > 0
         /\ m \in Incoming => Counted(f, m)[m] > 0
BY DEF Counted
LEMMA HandedMore ==
  ASSUME NEW nn, NEW b, OutFits(b), MaxPublished \in Nat, b.sent \in Nat,
         NEW f \in [Incoming -> 0..2], Handed(nn, b, f),
         NEW g, \A i \in Incoming : f[i] > 0 => g[i] > 0
  PROVE  Handed(nn, b, g)
<1>1. \A o \in b.out : o.msg \in Incoming
  BY DEF OutFits, Incoming
<1> QED
  BY <1>1 DEF Handed

\* A PUBLISH is read: what is acknowledged has been handed on.
LEMMA PublishRead ==
  ASSUME AttendsTo(use), TypeInv, DelInv, HearInv, call.op # "idle",
         NEW r \in readPacket, r.type = PUBLISH, r.p \in Pubs,
         NEW x, ReadsPublish(r.p, x),
         NEW mm, mm.up = x.net.up, mm.down = Tail(net.down)
  PROVE  /\ Handed(mm, broker, x.seen) /\ (QOS2Build \/ Lacks(mm.up, Elaborate))
         /\ Live(c, net) => Filed(x.c, mm, broker)
         /\ ~c.isconnected => x.c.qos2ids = {}
<1>1. /\ net \in Nets /\ broker \in Brokers /\ OutFits(broker)
      /\ net.up \in Seq(Packets) /\ net.down \in Seq(Packets)
      /\ MaxPublished \in Nat /\ broker.sent \in Nat
      /\ seen \in [Incoming -> 0..2] /\ InTransit(net, broker)
      /\ net.down # <<>> /\ r.p \in Packets
  <2>1. r.type \in 2..14
    BY DEF PUBLISH
  <2>2. net \in Nets
    BY StateParts DEF TypeInv, ClientFits
  <2>3. net.down # <<>>
    BY <2>1, <2>2, ReadGood
  <2> QED
    BY <2>2, <2>3, StateParts, WiresAre, UseTypes, MessageTypes
    DEF TypeInv, ClientFits, BrokerFits, Brokers, DelInv, DelFits
<1>2. /\ Handed(net, broker, seen) /\ (QOS2Build \/ Lacks(net.up, Elaborate))
      /\ Live(c, net) => Filed(c, net, broker)
      /\ ~c.isconnected => c.qos2ids = {}
  BY DEF HearInv, HearFits, OnlyHandled, Calm
<1>3. x.seen \in {seen, Counted(seen, r.p.msg)}
  BY DEF ReadsPublish
<1>4. \A i \in Incoming : seen[i] > 0 => x.seen[i] > 0
  BY <1>1, <1>3, CountedMore
<1>5. ASSUME NEW o \in broker.out, Lacks(net.down, {Sending(o)})
      PROVE  Lacks(mm.down, {Sending(o)})
  BY <1>1, <1>5, LacksLess
<1>6. CASE r.p.qos = 0
  <2>1. mm.up = net.up /\ x.c.qos2ids = c.qos2ids
    BY <1>6 DEF ReadsPublish, Tabled
  <2>2. Handed(mm, broker, seen)
    BY <1>2, <2>1 DEF Handed
  <2>3. Handed(mm, broker, x.seen)
    BY <1>1, <1>4, <2>2, HandedMore
  <2>4. Filed(c, net, broker) => Filed(x.c, mm, broker)
    BY <1>5, <2>1 DEF Filed
  <2> QED
    BY <1>2, <2>1, <2>3, <2>4
<1>7. CASE r.p.qos # 0
  <2>1. r.p \in Told
    BY <1>7 DEF Told
  <2>2. c.isconnected /\ ~net.junk /\ r.p = Head(net.down)
    BY <2>1, ToldRead
  <2>3. PICK o \in broker.out :
               /\ r.p = Sending(o) /\ ~o.rel /\ o.qos = r.p.qos
               /\ o.id = r.p.id /\ o.msg = r.p.msg
               /\ Answered(r.p) = AckFor(o)
    BY <2>1, ToldRead
  <2>4. o \in Outs /\ o.msg \in Incoming /\ AckFor(o) \in Packets
        /\ AckFor(o).type = IF o.qos = 1 THEN PUBACK ELSE PUBREC
    BY <1>1, <2>3, AckForIs DEF Brokers, OutFits, Incoming
  <2>5. CASE net.link # "up"
    <3>1. mm.up = net.up
      BY <2>5 DEF ReadsPublish
    <3>2. Handed(mm, broker, seen)
      BY <1>2, <3>1 DEF Handed
    <3>3. Handed(mm, broker, x.seen)
      BY <1>1, <1>4, <3>2, HandedMore
    <3> QED
      BY <1>2, <2>2, <2>5, <3>1, <3>3 DEF Live
  <2>6. CASE net.link = "up"
    <3>1. Live(c, net)
      BY <2>2, <2>6 DEF Live
    <3>2. Heard(c, r.p) /\ ~Dropped(c, r.p)
      BY <1>1, <2>1, <2>2, <2>3, <3>1, ToldHeard
    <3>3. /\ mm.up = Append(net.up, AckFor(o))
          /\ x.seen = Counted(seen, r.p.msg)
          /\ x.c.qos2ids = IF Tabled(r.p) THEN c.qos2ids \cup {r.p.id}
                           ELSE c.qos2ids
      BY <1>7, <2>3, <2>6, <3>2 DEF ReadsPublish
    <3>4. x.seen[o.msg] > 0
      BY <1>1, <2>3, <2>4, <3>3, CountedMore
    <3>5. \A q \in broker.out : q # o =>
            (Lacks(net.up, {AckFor(q)}) => Lacks(mm.up, {AckFor(q)}))
      BY <1>1, <3>3, OwnAck
    <3>6. Handed(mm, broker, x.seen)
      <4>1. \A m \in broker.acked : m \in Incoming /\ x.seen[m] > 0
        BY <1>2, <1>4 DEF Handed
      <4>2. ASSUME NEW q \in broker.out, q.rel \/ ~Lacks(mm.up, {AckFor(q)})
            PROVE  x.seen[q.msg] > 0
        <5>1. CASE q = o
          BY <3>4, <5>1
        <5>2. CASE q # o
          <6>1. seen[q.msg] > 0
            BY <1>2, <3>5, <4>2, <5>2 DEF Handed
          <6>2. q.msg \in Incoming
            BY <1>1 DEF OutFits, Incoming
          <6> QED
            BY <1>4, <6>1, <6>2
        <5> QED
          BY <5>1, <5>2
      <4> QED
        BY <4>1, <4>2 DEF Handed
    <3>7. QOS2Build \/ Lacks(mm.up, Elaborate)
      <4> SUFFICES ASSUME ~QOS2Build PROVE Lacks(mm.up, Elaborate)
        OBVIOUS
      <4>1. o.qos # 2
        BY <1>1, <2>3 DEF OutFits, AttendsTo, InQoS, QOS2Build
      <4>2. AckFor(o).type = PUBACK
        BY <1>1, <2>1, <2>3, <2>4, <4>1, ToldTypes
      <4>3. AckFor(o) \notin Elaborate
        BY <4>2 DEF Elaborate, PUBACK, PUBREC, PUBREL, PUBLISH
      <4> QED
        BY <1>1, <1>2, <2>4, <3>3, <4>3, LacksMore
    <3>8. Filed(x.c, mm, broker)
      <4>1. Lacks(mm.down, {Sending(o)})
        <5>1. Once(net.down, {Sending(o)})
          BY <1>1 DEF InTransit
        <5>2. Head(net.down) \in {Sending(o)}
          BY <2>2, <2>3
        <5> QED
          BY <1>1, <5>1, <5>2, OnceLess
      <4> SUFFICES ASSUME NEW id \in x.c.qos2ids
                   PROVE  \E q \in broker.out :
                            /\ q.id = id /\ q.qos = 2
                            /\ IF q.rel THEN Lacks(mm.up, {AckFor(q)})
                                        ELSE Lacks(mm.down, {Sending(q)})
        BY DEF Filed
      <4>2. CASE id \in c.qos2ids
        <5>1. PICK q \in broker.out :
                /\ q.id = id /\ q.qos = 2
                /\ IF q.rel THEN Lacks(net.up, {AckFor(q)})
                            ELSE Lacks(net.down, {Sending(q)})
          BY <1>2, <3>1, <4>2 DEF Filed
        <5>2. q.rel => Lacks(mm.up, {AckFor(q)})
          BY <2>3, <3>5, <5>1
        <5>3. ~q.rel => Lacks(mm.down, {Sending(q)})
          BY <1>5, <5>1
        <5> QED
          BY <5>1, <5>2, <5>3
      <4>3. CASE id \notin c.qos2ids
        <5>1. id = o.id /\ o.qos = 2
          BY <2>3, <3>3, <4>3 DEF Tabled
        <5> QED
          BY <2>3, <4>1, <5>1
      <4> QED
        BY <4>2, <4>3
    <3> QED
      BY <2>2, <3>6, <3>7, <3>8
  <2> QED
    <3>1. net.link = "up" \/ net.link # "up"
      OBVIOUS
    <3> QED
      BY <2>5, <2>6, <3>1
<1> QED
  BY <1>6, <1>7

\* A PUBREL is read: its message was handed on, and its id leaves the table
\* when PUBCOMP goes.
LEMMA PubrelRead ==
  ASSUME TypeInv, DelInv, HearInv, NEW r \in readPacket, r.type = PUBREL,
         QOS2Build, NEW x, ReadsPubrel(r.p, x),
         NEW mm, mm.up = x.net.up, mm.down = Tail(net.down)
  PROVE  /\ Handed(mm, broker, x.seen)
         /\ Live(c, net) => Filed(x.c, mm, broker)
         /\ ~c.isconnected => x.c.qos2ids = {}
<1>1. /\ net \in Nets /\ broker \in Brokers /\ OutFits(broker)
      /\ net.up \in Seq(Packets) /\ net.down \in Seq(Packets)
      /\ InTransit(net, broker)
  BY StateParts, WiresAre
  DEF TypeInv, ClientFits, BrokerFits, DelInv, DelFits
<1>2. /\ net.down # <<>> /\ r.p = Head(net.down) /\ r.p.type = PUBREL
      /\ r.p \in Packets
  <2>1. r.type \in 2..14
    BY DEF PUBREL
  <2> QED
    BY <1>1, <2>1, ReadGood
<1>3. /\ Handed(net, broker, seen)
      /\ Live(c, net) => Filed(c, net, broker)
      /\ ~c.isconnected => c.qos2ids = {}
  BY DEF HearInv, HearFits, Calm
<1>4. PICK o \in broker.out : r.p = Sending(o)
  <2>1. r.p \in Msgs
    BY <1>2 DEF Msgs, Of
  <2> QED
    BY <1>1, <1>2, <2>1, FirstSending
<1>5. o.rel /\ o.id = r.p.id /\ Packet(PUBCOMP, r.p.id, 0, 0) = AckFor(o)
  <2>1. o \in Outs /\ PUBLISH # PUBREL
    BY <1>1 DEF Brokers, PUBLISH, PUBREL
  <2>2. o.rel /\ o.id = r.p.id
    BY <1>2, <1>4, <2>1, SendingIs DEF Outs
  <2> QED
    BY <2>2 DEF AckFor
<1>6. \A q \in broker.out : q # o =>
        (Lacks(net.up, {AckFor(q)}) => Lacks(mm.up, {AckFor(q)}))
  <2>1. mm.up \in {net.up, Append(net.up, AckFor(o))}
    BY <1>5 DEF ReadsPubrel
  <2> QED
    BY <1>1, <2>1, OwnAck
<1>7. Handed(mm, broker, x.seen)
  <2>1. \A q \in broker.out : q.rel \/ ~Lacks(mm.up, {AckFor(q)}) =>
                                seen[q.msg] > 0
    BY <1>3, <1>5, <1>6 DEF Handed
  <2> QED
    BY <1>3, <2>1 DEF Handed, ReadsPubrel
<1>8. ASSUME Live(c, net) PROVE Filed(x.c, mm, broker)
  <2>1. x.c.qos2ids = c.qos2ids \ {o.id} /\ Filed(c, net, broker)
    BY <1>3, <1>5, <1>8 DEF Live, ReadsPubrel
  <2> SUFFICES ASSUME NEW id \in c.qos2ids, id # o.id
               PROVE  \E q \in broker.out :
                        /\ q.id = id /\ q.qos = 2
                        /\ IF q.rel THEN Lacks(mm.up, {AckFor(q)})
                                    ELSE Lacks(mm.down, {Sending(q)})
    BY <2>1 DEF Filed
  <2>2. PICK q \in broker.out :
          /\ q.id = id /\ q.qos = 2
          /\ IF q.rel THEN Lacks(net.up, {AckFor(q)})
                      ELSE Lacks(net.down, {Sending(q)})
    BY <2>1 DEF Filed
  <2>3. q.rel => Lacks(mm.up, {AckFor(q)})
    BY <1>6, <2>2
  <2>4. ~q.rel => Lacks(mm.down, {Sending(q)})
    BY <1>1, <1>2, <2>2, LacksLess
  <2> QED
    BY <2>2, <2>3, <2>4
<1>9. ~c.isconnected => x.c.qos2ids = {}
  BY <1>3 DEF ReadsPubrel
<1> QED
  BY <1>7, <1>8, <1>9

\* What one turn of the loop leaves, before the call looks at its result.
CycleHears(r, s) ==
  /\ Good(s) /\ HearNet(s.net, broker, s.seen)
  /\ s.c.cleansession /\ s.c.inflight.id = 0
  /\ ~s.c.isconnected => s.c.qos2ids = {}
  /\ s.c.isconnected => /\ c.isconnected /\ s.c.handlers = c.handlers
                        /\ s.rc = r.type
  /\ s.c.isconnected \/ s.rc < 0 \/ call.op = "connect" \/ s.net.junk
  /\ call.op = "connect" => ~s.c.isconnected /\ Lacks(s.net.down, Told)
  /\ Live(s.c, s.net) => Live(c, net) /\ Filed(s.c, s.net, broker)
  /\ s.net.down = r.net.down /\ s.net.junk = r.net.junk
LEMMA ReadHears ==
  ASSUME AttendsTo(use), TypeInv, DelInv, HearInv, call.op # "idle",
         NEW r \in readPacket, NEW x, Reads(r, x)
  PROVE  /\ Handed(x.net, broker, x.seen)
         /\ QOS2Build \/ Lacks(x.net.up, Elaborate)
         /\ Live(c, net) => Filed(x.c, x.net, broker)
         /\ ~c.isconnected => x.c.qos2ids = {}
<1>1. /\ net \in Nets /\ broker \in Brokers
      /\ net.up \in Seq(Packets) /\ net.down \in Seq(Packets)
  BY StateParts, WiresAre DEF TypeInv, ClientFits, BrokerFits
<1>2. /\ Handed(net, broker, seen)
      /\ Live(c, net) => Filed(c, net, broker)
      /\ ~c.isconnected => c.qos2ids = {}
      /\ QOS2Build \/ Lacks(net.up, Elaborate)
  BY DEF HearInv, HearFits, Calm, OnlyHandled
<1>3. /\ r.p \in Packets /\ x.net.down = r.net.down
      /\ \/ r.net.down \in {net.down, <<>>}
         \/ net.down # <<>> /\ r.net.down = Tail(net.down)
      /\ r.type \in 2..14 => r.net.down = Tail(net.down)
  BY <1>1, ReadGood DEF Reads
<1>4. CASE r.type = PUBLISH /\ r.p \in Pubs /\ ReadsPublish(r.p, x)
  <2>1. x.net.down = Tail(net.down)
    BY <1>3, <1>4 DEF PUBLISH
  <2> QED
    BY <1>4, <2>1, PublishRead
<1>5. CASE r.type = PUBREL /\ QOS2Build /\ ReadsPubrel(r.p, x)
  <2>1. x.net.down = Tail(net.down)
    BY <1>3, <1>5 DEF PUBREL
  <2> QED
    BY <1>5, <2>1, PubrelRead
<1>6. CASE ReadsOther(r.p, x)
  <2> DEFINE a == Packet(PUBREL, r.p.id, 0, 0)
  <2>1. a \in Packets /\ a.type = PUBREL
    BY <1>3 DEF Packet, Packets, PacketFields, PUBREL, CONNACK
  <2>2. a.type \notin {PUBACK, PUBREC, PUBCOMP}
    BY <2>1 DEF PUBREL, PUBACK, PUBREC, PUBCOMP
  <2>3. x.net.up = net.up \/ (QOS2Build /\ x.net.up = Append(net.up, a))
    BY <1>6 DEF ReadsOther
  <2> HIDE DEF a
  <2>4. Less(net.up, x.net.up, {PUBACK, PUBREC, PUBCOMP})
    BY <1>1, <2>1, <2>2, <2>3, LessEmpty, LessMore
  <2>5. x.seen = seen /\ x.c.qos2ids = c.qos2ids
    BY <1>6 DEF ReadsOther
  <2>6. Handed(x.net, broker, x.seen)
    BY <1>1, <1>2, <2>4, <2>5, HandedQuiet
  <2>7. ASSUME NEW P, Lacks(net.down, P) PROVE Lacks(x.net.down, P)
    <3>1. CASE r.net.down \in {net.down, <<>>}
      BY <1>3, <2>7, <3>1 DEF Lacks
    <3>2. CASE net.down # <<>> /\ r.net.down = Tail(net.down)
      BY <1>1, <1>3, <2>7, <3>2, LacksLess
    <3> QED
      BY <1>3, <3>1, <3>2
  <2>8. Filed(c, net, broker) => Filed(x.c, x.net, broker)
    <3>1. \A o \in broker.out : Lacks(net.up, {AckFor(o)}) =>
                                  Lacks(x.net.up, {AckFor(o)})
      BY <1>1, <2>4, FewerAcks
    <3> QED
      BY <2>5, <2>7, <3>1 DEF Filed
  <2> QED
    BY <1>2, <2>3, <2>5, <2>6, <2>8
<1> QED
  BY <1>4, <1>5, <1>6 DEF Reads
LEMMA CycleHear ==
  ASSUME AttendsTo(use), TypeInv, DelInv, SubInv, HearInv, call.op # "idle",
         NEW r \in readPacket, NEW s, s = cycle(r)
  PROVE  CycleHears(r, s)
<1>1. /\ use \in DOMAIN Uses /\ Good(S) /\ net \in Nets /\ broker \in Brokers
      /\ net.up \in Seq(Packets) /\ net.down \in Seq(Packets)
  BY StateParts, WiresAre DEF TypeInv, ClientFits, BrokerFits
<1>2. /\ Good(s) /\ Turned(r, s) /\ s.c.cleansession = c.cleansession
      /\ s.net.link = net.link /\ s.net.down = r.net.down
      /\ s.net.junk = r.net.junk
  BY <1>1, CycleGood
<1>3. PICK x : /\ Reads(r, x) /\ s.seen = x.seen
               /\ s.net.down = x.net.down
               /\ s.net.up \in {x.net.up, Append(x.net.up, Ping)}
               /\ \/ /\ s.c.qos2ids = x.c.qos2ids
                     /\ c.cleansession => s.c.isconnected = c.isconnected
                  \/ /\ c.cleansession /\ ~s.c.isconnected
                     /\ s.c.qos2ids = {}
  BY <1>1, CycleIs
<1>4. /\ Handed(x.net, broker, x.seen)
      /\ QOS2Build \/ Lacks(x.net.up, Elaborate)
      /\ Live(c, net) => Filed(x.c, x.net, broker)
      /\ ~c.isconnected => x.c.qos2ids = {}
  BY <1>3, ReadHears
<1>5. OnlyHandled(net) /\ Calm(c, net, call, broker)
  BY DEF HearInv, HearFits
<1>6. x.net.up \in Seq(Packets)
  BY <1>3 DEF Reads, Good, States, Nets
<1>7. /\ Less(x.net.up, s.net.up, {PUBACK, PUBREC, PUBCOMP})
      /\ QOS2Build \/ Lacks(s.net.up, Elaborate)
  <2>1. Ping.type \notin {PUBACK, PUBREC, PUBCOMP} /\ Ping \notin Elaborate
    BY PingIs DEF PINGREQ, PUBACK, PUBREC, PUBCOMP, Elaborate, PUBREL, PUBLISH
  <2>2. CASE s.net.up = x.net.up
    BY <1>4, <2>2, LessEmpty
  <2>3. CASE s.net.up = Append(x.net.up, Ping)
    <3>1. Less(x.net.up, s.net.up, {PUBACK, PUBREC, PUBCOMP})
      BY <1>6, <2>1, <2>3, PingIs, LessMore
    <3>2. QOS2Build \/ Lacks(s.net.up, Elaborate)
      BY <1>4, <1>6, <2>1, <2>3, PingIs, LacksMore
    <3> QED
      BY <3>1, <3>2
  <2> QED
    BY <1>3, <2>2, <2>3
<1>8. Handed(s.net, broker, s.seen)
  BY <1>1, <1>3, <1>4, <1>7, HandedQuiet
<1>9. ASSUME NEW P, Lacks(net.down, P) PROVE Lacks(s.net.down, P)
  <2>1. \/ r.net.down \in {net.down, <<>>}
        \/ net.down # <<>> /\ r.net.down = Tail(net.down)
    BY <1>1, ReadGood
  <2>2. CASE r.net.down \in {net.down, <<>>}
    BY <1>2, <1>9, <2>2 DEF Lacks
  <2>3. CASE net.down # <<>> /\ r.net.down = Tail(net.down)
    BY <1>1, <1>2, <1>9, <2>3, LacksLess
  <2> QED
    BY <2>1, <2>2, <2>3
<1>10. HearNet(s.net, broker, s.seen)
  BY <1>5, <1>7, <1>8, <1>9 DEF HearNet, OnlyHandled, Calm
<1>11. c.cleansession /\ c.inflight.id = 0
  BY <1>5 DEF Calm
<1>12. s.c.inflight.id = 0
  BY <1>2, <1>11 DEF Turned, NoInflight
<1>13. ~s.c.isconnected => s.c.qos2ids = {}
  BY <1>3, <1>4, <1>11
<1>14. s.c.isconnected => /\ c.isconnected /\ s.c.handlers = c.handlers
                          /\ s.rc = r.type
  BY <1>2, <1>3, <1>11 DEF Turned
<1>15. s.c.isconnected \/ s.rc < 0 \/ call.op = "connect" \/ s.net.junk
  <2> SUFFICES ASSUME ~s.c.isconnected, ~(s.rc < 0), call.op # "connect"
               PROVE  r.net.junk
    BY <1>2
  <2>1. CASE net.junk
    BY <2>1 DEF readPacket
  <2>2. CASE ~net.junk
    <3>1. c.isconnected
      BY <1>5, <2>2 DEF Calm
    <3>a. s.rc # FAILURE
      BY DEF FAILURE
    <3>2. s.rc = r.type /\ r.type \notin Handled
      BY <1>2, <3>1, <3>a DEF Turned
    <3>3. r.type \notin {0, -1, -2}
      BY <3>2 DEF Handled
    <3>4. net.down # <<>>
      BY <2>2, <3>3 DEF readPacket, FAILURE
    <3> DEFINE p == Head(net.down)
               whole == [net EXCEPT !.down = Tail(@)]
               broken == [net EXCEPT !.down = <<>>, !.junk = TRUE]
    <3>5. \/ r = [type |-> BUFFER_OVERFLOW, p |-> p, net |-> broken]
          \/ r = [type |-> 1, p |-> p, net |-> broken]
          \/ r = [type |-> p.type, p |-> p, net |-> whole]
      BY <2>2, <3>4 DEF readPacket
    <3>6. broken.junk
      BY <1>1 DEF Nets
    <3>7. p.type \in Handled
      <4>1. p \in Packets /\ p \notin Strange
        BY <1>1, <1>5, <3>4, FirstIs DEF OnlyHandled
      <4> QED
        BY <4>1 DEF Strange
    <3> HIDE DEF p, whole, broken
    <3> QED
      BY <3>2, <3>5, <3>6, <3>7
  <2> QED
    BY <2>1, <2>2
<1>16. call.op = "connect" => ~s.c.isconnected /\ Lacks(s.net.down, Told)
  <2> SUFFICES ASSUME call.op = "connect"
               PROVE  ~s.c.isconnected /\ Lacks(s.net.down, Told)
    OBVIOUS
  <2>1. ~c.isconnected
    BY DEF SubInv, SubFits, Begun, Settling
  <2> QED
    BY <1>5, <1>9, <1>14, <2>1 DEF Calm
<1>17. ASSUME Live(s.c, s.net)
       PROVE  Live(c, net) /\ Filed(s.c, s.net, broker)
  <2>1. Live(c, net)
    <3>1. ~net.junk
      BY <1>2, <1>17 DEF Live, readPacket
    <3> QED
      BY <1>2, <1>14, <1>17, <3>1 DEF Live
  <2>2. Filed(x.c, x.net, broker) /\ s.c.qos2ids = x.c.qos2ids
    BY <1>3, <1>4, <1>17, <2>1 DEF Live
  <2>3. \A o \in broker.out : Lacks(x.net.up, {AckFor(o)}) =>
                                Lacks(s.net.up, {AckFor(o)})
    BY <1>1, <1>7, FewerAcks
  <2> QED
    BY <1>3, <2>1, <2>2, <2>3 DEF Filed
<1> QED
  BY <1>2, <1>8, <1>10, <1>11, <1>12, <1>13, <1>14, <1>15, <1>16, <1>17
  DEF CycleHears

\* A stream that still is packets had none read, or its first one.
LEMMA ReadWhole ==
  ASSUME net \in Nets, NEW r \in readPacket, ~r.net.junk
  PROVE  \/ r.net.down = net.down
         \/ /\ net.down # <<>> /\ r.p = Head(net.down) /\ r.type = r.p.type
            /\ r.net.down = Tail(net.down)
<1>1. CASE net.junk
  BY <1>1 DEF readPacket
<1>2. CASE ~net.junk /\ net.down = <<>>
  BY <1>2 DEF readPacket, FAILURE
<1>3. CASE ~net.junk /\ net.down # <<>>
  <2> DEFINE p == Head(net.down)
             whole == [net EXCEPT !.down = Tail(@)]
             broken == [net EXCEPT !.down = <<>>, !.junk = TRUE]
  <2>1. broken.junk /\ whole.down = Tail(net.down)
    BY DEF Nets
  <2>2. \/ r = [type |-> BUFFER_OVERFLOW, p |-> p, net |-> broken]
        \/ r = [type |-> 1, p |-> p, net |-> broken]
        \/ r = [type |-> p.type, p |-> p, net |-> whole]
    BY <1>3 DEF readPacket
  <2> HIDE DEF p, whole, broken
  <2>3. r = [type |-> p.type, p |-> p, net |-> whole]
    BY <2>1, <2>2
  <2> QED
    BY <1>3, <2>1, <2>3 DEF p
<1> QED
  BY <1>1, <1>2, <1>3

\* A packet is taken that tells nothing of a topic.
LEMMA HearsTail ==
  ASSUME NEW cc, NEW q, q \in Seq(Packets), q # <<>>, NEW k, NEW b,
         Hears(cc, q, k, b),
         k.op = "subscribe" => Head(q) \notin With(SUBACK, 0)
  PROVE  Hears(cc, Tail(q), k, b)
<1> DEFINE v == Tail(q)
<1>1. /\ Len(v) \in Nat /\ Len(q) = Len(v) + 1 /\ Head(q) = q[1]
      /\ \A i \in 1..Len(v) : v[i] = q[i + 1]
      /\ \A j \in 1..Len(q) : j = 1 \/ (j - 1 \in 1..Len(v) /\ v[j - 1] = q[j])
  OBVIOUS
<1> HIDE DEF v
<1>2. \A i \in 1..Len(v) : i + 1 \in 1..Len(q)
  BY <1>1
<1>3. ASSUME NEW i \in 1..Len(v), v[i] \in Told, ~Heard(cc, v[i])
      PROVE  Awaits(k, v, i)
  <2>1. Awaits(k, q, i + 1)
    BY <1>1, <1>2, <1>3 DEF Hears
  <2>2. PICK j \in 1..Len(q) : j < i + 1 /\ q[j] \in With(SUBACK, 0)
    BY <2>1 DEF Awaits
  <2>3. j # 1
    BY <1>1, <2>1, <2>2 DEF Awaits
  <2>4. j - 1 \in 1..Len(v) /\ v[j - 1] \in With(SUBACK, 0) /\ j - 1 < i
    BY <1>1, <2>2, <2>3
  <2> QED
    BY <1>1, <2>1, <2>4 DEF Awaits
<1>4. ASSUME k.op = "subscribe", k.topic \in b.subs \ cc.handlers
      PROVE  ~Lacks(v, With(SUBACK, 0))
  <2>1. PICK j \in 1..Len(q) : q[j] \in With(SUBACK, 0)
    BY <1>4 DEF Hears, Lacks
  <2>2. j # 1
    BY <1>1, <1>4, <2>1
  <2> QED
    BY <1>1, <2>1, <2>2 DEF Lacks
<1>5. ASSUME k.op = "unsubscribe", NEW i \in 1..Len(v), NEW j \in 1..Len(v),
             v[i] \in Told, v[i].what = k.topic, v[j] \in Of({UNSUBACK})
      PROVE  i < j
  <2>1. i + 1 < j + 1
    BY <1>1, <1>2, <1>5 DEF Hears
  <2> QED
    BY <1>1, <2>1
<1>6. Hears(cc, v, k, b)
  BY <1>3, <1>4, <1>5 DEF Hears
<1> QED
  BY <1>6 DEF v

\* The call goes on, or yield() ends.
LEMMA TurnHear ==
  ASSUME TypeInv, HearInv, NEW r \in readPacket, NEW s, CycleHears(r, s),
         NEW k, \/ k.op = call.op /\ k.topic = call.topic
                \/ k.op = "idle" /\ call.op = "yield",
         k.op = "idle" \/ ~(s.rc < 0),
         call.op = "subscribe" => ~(r.type = SUBACK /\ r.p.what = 0)
  PROVE  HearFit(s, k)
<1>1. /\ net \in Nets /\ net.down \in Seq(Packets)
      /\ broker \in Brokers
  BY StateParts, WiresAre DEF TypeInv, ClientFits, BrokerFits
<1>2. Good(s) /\ HearNet(s.net, broker, s.seen)
  BY DEF CycleHears
<1>3. Calm(s.c, s.net, k, broker)
  <2>1. Calm(c, net, call, broker)
    BY DEF HearInv, HearFits
  <2>2. broker.conn \/ (~s.c.isconnected /\ Lacks(s.net.down, With(CONNACK, 0)))
    BY <1>2, <2>1 DEF HearNet, Calm, CycleHears
  <2>3. ~s.c.isconnected => /\ s.c.qos2ids = {}
                            /\ k.op \in {"idle", "connect"} \/ s.net.junk
    <3>1. ~s.c.isconnected => s.c.qos2ids = {}
      BY DEF CycleHears
    <3>2. s.c.isconnected \/ s.rc < 0 \/ call.op = "connect" \/ s.net.junk
      BY DEF CycleHears
    <3> QED
      BY <3>1, <3>2
  <2>4. /\ s.c.cleansession /\ s.c.inflight.id = 0
        /\ call.op = "connect" => Lacks(s.net.down, Told)
    BY DEF CycleHears
  <2> QED
    BY <2>1, <2>2, <2>3, <2>4 DEF Calm
<1>4. ASSUME Live(s.c, s.net)
      PROVE  Hears(s.c, s.net.down, k, broker) /\ Filed(s.c, s.net, broker)
  <2>1. /\ Live(c, net) /\ Filed(s.c, s.net, broker) /\ ~r.net.junk
        /\ s.c.handlers = c.handlers /\ s.net.down = r.net.down
    BY <1>4 DEF CycleHears, Live
  <2>2. Hears(c, net.down, call, broker)
    BY <2>1 DEF HearInv, HearFits
  <2>3. Hears(c, s.net.down, call, broker)
    <3>1. CASE r.net.down = net.down
      BY <2>1, <2>2, <3>1
    <3>2. CASE /\ net.down # <<>> /\ r.p = Head(net.down) /\ r.type = r.p.type
               /\ r.net.down = Tail(net.down)
      <4>1. call.op = "subscribe" => Head(net.down) \notin With(SUBACK, 0)
        BY <3>2 DEF With, Of
      <4> QED
        BY <1>1, <2>1, <2>2, <3>2, <4>1, HearsTail
    <3> QED
      BY <1>1, <2>1, <3>1, <3>2, ReadWhole
  <2>4. Hears(s.c, s.net.down, call, broker)
    BY <2>1, <2>3 DEF Hears, Heard
  <2> QED
    BY <2>1, <2>4 DEF Hears, Awaits
<1> QED
  BY <1>2, <1>3, <1>4 DEF HearFit, HearFits, HearNet

\* What was waited for has come.
LEMMA HearSession ==
  ASSUME NEW s, NEW k, HearFit(s, k), NEW d, Good(d), d.net = s.net,
         d.seen = s.seen, d.c.cleansession = s.c.cleansession,
         d.c.isconnected = s.c.isconnected, d.c.qos2ids = s.c.qos2ids,
         d.c.handlers = s.c.handlers, d.c.inflight.id = 0
  PROVE  HearFit(d, k)
<1>1. /\ OnlyHandled(d.net) /\ Handed(d.net, broker, d.seen)
      /\ Calm(d.c, d.net, k, broker) /\ Live(d.c, d.net) = Live(s.c, s.net)
  BY DEF HearFit, HearFits, Calm, Live
<1>2. Hears(s.c, s.net.down, k, broker) => Hears(d.c, d.net.down, k, broker)
  BY DEF Hears, Heard
<1>3. Filed(s.c, s.net, broker) => Filed(d.c, d.net, broker)
  BY DEF Filed
<1> QED
  BY <1>1, <1>2, <1>3 DEF HearFit, HearFits
LEMMA GotPublish ==
  ASSUME TypeInv, UNCHANGED <<use, broker>>, HearInv, NEW r \in readPacket,
         NEW s, CycleHears(r, s), s.rc >= 0, call.op = "publish", NEW p,
         Return("publish", SUCCESS, acked(s, p))
  PROVE  HearInv'
<1> DEFINE d == acked(s, p)
<1>1. use \in DOMAIN Uses /\ Good(s) /\ s.c.inflight.id = 0 /\ ~(s.rc < 0)
  <2>1. use \in DOMAIN Uses /\ Good(s) /\ s.c.inflight.id = 0
    BY DEF TypeInv, CycleHears
  <2>2. s.rc \in Int
    BY <2>1 DEF Good, States
  <2> QED
    BY <2>1, <2>2
<1>2. HearFit(s, call)
  BY <1>1, TurnHear
<1>3. /\ Good(d) /\ d.net = s.net
      /\ d.c.cleansession = s.c.cleansession
      /\ d.c.isconnected = s.c.isconnected
      /\ d.c.handlers = s.c.handlers /\ d.c.inflight.id = 0
  BY <1>1, AckedGood
<1>4. d.seen = s.seen /\ d.c.qos2ids = s.c.qos2ids
  BY <1>1 DEF acked, Good, States, Sessions
<1> HIDE DEF d
<1>5. HearFit(d, call)
  BY <1>2, <1>3, <1>4, HearSession
<1>6. HearFit(d, Idle)
  BY <1>5, HearCall DEF HearFit, Idle
<1> QED
  BY <1>6, HearReturn DEF d

\* UNSUBACK: nothing of the topic is behind it.
LEMMA GotUnsuback ==
  ASSUME TypeInv, UNCHANGED <<use, broker>>, HearInv, NEW r \in readPacket,
         NEW s, CycleHears(r, s), s.rc >= 0, call.op = "unsubscribe",
         r.type = UNSUBACK,
         Return("unsubscribe", SUCCESS, removeHandler(s, call.topic))
  PROVE  HearInv'
<1> DEFINE d == removeHandler(s, call.topic)
<1>1. /\ use \in DOMAIN Uses /\ Good(s) /\ s.c.inflight.id = 0 /\ ~(s.rc < 0)
      /\ net \in Nets /\ net.down \in Seq(Packets)
  <2>1. use \in DOMAIN Uses /\ Good(s) /\ s.c.inflight.id = 0 /\ net \in Nets
    BY StateParts DEF TypeInv, ClientFits, CycleHears
  <2>2. s.rc \in Int
    BY <2>1 DEF Good, States
  <2> QED
    BY <2>1, <2>2, WiresAre
<1>2. HearFit(s, call)
  BY <1>1, TurnHear
<1>3. /\ Good(d) /\ d.net = s.net
      /\ d.c.cleansession = s.c.cleansession
      /\ d.c.isconnected = s.c.isconnected
      /\ d.c.handlers = s.c.handlers \ {call.topic}
      /\ d.c.inflight = s.c.inflight
  BY <1>1, RemoveHandlerGood
<1>4. d.seen = s.seen /\ d.c.qos2ids = s.c.qos2ids
  BY <1>1 DEF removeHandler, Good, States, Sessions
<1>5. /\ net.down # <<>> /\ Head(net.down) = r.p /\ r.p.type = UNSUBACK
      /\ s.net.down = Tail(net.down)
  <2>1. r.type \in 2..14
    BY DEF UNSUBACK
  <2> QED
    BY <1>1, <2>1, ReadGood DEF CycleHears
<1> HIDE DEF d
<1>6. ASSUME Live(s.c, s.net) PROVE Hears(d.c, d.net.down, Idle, broker)
  <2> DEFINE q == net.down
             v == Tail(q)
  <2>1. Hears(c, q, call, broker) /\ s.c.handlers = c.handlers
    BY <1>6 DEF CycleHears, Live, HearInv, HearFits
  <2>2. /\ Len(v) \in Nat /\ Len(q) = Len(v) + 1 /\ Head(q) = q[1]
        /\ \A i \in 1..Len(v) : v[i] = q[i + 1] /\ i + 1 \in 1..Len(q)
        /\ 1 \in 1..Len(q) /\ q[1] \in Packets
    BY <1>1, <1>5
  <2>3. q[1] \in Of({UNSUBACK})
    BY <1>5, <2>2 DEF Of
  <2> HIDE DEF q, v
  <2>4. ASSUME NEW i \in 1..Len(v), v[i] \in Told PROVE Heard(d.c, v[i])
    <3>1. Heard(c, q[i + 1]) /\ v[i] = q[i + 1]
      BY <2>1, <2>2, <2>4 DEF Hears, Awaits
    <3>2. v[i].what # call.topic
      <4>1. ~(i + 1 < 1)
        BY <2>2
      <4> QED
        BY <2>1, <2>2, <2>3, <2>4, <3>1, <4>1 DEF Hears
    <3> QED
      BY <1>3, <2>1, <3>1, <3>2 DEF Heard
  <2>5. d.net.down = v
    BY <1>3, <1>5 DEF v, q
  <2> QED
    BY <2>4, <2>5 DEF Hears, Idle
<1>7. HearFit(d, Idle)
  <2>1. Calm(d.c, d.net, Idle, broker)
    BY <1>2, <1>3, <1>4 DEF HearFit, HearFits, Calm, Idle
  <2>2. Filed(s.c, s.net, broker) => Filed(d.c, d.net, broker)
    BY <1>3, <1>4 DEF Filed
  <2>3. Live(d.c, d.net) = Live(s.c, s.net)
    BY <1>3 DEF Live
  <2> QED
    BY <1>2, <1>3, <1>4, <1>6, <2>1, <2>2, <2>3 DEF HearFit, HearFits
<1> QED
  BY <1>7, HearReturn DEF d

\* SUBACK: the topic has a handler, unless there was no subscription.
LEMMA GotSubackHear ==
  ASSUME TypeInv, UNCHANGED <<use, broker>>, SubInv, HearInv,
         NEW r \in readPacket, NEW s, CycleHears(r, s),
         call.op = "subscribe", r.type = SUBACK, s.rc = SUBACK,
         GotSuback(s, r.p)
  PROVE  HearInv'
<1> DEFINE x == [s EXCEPT !.rc = SUCCESS]
           y == setHandler(s, call.topic)
           d == IF r.p.what = 128 THEN x ELSE y
           e == closeSession(d)
<1>1. /\ use \in DOMAIN Uses /\ Good(s) /\ s.c.inflight.id = 0
      /\ net \in Nets /\ net.down \in Seq(Packets) /\ call.topic \in Topics
      /\ s \in States /\ SUCCESS \in -2..15
  BY StateParts, WiresAre
  DEF TypeInv, ClientFits, CycleHears, CallFits, Good, SUCCESS
<1>2. Return("subscribe", d.rc, IF d.rc = FAILURE THEN e ELSE d)
  BY DEF GotSuback
<1>3. /\ Good(x) /\ x.net = s.net /\ x.seen = s.seen /\ x.c = s.c
      /\ x.rc = SUCCESS
  BY <1>1 DEF Good, States, TablesFit, PingFits
<1>4. /\ Good(y) /\ y.net = s.net /\ y.rc \in {SUCCESS, FAILURE}
      /\ y.c.isconnected = s.c.isconnected
      /\ y.c.cleansession = s.c.cleansession
      /\ s.c.handlers \subseteq y.c.handlers
      /\ y.rc = SUCCESS => call.topic \in y.c.handlers
      /\ y.c.inflight = s.c.inflight
  BY <1>1, SetHandlerGood
<1>5. y.seen = s.seen /\ y.c.qos2ids = s.c.qos2ids
  BY <1>1 DEF setHandler, States, Sessions
<1> HIDE DEF x, y
<1>6. /\ Good(d) /\ d.net = s.net /\ d.seen = s.seen
      /\ d.c.isconnected = s.c.isconnected
      /\ d.c.cleansession = s.c.cleansession
      /\ s.c.handlers \subseteq d.c.handlers
      /\ d.rc # FAILURE /\ r.p.what # 128 => call.topic \in d.c.handlers
      /\ d.c.inflight = s.c.inflight /\ d.c.qos2ids = s.c.qos2ids
  BY <1>3, <1>4, <1>5
<1> HIDE DEF d
<1>7. /\ HearNet(s.net, broker, s.seen) /\ s.c.cleansession
      /\ ~s.c.isconnected => s.c.qos2ids = {}
  BY DEF CycleHears
<1>8. CASE d.rc = FAILURE
  <2>1. Return("subscribe", d.rc, e)
    BY <1>2, <1>8
  <2>2. HearFit(e, Idle)
    BY <1>1, <1>6, <1>7, HearClosed
  <2> HIDE DEF e
  <2> QED
    BY <2>1, <2>2, HearReturn
<1>9. CASE d.rc # FAILURE
  <2>1. Return("subscribe", d.rc, d)
    BY <1>2, <1>9
  <2>2. /\ net.down # <<>> /\ Head(net.down) = r.p /\ r.p.type = SUBACK
        /\ s.net.down = Tail(net.down)
    <3>1. r.type \in 2..14
      BY DEF SUBACK
    <3> QED
      BY <1>1, <3>1, ReadGood DEF CycleHears
  <2>3. Calm(d.c, d.net, Idle, broker)
    <3>1. Calm(c, net, call, broker)
      BY DEF HearInv, HearFits
    <3>2. s.c.isconnected => c.isconnected
      BY DEF CycleHears
    <3> QED
      BY <1>1, <1>6, <1>7, <3>1, <3>2 DEF Calm, HearNet, Idle
  <2>4. ASSUME Live(d.c, d.net)
        PROVE  /\ Hears(d.c, d.net.down, Idle, broker)
               /\ Filed(d.c, d.net, broker)
    <3> DEFINE q == net.down
               v == Tail(q)
    <3>1. /\ Live(c, net) /\ s.c.handlers = c.handlers
          /\ Filed(s.c, s.net, broker) /\ s.c.cleansession
      BY <1>6, <2>4 DEF CycleHears, Live
    <3>2. Hears(c, q, call, broker) /\ c.cleansession
      BY <3>1 DEF HearInv, HearFits, Calm
    <3>3. Once(q, Of({SUBACK}))
      BY <3>1, <3>2
      DEF Live, SubInv, SubFits, Matters, Asked, Subscribes, Asking
    <3>4. /\ Len(v) \in Nat /\ Len(q) = Len(v) + 1 /\ Head(q) = q[1]
          /\ \A i \in 1..Len(v) : v[i] = q[i + 1] /\ i + 1 \in 1..Len(q)
          /\ 1 \in 1..Len(q) /\ q[1] \in Packets
      BY <1>1, <2>2
    <3>5. q[1] \in Of({SUBACK})
      BY <2>2, <3>4 DEF Of
    <3> HIDE DEF q, v
    <3>6. ASSUME NEW i \in 1..Len(v), v[i] \in Told PROVE Heard(d.c, v[i])
      <4>1. CASE Heard(c, q[i + 1])
        BY <1>6, <3>1, <3>4, <4>1 DEF Heard
      <4>2. CASE Awaits(call, q, i + 1)
        <5>1. PICK j \in 1..Len(q) : q[j] \in With(SUBACK, 0)
          BY <4>2 DEF Awaits
        <5>2. q[j] \in Of({SUBACK}) /\ q[j].what = 0
          BY <5>1 DEF With
        <5>3. j = 1
          BY <3>3, <3>4, <3>5, <5>2 DEF Once
        <5>4. r.p.what # 128
          BY <2>2, <3>4, <5>2, <5>3 DEF q
        <5>5. v[i].what = call.topic
          BY <3>4, <4>2 DEF Awaits
        <5> QED
          BY <1>6, <1>9, <5>4, <5>5 DEF Heard
      <4> QED
        BY <3>2, <3>4, <3>6, <4>1, <4>2 DEF Hears
    <3>7. d.net.down = v
      BY <1>6, <2>2 DEF v, q
    <3>8. Filed(d.c, d.net, broker)
      BY <1>6, <3>1 DEF Filed
    <3> QED
      BY <3>6, <3>7, <3>8 DEF Hears, Idle
  <2>5. HearFit(d, Idle)
    BY <1>6, <1>7, <2>3, <2>4 DEF HearFit, HearFits, HearNet
  <2> QED
    BY <2>1, <2>5, HearReturn
<1> QED
  BY <1>8, <1>9
LEMMA GotHear ==
  ASSUME TypeInv, UNCHANGED <<use, broker>>, SubInv, HearInv,
         NEW r \in readPacket, NEW s, CycleHears(r, s), Turned(r, s),
         call.op \notin {"idle", "yield"}, s.rc = call.want, Got(s, r.p)
  PROVE  HearInv'
<1>1. /\ use \in DOMAIN Uses /\ CallFits(call) /\ net \in Nets /\ Good(s)
      /\ Calm(c, net, call, broker)
  BY StateParts DEF TypeInv, ClientFits, CycleHears, HearInv, HearFits
<1>2. call.want \in 2..14
  BY <1>1 DEF CallFits, Calls, Calm, CONNACK, PUBACK, PUBCOMP, SUBACK,
              UNSUBACK
<1>3. r.type = call.want /\ s.rc >= 0
  BY <1>2 DEF Turned, FAILURE
<1>4. /\ net.down # <<>> /\ r.p = Head(net.down) /\ r.p.type = call.want
      /\ r.p \in Packets
  BY <1>1, <1>2, <1>3, ReadGood
<1>5. CASE call.op = "connect"
  <2>1. resend(s, r.p.what, FALSE)
    BY <1>5 DEF Got
  <2>2. /\ HearNet(s.net, broker, s.seen) /\ s.c.cleansession
        /\ s.c.inflight.id = 0 /\ ~s.c.isconnected /\ s.c.qos2ids = {}
        /\ Lacks(s.net.down, Told)
    BY <1>5 DEF CycleHears
  <2>3. r.p.what = SUCCESS => broker.conn
    <3> SUFFICES ASSUME r.p.what = SUCCESS PROVE broker.conn
      OBVIOUS
    <3>1. r.p \in With(CONNACK, 0)
      BY <1>1, <1>4, <1>5 DEF CallFits, With, Of, SUCCESS
    <3>2. ~Lacks(net.down, With(CONNACK, 0))
      BY <1>1, <1>4, <3>1, FirstIs
    <3> QED
      BY <1>1, <3>2 DEF Calm
  <2> QED
    BY <1>1, <2>1, <2>2, <2>3, ResendHear
<1>6. CASE call.op = "publish"
  BY <1>3, <1>6, GotPublish DEF Got
<1>7. CASE call.op = "subscribe"
  <2>1. GotSuback(s, r.p) /\ r.type = SUBACK /\ s.rc = SUBACK
    BY <1>1, <1>3, <1>7 DEF Got, CallFits
  <2> QED
    BY <1>7, <2>1, GotSubackHear
<1>8. CASE call.op = "unsubscribe"
  <2>1. /\ Return("unsubscribe", SUCCESS, removeHandler(s, call.topic))
        /\ r.type = UNSUBACK
    BY <1>1, <1>3, <1>8 DEF Got, CallFits
  <2> QED
    BY <1>3, <1>8, <2>1, GotUnsuback
<1> QED
  BY <1>1, <1>5, <1>6, <1>7, <1>8 DEF CallFits, Calls, Calm

\* One turn of the loop.
LEMMA CycleHeard ==
  ASSUME AttendsTo(use), TypeInv, DelInv, SubInv, HearInv, UNCHANGED use,
         Cycle
  PROVE  HearInv'
<1>1. /\ use \in DOMAIN Uses /\ CallFits(call) /\ call.op # "idle"
      /\ UNCHANGED broker /\ Good(S)
  BY DEF TypeInv, ClientFits, Cycle
<1>2. PICK r \in readPacket :
        LET s == cycle(r) IN
        IF call.op = "yield"
        THEN IF s.rc < 0 THEN Return("yield", FAILURE, s)
             ELSE IF r.type = 0 THEN Return("yield", SUCCESS, s)
             ELSE Wait([call EXCEPT !.cycled = TRUE], s)
        ELSE IF s.rc = call.want THEN Got(s, r.p)
             ELSE IF s.rc < 0 THEN Missed(s, FALSE)
             ELSE IF r.type = 0 THEN Missed(s, TRUE)
             ELSE Wait([call EXCEPT !.cycled = TRUE], s)
  BY DEF Cycle
<1>3. PICK s : s = cycle(r)
  OBVIOUS
<1>4. CycleHears(r, s) /\ Turned(r, s)
  BY <1>1, <1>3, CycleHear, CycleGood
<1>5. CASE call.op = "yield" /\ \E rc : Return("yield", rc, s)
  <2>1. HearFit(s, Idle)
    BY <1>4, <1>5, TurnHear DEF Idle
  <2> QED
    BY <1>1, <1>5, <2>1, HearReturn
<1>6. CASE /\ Wait([call EXCEPT !.cycled = TRUE], s) /\ ~(s.rc < 0)
           /\ call.op = "yield" \/ s.rc # call.want
  <2> DEFINE k == [call EXCEPT !.cycled = TRUE]
  <2>1. k.op = call.op /\ k.topic = call.topic
    BY <1>1 DEF CallFits, Calls
  <2> HIDE DEF k
  <2>2. call.op = "subscribe" => ~(r.type = SUBACK /\ r.p.what = 0)
    <3> SUFFICES ASSUME call.op = "subscribe", r.type = SUBACK PROVE FALSE
      OBVIOUS
    <3>1. call.want = SUBACK
      BY <1>1 DEF CallFits
    <3>2. s.rc = FAILURE
      BY <1>4, <1>6, <3>1 DEF Turned
    <3> QED
      BY <1>6, <3>2 DEF FAILURE
  <2>3. HearFit(s, k)
    BY <1>4, <1>6, <2>1, <2>2, TurnHear
  <2> QED
    BY <1>1, <1>6, <2>3, HearWait DEF k
<1>7. CASE call.op # "yield" /\ s.rc = call.want /\ Got(s, r.p)
  BY <1>1, <1>4, <1>7, GotHear
<1>8. CASE Missed(s, FALSE) \/ Missed(s, TRUE)
  <2>1. call.op # "resend"
    BY DEF HearInv, HearFits, Calm
  <2>2. /\ Good(s) /\ HearNet(s.net, broker, s.seen) /\ s.c.cleansession
        /\ s.c.inflight.id = 0
        /\ call.op = "connect" => s.c.qos2ids = {} /\ ~s.c.isconnected
    BY <1>4 DEF CycleHears
  <2> QED
    BY <1>1, <1>8, <2>1, <2>2, MissedHear
<1> QED
  BY <1>2, <1>3, <1>5, <1>6, <1>7, <1>8
LEMMA HearState ==
  ASSUME TypeInv, HearInv
  PROVE  /\ use \in DOMAIN Uses /\ Good(S) /\ S.net = net /\ S.c = c
         /\ S.seen = seen /\ HearFit(S, call) /\ net \in Nets
         /\ broker \in Brokers /\ c \in Sessions
         /\ HearNet(S.net, broker, S.seen) /\ Calm(c, net, call, broker)
         /\ c.cleansession /\ c.inflight.id = 0 /\ call.op # "resend"
<1>1. /\ use \in DOMAIN Uses /\ Good(S) /\ S.net = net /\ S.c = c
      /\ S.seen = seen /\ net \in Nets /\ broker \in Brokers /\ c \in Sessions
  BY StateParts DEF TypeInv, ClientFits, BrokerFits, S
<1> QED
  BY <1>1 DEF HearInv, HearFit, HearFits, HearNet, Calm
LEMMA ExpireHear ==
  ASSUME TypeInv, UNCHANGED use, SubInv, HearInv, Expire PROVE HearInv'
<1>1. /\ UNCHANGED broker /\ call.op # "idle"
      /\ \/ call.op = "yield" /\ Return("yield", SUCCESS, S)
         \/ Missed(S, TRUE)
  BY DEF Expire
<1>2. CASE call.op = "yield" /\ Return("yield", SUCCESS, S)
  <2>1. HearFit(S, Idle)
    BY <1>2, HearState, HearCall DEF HearFit, Idle
  <2> QED
    BY <1>1, <1>2, <2>1, HearReturn
<1>3. CASE Missed(S, TRUE)
  <2>1. call.op = "connect" => S.c.qos2ids = {} /\ ~S.c.isconnected
    BY HearState DEF SubInv, SubFits, Begun, Settling, Calm
  <2> QED
    BY <1>1, <1>3, <2>1, HearState, MissedHear
<1> QED
  BY <1>1, <1>2, <1>3

-----------------------------------------------------------------------------
(* What the application asks for.                                          *)

LEMMA HearsNet ==
  ASSUME NEW cc, NEW nn, NEW k, NEW b, NEW sn, HearFits(cc, nn, k, b, sn)
  PROVE  HearNet(nn, b, sn)
BY DEF HearFits, HearNet, Calm
LEMMA NetQuiet ==
  ASSUME NEW nn \in Nets, NEW mm, NEW b \in Brokers, NEW sn,
         HearNet(nn, b, sn), mm.down = nn.down, NEW p \in Packets,
         mm.up \in {nn.up, Append(nn.up, p)},
         p.type \notin {PUBACK, PUBREC, PUBCOMP},
         QOS2Build \/ p \notin Elaborate
  PROVE  HearNet(mm, b, sn)
<1>1. nn.up \in Seq(Packets)
  BY WiresAre
<1>2. Less(nn.up, mm.up, {PUBACK, PUBREC, PUBCOMP})
  BY <1>1, LessEmpty, LessMore
<1>3. QOS2Build \/ (Lacks(nn.up, Elaborate) => Lacks(mm.up, Elaborate))
  BY <1>1, LacksMore
<1>4. Handed(mm, b, sn)
  BY <1>2, HandedQuiet DEF HearNet
<1> QED
  BY <1>3, <1>4 DEF HearNet, OnlyHandled
LEMMA OpenNetworkHear ==
  ASSUME TypeInv, UNCHANGED use, HearInv, OpenNetwork PROVE HearInv'
<1>1. /\ c' = c /\ seen' = seen /\ call' = call /\ call.op = "idle"
      /\ ~c.isconnected
      /\ net' = NewNet /\ broker' = [broker EXCEPT !.conn = FALSE]
  BY DEF OpenNetwork
<1>2. /\ net'.up = <<>> /\ net'.down = <<>>
      /\ broker'.out = broker.out /\ broker'.acked = broker.acked
  BY <1>1, HearState DEF NewNet, Brokers
<1>3. \A P : Lacks(<<>>, P)
  BY DEF Lacks
<1>4. Handed(net', broker', seen)
  BY <1>2, <1>3 DEF HearInv, HearFits, Handed
<1>5. HearNet(net', broker', seen)
  BY <1>2, <1>3, <1>4 DEF HearNet, OnlyHandled
<1>6. HearFits(c', net', call', broker', seen')
  BY <1>1, <1>5, HearState, HearGone DEF Calm
<1> QED
  BY <1>6, HearNext
LEMMA YieldHear ==
  ASSUME AttendsTo(use), TypeInv, UNCHANGED use, HearInv, Yield
  PROVE  HearInv'
<1> DEFINE k == Waiting("yield", 0)
<1>1. /\ call.op = "idle" /\ c.isconnected /\ Wait(k, S) /\ UNCHANGED broker
  BY DEF Yield, AttendsTo, YieldsAnyway
<1>2. k.op = "yield"
  BY DEF Waiting, Idle
<1> HIDE DEF k
<1>3. HearFit(S, k)
  BY <1>1, <1>2, HearState, HearCall DEF HearFit
<1> QED
  BY <1>1, <1>3, HearWait
LEMMA DisconnectHear ==
  ASSUME TypeInv, UNCHANGED use, HearInv, Disconnect PROVE HearInv'
<1> DEFINE p == Packet(DISCONNECT, 0, 0, 0)
           d == sendPacket(S, p)
           e == closeSession(d)
<1>1. /\ p \in Packets /\ p.type = DISCONNECT
  BY DEF Packet, Packets, PacketFields, DISCONNECT, CONNACK
<1>2. p.type \notin {PUBACK, PUBREC, PUBCOMP} /\ p \notin Elaborate
  BY <1>1 DEF DISCONNECT, PUBACK, PUBREC, PUBCOMP, Elaborate, PUBREL, PUBLISH
<1>3. Return("disconnect", d.rc, e) /\ UNCHANGED broker
  BY DEF Disconnect
<1> HIDE DEF p
<1>4. HearFit(d, call) /\ d.c = S.c
  BY <1>1, <1>2, HearState, HearSent
<1> HIDE DEF d
<1>5. HearFit(e, Idle)
  BY <1>4, HearState, HearsNet, HearClosed DEF HearFit
<1> HIDE DEF e
<1> QED
  BY <1>3, <1>5, HearReturn
LEMMA TickHear ==
  ASSUME UNCHANGED use, HearInv, Tick PROVE HearInv'
<1>1. HearFits(c', net', call', broker', seen')
  BY DEF Tick, HearInv
<1> QED
  BY <1>1, HearNext
LEMMA ConnectHear ==
  ASSUME AttendsTo(use), TypeInv, UNCHANGED use, DelInv, HearInv,
         NEW clean \in CleanOptions, MqttConnect(clean)
  PROVE  HearInv'
<1>1. /\ clean = TRUE /\ UNCHANGED broker /\ call.op = "idle"
      /\ c.isconnected \/ net.fresh
  <2>1. clean \in BOOLEAN /\ FALSE \notin CleanOptions
    BY UseTypes DEF TypeInv, AttendsTo, CleanOptions
  <2> QED
    BY <2>1 DEF MqttConnect
<1>2. CASE c.isconnected
  <2>1. Return("connect", FAILURE, S)
    BY <1>2 DEF MqttConnect
  <2>2. HearFit(S, Idle)
    BY <1>1, HearState, HearCall DEF HearFit, Idle
  <2> QED
    BY <1>1, <2>1, <2>2, HearReturn
<1>3. CASE ~c.isconnected
  <2> DEFINE p == Packet(CONNECT, 0, 0, IF clean THEN 1 ELSE 0)
             b == Begins(clean)
             d == sendPacket(b, p)
             e == [d EXCEPT !.t.received = KeepAlive]
             k == Waiting("connect", CONNACK)
  <2>1. IF d.rc = FAILURE THEN EndConnect(FAILURE, d) ELSE Wait(k, e)
    BY <1>3 DEF MqttConnect, Begins
  <2>2. /\ p \in Packets /\ p.type = CONNECT
    BY DEF Packet, Packets, PacketFields, CONNECT, CONNACK
  <2>3. p.type \notin {PUBACK, PUBREC, PUBCOMP} /\ p \notin Elaborate
    BY <2>2 DEF CONNECT, PUBACK, PUBREC, PUBCOMP, Elaborate, PUBREL, PUBLISH
  <2>4. /\ Good(b) /\ b \in States /\ b.c.cleansession
        /\ b.net.up = net.up /\ b.net.down = net.down
        /\ b.c.isconnected = c.isconnected /\ b.seen = seen
        /\ b.c.qos2ids = c.qos2ids /\ b.c.inflight = c.inflight
    <3>1. /\ b.seen = seen /\ b.c.qos2ids = c.qos2ids
          /\ b.c.isconnected = c.isconnected /\ b.c.inflight = c.inflight
      BY HearState DEF Begins, S, Sessions
    <3>2. b = Begins(clean)
      OBVIOUS
    <3> HIDE DEF b
    <3> QED
      BY <1>1, <1>3, <3>1, <3>2, HearState, BeginsGood DEF Good
  <2> HIDE DEF p, b
  <2>5. /\ Good(d) /\ Same(b, d) /\ d.c = b.c
        /\ d.net.up \in {b.net.up, Append(b.net.up, p)}
    BY <2>2, <2>4, HearState, AskSent
  <2>6. d.seen = b.seen
    BY <2>2, <2>4, HearState, SendPacketGood
  <2>7. e.c = d.c /\ e.net = d.net /\ e.seen = d.seen
    BY <2>5 DEF Good, States
  <2> HIDE DEF d, e
  <2>8. HearNet(d.net, broker, d.seen)
    <3>1. d.net.down = net.down /\ d.net.up \in {net.up, Append(net.up, p)}
      BY <2>4, <2>5 DEF Same
    <3>2. HearNet(net, broker, d.seen)
      BY <2>4, <2>6, HearState
    <3> QED
      BY <2>2, <2>3, <3>1, <3>2, HearState, NetQuiet
  <2>9. Lacks(d.net.down, Told)
    <3>1. d.net.down = <<>>
      BY <1>1, <1>3, <2>4, <2>5 DEF Same, DelInv, DelFits, Opened
    <3> QED
      BY <3>1 DEF Lacks
  <2>10. /\ ~d.c.isconnected /\ d.c.cleansession /\ d.c.inflight.id = 0
         /\ d.c.qos2ids = {}
    BY <1>3, <2>4, <2>5, HearState DEF Calm
  <2>11. k.op = "connect" /\ Idle.op = "idle"
    BY DEF Waiting, Idle
  <2> HIDE DEF k
  <2>12. HearFits(d.c, d.net, k, broker, d.seen)
    BY <2>8, <2>9, <2>10, <2>11, HearGone
  <2>13. HearFit(d, Idle)
    BY <2>5, <2>8, <2>10, <2>11, HearGone DEF HearFit
  <2>14. CASE d.rc = FAILURE
    <3>1. Return("connect", FAILURE, d)
      BY <2>1, <2>14 DEF EndConnect, FAILURE, SUCCESS
    <3> QED
      BY <1>1, <2>13, <3>1, HearReturn
  <2>15. CASE d.rc # FAILURE
    <3>1. HearFits(c', net', call', broker', seen')
      BY <1>1, <2>1, <2>7, <2>12, <2>15 DEF Wait, Apply
    <3> QED
      BY <3>1, HearNext
  <2> QED
    BY <2>14, <2>15
<1> QED
  BY <1>2, <1>3
LEMMA PublishHear ==
  ASSUME AcksAreAwaited, TypeInv, UNCHANGED use, HearInv,
         NEW qos \in OutQoS, NEW long \in BOOLEAN, Publish(qos, long)
  PROVE  HearInv'
<1> DEFINE msg == used.calls + 1
           id == PublishId(qos)
           s == Publishes(qos, long)
           p == PublishPacket(id, qos, 0, msg)
           d == sendPacket(s, p)
           e == closeSession(d)
           w == [Waiting("publish", AckOf(qos)) EXCEPT !.msg = msg, !.qos = qos]
<1>1. /\ use \in DOMAIN Uses /\ Good(S) /\ qos \in 0..2 /\ used.calls \in Nat
      /\ S.c = c /\ S.net = net /\ S.seen = seen /\ UNCHANGED broker
      /\ c.next \in 0..MAX_PACKET_ID /\ c \in Sessions /\ call.op = "idle"
      /\ HearFit(S, call) /\ c.cleansession /\ c.inflight.id = 0
  BY HearState, UseTypes DEF TypeInv, UsedFits, Publish, Sessions
<1>2. \/ ~c.isconnected /\ Return("publish", FAILURE, S)
      \/ /\ c.isconnected
         /\ \/ Return("publish", FAILURE, s) \/ Return("publish", FAILURE, e)
            \/ Return("publish", SUCCESS, d) \/ Wait(w, d)
  BY DEF Publish, PublishId, Publishes
<1>3. /\ Good(s) /\ s.net = net /\ s.c.cleansession = c.cleansession
  BY <1>1, PublishesGood
<1>4. /\ s.seen = seen /\ s.c.qos2ids = c.qos2ids
      /\ s.c.handlers = c.handlers /\ s.c.isconnected = c.isconnected
      /\ s.c.inflight.id = 0
  BY <1>1 DEF Publishes, S, Sessions
<1>5. w.op = "publish" /\ Idle.op = "idle"
  BY DEF Waiting, Idle
<1> HIDE DEF s, w
<1>6. HearFit(s, call)
  BY <1>1, <1>3, <1>4, HearSession
<1>7. /\ p \in Packets /\ p.type \notin {PUBACK, PUBREC, PUBCOMP}
      /\ QOS2Build \/ p \notin Elaborate
  <2>1. id \in Nat /\ msg \in Nat
    BY <1>1, NextId, UseTypes DEF PublishId
  <2>2. QOS2Build \/ qos \in {0, 1}
    BY <1>1 DEF AcksAreAwaited, OutQoS, QOS2Build
  <2>3. qos \in 0..2 /\ p = PublishPacket(id, qos, 0, msg)
    BY <1>1
  <2> HIDE DEF id, msg, p
  <2>4. p \in Packets /\ p.type = PUBLISH /\ p.qos = qos
    BY <2>1, <2>3, PublishTypes
  <2> QED
    BY <2>2, <2>4 DEF Elaborate, PUBLISH, PUBACK, PUBREC, PUBCOMP, PUBREL
<1> HIDE DEF p
<1>8. HearFit(S, Idle)
  BY <1>1, <1>5, HearCall DEF HearFit
<1>9. HearFit(s, Idle)
  BY <1>1, <1>5, <1>6, HearCall DEF HearFit
<1>10. HearFit(d, call) /\ d.c = s.c
  BY <1>1, <1>6, <1>7, HearState, HearSent
<1> HIDE DEF d
<1>11. HearFit(d, Idle)
  BY <1>1, <1>5, <1>10, HearCall DEF HearFit
<1>12. c.isconnected => HearFit(d, w)
  BY <1>1, <1>4, <1>5, <1>10, HearCall DEF HearFit
<1>13. HearFit(e, Idle)
  <2>1. HearNet(d.net, broker, d.seen) /\ Good(d) /\ d.c.cleansession
    BY <1>1, <1>3, <1>10, HearsNet DEF HearFit
  <2> QED
    BY <1>1, <2>1, HearClosed
<1> HIDE DEF e
<1> QED
  BY <1>1, <1>2, <1>8, <1>9, <1>11, <1>12, <1>13, HearReturn, HearWait
LEMMA AskHear ==
  ASSUME TypeInv, UNCHANGED use, SubInv, HearInv, NEW topic \in Topics,
         Subscribe(topic) \/ Unsubscribe(topic)
  PROVE  HearInv'
<1>1. PICK op, type, want :
        /\ \/ op = "subscribe" /\ type = SUBSCRIBE /\ want = SUBACK
           \/ op = "unsubscribe" /\ type = UNSUBSCRIBE /\ want = UNSUBACK
        /\ Ask(op, type, want, topic)
  BY DEF Subscribe, Unsubscribe
<1> DEFINE p == Packet(type, getNext(c.next), 0, topic)
           d == sendPacket(Asks, p)
           e == closeSession(d)
           f == closeSession(S)
           k == [Waiting(op, want) EXCEPT !.topic = topic]
<1>2. /\ use \in DOMAIN Uses /\ Good(S) /\ S.c = c /\ S.net = net
      /\ S.seen = seen /\ HearFit(S, call) /\ UNCHANGED broker
      /\ c.next \in 0..MAX_PACKET_ID /\ c \in Sessions /\ call.op = "idle"
      /\ c.cleansession /\ c.inflight.id = 0
      /\ HearNet(S.net, broker, S.seen)
  BY <1>1, HearState DEF Ask, Sessions
<1>3. \/ ~c.isconnected /\ Return(op, FAILURE, f)
      \/ c.isconnected /\ (Return(op, FAILURE, e) \/ Wait(k, d))
  BY <1>1 DEF Ask, Asks
<1>4. /\ p \in Packets /\ p.type \notin {PUBACK, PUBREC, PUBCOMP}
      /\ p \notin Elaborate
  <2>1. getNext(c.next) \in Nat
    BY <1>2, NextId, UseTypes
  <2>2. type \in 0..15
        /\ type \notin {CONNACK, PUBLISH, PUBREL, PUBACK, PUBREC, PUBCOMP}
    BY <1>1 DEF SUBSCRIBE, UNSUBSCRIBE, CONNACK, PUBLISH, PUBREL, PUBACK,
                PUBREC, PUBCOMP
  <2>3. p \in Packets /\ p.type = type
    BY <2>1, <2>2 DEF Packet, Packets, PacketFields
  <2> QED
    BY <2>2, <2>3 DEF Elaborate
<1>5. k.op = op /\ k.topic = topic
  BY DEF Waiting, Idle
<1> HIDE DEF p, k
<1>6. /\ Good(Asks) /\ Asks.net = net
      /\ Asks.c.cleansession = c.cleansession
  BY <1>2, AsksGood
<1>7. /\ Asks.seen = seen /\ Asks.c.qos2ids = c.qos2ids
      /\ Asks.c.handlers = c.handlers /\ Asks.c.inflight = c.inflight
      /\ Asks.c.isconnected = c.isconnected
  BY <1>2 DEF Asks, S, Sessions
<1>8. HearFit(Asks, call)
  BY <1>2, <1>6, <1>7, HearSession
<1>9. CASE ~c.isconnected
  <2>1. HearFit(f, Idle)
    BY <1>2, HearClosed
  <2> HIDE DEF f
  <2> QED
    BY <1>2, <1>3, <1>9, <2>1, HearReturn
<1>10. CASE c.isconnected
  <2>1. HearFit(d, call) /\ d.c = Asks.c /\ d.net.down = net.down
    BY <1>2, <1>4, <1>6, <1>8, HearState, HearSent
  <2> HIDE DEF d, f
  <2>2. HearFit(e, Idle)
    <3>1. HearNet(d.net, broker, d.seen) /\ Good(d) /\ d.c.cleansession
      BY <1>2, <1>6, <2>1, HearsNet DEF HearFit
    <3> QED
      BY <1>2, <3>1, HearClosed
  <2>3. HearFit(d, k)
    <3>1. Asked(c, net, call, broker)
      BY <1>2, <1>10 DEF SubInv, SubFits, Matters
    <3>2. broker.subs \subseteq c.handlers /\ Lacks(net.down, Of({UNSUBACK}))
      BY <1>2, <3>1 DEF Asked, NotAsking, Settling
    <3> QED
      BY <1>1, <1>2, <1>5, <1>7, <1>10, <2>1, <3>2, HearCall DEF HearFit
  <2> HIDE DEF e
  <2> QED
    BY <1>2, <1>3, <1>10, <2>2, <2>3, HearReturn, HearWait
<1> QED
  BY <1>9, <1>10

\* Some of what is under way is lost, and the connection with it.
LEMMA FailsHear ==
  ASSUME TypeInv, UNCHANGED use, HearInv, NEW how \in {"cut", "closed"},
         Fails(how)
  PROVE  HearInv'
<1>1. UNCHANGED <<c, seen, call, broker>>
  BY DEF Fails, Break, Others
<1>2. PICK i \in 0..Len(net.down) :
        net' = [net EXCEPT !.link = how, !.up = <<>>, !.down = SubSeq(@, 1, i)]
  BY DEF Fails, Break
<1>3. /\ net \in Nets /\ net.down \in Seq(Packets) /\ broker \in Brokers
  BY HearState, WiresAre
<1>4. /\ net'.link = how /\ net'.up = <<>> /\ net'.junk = net.junk
      /\ net'.down = SubSeq(net.down, 1, i)
  BY <1>2, <1>3 DEF Nets
<1>5. \A P : Lacks(net.down, P) => Lacks(net'.down, P)
  BY <1>3, <1>4, LacksLess
<1>6. /\ OnlyHandled(net) /\ Calm(c, net, call, broker)
      /\ Handed(net, broker, seen)
  BY DEF HearInv, HearFits
<1>7. \A P : Lacks(net'.up, P)
  BY <1>4 DEF Lacks
<1>8. OnlyHandled(net')
  BY <1>5, <1>6, <1>7 DEF OnlyHandled
<1>9. Calm(c, net', call, broker)
  BY <1>4, <1>5, <1>6 DEF Calm
<1>10. Handed(net', broker, seen)
  BY <1>6, <1>7 DEF Handed
<1>11. HearFits(c', net', call', broker', seen')
  BY <1>1, <1>4, <1>8, <1>9, <1>10 DEF HearFits, Live
<1> QED
  BY <1>11, HearNext
-----------------------------------------------------------------------------
(* The broker and what it sends.                                           *)

\* What was there is there still, with what is sent after it.
LEMMA ConcatIs ==
  ASSUME NEW q, q \in Seq(Packets), NEW r, r \in Seq(Packets)
  PROVE  /\ Len(q) \in Nat /\ Len(r) \in Nat
         /\ Len(q \o r) = Len(q) + Len(r)
         /\ \A i \in 1..Len(q) : (q \o r)[i] = q[i]
         /\ \A i \in 1..Len(q \o r) :
              \/ i \in 1..Len(q)
              \/ i - Len(q) \in 1..Len(r) /\ (q \o r)[i] = r[i - Len(q)]
<1>1. Len(q) \in Nat /\ Len(r) \in Nat /\ Len(q \o r) = Len(q) + Len(r)
  BY ConcatParts
<1> QED
  BY <1>1, ConcatParts
LEMMA WithinConcat ==
  ASSUME NEW q, q \in Seq(Packets), NEW r, r \in Seq(Packets), NEW P
  PROVE  /\ ~Lacks(q, P) => ~Lacks(q \o r, P)
         /\ ~Lacks(r, P) => ~Lacks(q \o r, P)
<1>1. Len(q) \in Nat /\ Len(r) \in Nat
  OBVIOUS
<1>2. \A i \in 1..Len(q) : i \in 1..Len(q \o r)
  BY <1>1, ConcatParts
<1>3. \A i \in 1..Len(r) : Len(q) + i \in 1..Len(q \o r)
  BY <1>1, ConcatParts
<1> QED
  BY <1>2, <1>3, ConcatParts DEF Lacks
LEMMA HearsConcat ==
  ASSUME NEW q, q \in Seq(Packets), NEW r, r \in Seq(Packets), NEW cc, NEW k,
         NEW b, NEW e, Hears(cc, q, k, b),
         \A i \in 1..Len(r) : r[i] \in Told =>
           \/ Heard(cc, r[i])
           \/ k.op = "subscribe" /\ r[i].what = k.topic
              /\ ~Lacks(q, With(SUBACK, 0)),
         k.op = "subscribe" /\ k.topic \in e.subs \ cc.handlers =>
           ~Lacks(q \o r, With(SUBACK, 0)),
         k.op = "unsubscribe" =>
           \/ Lacks(q \o r, Of({UNSUBACK}))
           \/ \A i \in 1..Len(r) : r[i] \in Told => r[i].what # k.topic
  PROVE  Hears(cc, q \o r, k, e)
<1> DEFINE v == q \o r
<1>1. /\ Len(q) \in Nat /\ Len(r) \in Nat /\ Len(v) = Len(q) + Len(r)
      /\ \A i \in 1..Len(q) : v[i] = q[i]
      /\ \A i \in 1..Len(v) :
           \/ i \in 1..Len(q)
           \/ i - Len(q) \in 1..Len(r) /\ v[i] = r[i - Len(q)]
  BY ConcatIs
<1>2. k.op = "subscribe" /\ k.topic \in e.subs \ cc.handlers =>
        ~Lacks(v, With(SUBACK, 0))
  OBVIOUS
<1>3. \/ k.op # "unsubscribe" \/ Lacks(v, Of({UNSUBACK}))
      \/ \A i \in 1..Len(r) : r[i] \in Told => r[i].what # k.topic
  OBVIOUS
<1> HIDE DEF v
<1>4. ASSUME NEW i \in 1..Len(v), v[i] \in Told
      PROVE  Heard(cc, v[i]) \/ Awaits(k, v, i)
  <2>1. CASE i \in 1..Len(q)
    <3>1. Heard(cc, q[i]) \/ Awaits(k, q, i)
      BY <1>1, <1>4, <2>1 DEF Hears
    <3>2. Awaits(k, q, i) => Awaits(k, v, i)
      <4> SUFFICES ASSUME Awaits(k, q, i) PROVE Awaits(k, v, i)
        OBVIOUS
      <4>1. PICK j \in 1..Len(q) : j < i /\ q[j] \in With(SUBACK, 0)
        BY DEF Awaits
      <4>2. j \in 1..Len(v) /\ v[j] = q[j] /\ v[i] = q[i]
        BY <1>1, <2>1
      <4> QED
        BY <4>1, <4>2 DEF Awaits
    <3> QED
      BY <1>1, <2>1, <3>1, <3>2
  <2>2. CASE i - Len(q) \in 1..Len(r) /\ v[i] = r[i - Len(q)]
    <3>1. \/ Heard(cc, v[i])
          \/ k.op = "subscribe" /\ v[i].what = k.topic
             /\ ~Lacks(q, With(SUBACK, 0))
      BY <1>4, <2>2
    <3>2. ASSUME ~Lacks(q, With(SUBACK, 0))
          PROVE  \E j \in 1..Len(v) : j < i /\ v[j] \in With(SUBACK, 0)
      <4>1. PICK j \in 1..Len(q) : q[j] \in With(SUBACK, 0)
        BY <3>2 DEF Lacks
      <4>2. j \in 1..Len(v) /\ j < i /\ v[j] = q[j]
        BY <1>1, <2>2
      <4> QED
        BY <4>1, <4>2
    <3> QED
      BY <3>1, <3>2 DEF Awaits
  <2> QED
    BY <1>1, <2>1, <2>2
<1>5. ASSUME k.op = "unsubscribe", NEW i \in 1..Len(v), NEW j \in 1..Len(v),
             v[i] \in Told, v[i].what = k.topic, v[j] \in Of({UNSUBACK})
      PROVE  i < j
  <2>1. \A x \in 1..Len(r) : r[x] \in Told => r[x].what # k.topic
    BY <1>3, <1>5 DEF Lacks
  <2>2. i \in 1..Len(q) /\ q[i] = v[i]
    BY <1>1, <1>5, <2>1
  <2>3. CASE j \in 1..Len(q)
    BY <1>1, <1>5, <2>2, <2>3 DEF Hears
  <2>4. CASE j - Len(q) \in 1..Len(r)
    BY <1>1, <2>2, <2>4
  <2> QED
    BY <1>1, <2>3, <2>4
<1>6. Hears(cc, v, k, e)
  BY <1>2, <1>4, <1>5 DEF Hears
<1> QED
  BY <1>6 DEF v

\* It takes a packet, and what it sends then the client is ready for.
Ready(r) ==
  /\ r \in Seq(Packets) /\ Lacks(r, Strange) /\ Lacks(r, With(CONNACK, 0))
  /\ Lacks(r, Told)
LEMMA AnsweredHear ==
  ASSUME TypeInv, UNCHANGED <<use, c, call, seen>>, HearInv, net.up # <<>>,
         net.link = "up", NEW r, Ready(r), NEW b, Answer(b, r),
         b.conn = broker.conn, Handed(net', b, seen),
         Filed(c, net, broker) => Filed(c, net', b),
         Live(c, net) /\ call.op = "subscribe"
           /\ call.topic \in b.subs \ broker.subs => ~Lacks(r, With(SUBACK, 0))
  PROVE  HearInv'
<1>1. /\ net \in Nets /\ net.up \in Seq(Packets) /\ net.down \in Seq(Packets)
      /\ r \in Seq(Packets)
  BY StateParts, WiresAre DEF TypeInv, ClientFits, Ready
<1>2. /\ net'.link = net.link /\ net'.up = Tail(net.up)
      /\ net'.down = net.down \o r /\ broker' = b
  BY <1>1, AnswerNets
<1>3. net'.junk = net.junk
  BY <1>1 DEF Answer, Nets
<1>4. /\ OnlyHandled(net) /\ Calm(c, net, call, broker)
  BY DEF HearInv, HearFits
<1>5. \A P : Lacks(r, P) /\ Lacks(net.down, P) => Lacks(net'.down, P)
  BY <1>1, <1>2, LacksConcat
<1>6. OnlyHandled(net')
  BY <1>1, <1>2, <1>4, <1>5, LacksLess DEF OnlyHandled, Ready
<1>7. Calm(c, net', call, b)
  BY <1>3, <1>4, <1>5 DEF Calm, Ready
<1>8. ASSUME Live(c, net')
      PROVE  Hears(c, net'.down, call, b) /\ Filed(c, net', b)
  <2>1. Live(c, net)
    BY <1>2, <1>3, <1>8 DEF Live
  <2>2. Hears(c, net.down, call, broker) /\ Filed(c, net, broker)
    BY <2>1 DEF HearInv, HearFits
  <2>3. call.op = "subscribe" /\ call.topic \in b.subs \ c.handlers =>
          ~Lacks(net.down \o r, With(SUBACK, 0))
    <3> SUFFICES ASSUME call.op = "subscribe",
                        call.topic \in b.subs \ c.handlers
                 PROVE  ~Lacks(net.down \o r, With(SUBACK, 0))
      OBVIOUS
    <3>1. CASE call.topic \in broker.subs
      <4>1. ~Lacks(net.down, With(SUBACK, 0))
        BY <2>2, <3>1 DEF Hears
      <4> QED
        BY <1>1, <4>1, WithinConcat
    <3>2. CASE call.topic \notin broker.subs
      <4>1. ~Lacks(r, With(SUBACK, 0))
        BY <2>1, <3>2
      <4> QED
        BY <1>1, <4>1, WithinConcat
    <3> QED
      BY <3>1, <3>2
  <2>4. \A i \in 1..Len(r) : r[i] \notin Told
    BY DEF Ready, Lacks
  <2>5. Hears(c, net.down \o r, call, b)
    BY <1>1, <2>2, <2>3, <2>4, HearsConcat
  <2> QED
    BY <1>2, <2>2, <2>5
<1>9. HearFits(c', net', call', broker', seen')
  BY <1>2, <1>6, <1>7, <1>8 DEF HearFits
<1> QED
  BY <1>9, HearNext

\* It acknowledges what the client sent, and its own publishes wait on.
LEMMA PlainHear ==
  ASSUME TypeInv, UNCHANGED <<use, c, call, seen>>, HearInv, net.up # <<>>,
         net.link = "up", NEW r, Ready(r), NEW b, Answer(b, r),
         \A i \in 1..Len(r) : r[i].type \notin {PUBLISH, PUBREL},
         b.conn = broker.conn, b.out = broker.out, b.acked = broker.acked,
         Live(c, net) /\ call.op = "subscribe"
           /\ call.topic \in b.subs \ broker.subs => ~Lacks(r, With(SUBACK, 0))
  PROVE  HearInv'
<1>1. /\ net \in Nets /\ net.up \in Seq(Packets) /\ net.down \in Seq(Packets)
      /\ r \in Seq(Packets) /\ broker \in Brokers
      /\ \A o \in broker.out : o \in Outs
  BY StateParts, WiresAre DEF TypeInv, ClientFits, Ready, BrokerFits, Brokers
<1>2. net'.up = Tail(net.up) /\ net'.down = net.down \o r
  BY <1>1, AnswerNets
<1>3. /\ Less(net.up, net'.up, {PUBACK, PUBREC, PUBCOMP})
      /\ Less(net.down, net'.down, {PUBLISH, PUBREL})
  BY <1>1, <1>2, LessFewer, LessConcat
<1>4. Handed(net', b, seen)
  <2>1. Handed(net', broker, seen)
    BY <1>1, <1>3, HandedQuiet DEF HearInv, HearFits
  <2> QED
    BY <2>1 DEF Handed
<1>5. ASSUME Filed(c, net, broker) PROVE Filed(c, net', b)
  <2>1. \A o \in broker.out :
          Lacks(net.up, {AckFor(o)}) => Lacks(net'.up, {AckFor(o)})
    BY <1>1, <1>3, FewerAcks
  <2>2. \A o \in broker.out :
          Lacks(net.down, {Sending(o)}) => Lacks(net'.down, {Sending(o)})
    BY <1>1, <1>3, SendingPackets DEF Less
  <2> QED
    BY <1>5, <2>1, <2>2 DEF Filed
<1> QED
  BY <1>4, <1>5, AnsweredHear

\* The broker forgets a publish only when it was handed on; a QoS 2 one keeps
\* its id, in the client's table, until its PUBREL has been answered.
LEMMA TakesAckHear ==
  ASSUME TypeInv, UNCHANGED <<use, c, call, seen>>, DelInv, HearInv,
         net.up # <<>>, net.link = "up", NEW p, p = Head(net.up), p \in Acks,
         BrokerTakesAck(p)
  PROVE  HearInv'
<1>1. /\ net \in Nets /\ net.up \in Seq(Packets) /\ net.down \in Seq(Packets)
      /\ broker \in Brokers /\ p \in Packets /\ p.id \in Nat
      /\ p.type \in {PUBACK, PUBREC, PUBCOMP} /\ MaxPublished \in Nat
      /\ \A x \in broker.out : x \in Outs
  <2>1. /\ net \in Nets /\ net.up \in Seq(Packets)
        /\ net.down \in Seq(Packets) /\ broker \in Brokers
        /\ p \in Packets /\ p.type \in {PUBACK, PUBREC, PUBCOMP}
        /\ MaxPublished \in Nat
    BY StateParts, WiresAre, MessageTypes, UseTypes
    DEF TypeInv, ClientFits, BrokerFits
  <2> QED
    BY <2>1 DEF Brokers, Packets, PacketFields
<1>2. /\ OutFits(broker) /\ InTransit(net, broker)
      /\ OnlyHandled(net) /\ Handed(net, broker, seen)
  BY DEF DelInv, DelFits, HearInv, HearFits
<1>3. PICK o \in broker.out : TookAck(p, o)
  BY TakesAckIs
<1>4. o \in Outs /\ p = AckFor(o) /\ p.id = o.id /\ net'.up = Tail(net.up)
  BY <1>1, <1>3, AckForIs DEF TookAck
<1>5. Len(net.up) >= 1 /\ net.up[1] = p /\ 1 \in 1..Len(net.up)
  BY <1>1
<1>6. ~Lacks(net.up, {AckFor(o)})
  BY <1>4, <1>5 DEF Lacks
<1>7. /\ seen[o.msg] > 0 /\ o.msg \in Incoming
  <2>1. o.msg \in Incoming
    BY <1>1, <1>2 DEF OutFits, Incoming, Brokers
  <2> QED
    BY <1>2, <1>6, <2>1 DEF Handed
<1>8. \A P : Lacks(net.up, P) => Lacks(net'.up, P)
  BY <1>1, <1>4, LacksLess
<1>9. PICK b, r : /\ Answer(b, r) /\ b.conn = broker.conn
                  /\ b.subs = broker.subs
                  /\ \/ r = <<>>
                     \/ p.type = PUBREC /\ r = Ack(PUBREL, p.id)
  <2>1. /\ broker'.conn = broker.conn /\ broker'.subs = broker.subs
    BY <1>1, TakesAckFits
  <2>2. PICK b, r : /\ Answer(b, r)
                    /\ \/ r = <<>>
                       \/ p.type = PUBREC /\ r = Ack(PUBREL, p.id)
    BY DEF BrokerTakesAck
  <2>3. broker' = b
    BY <2>2 DEF Answer
  <2> QED
    BY <2>1, <2>2, <2>3
<1>10. broker' = b
  BY <1>9 DEF Answer
<1>11. r \in Seq(Packets) /\ \A i \in 1..Len(r) : r[i].type = PUBREL
  <2>1. /\ Ack(PUBREL, p.id) \in Seq(Packets) /\ Len(Ack(PUBREL, p.id)) = 1
        /\ Ack(PUBREL, p.id)[1].type = PUBREL
    BY <1>1, AckPackets
  <2>2. CASE r = <<>>
    BY <2>2
  <2>3. CASE r = Ack(PUBREL, p.id)
    BY <2>1, <2>3
  <2> QED
    BY <1>9, <2>2, <2>3
<1>12. net'.down = net.down \o r
  BY <1>1, <1>9, <1>11, AnswerNets
<1>13. Ready(r)
  <2>1. r # <<>> => QOS2Build
    <3> SUFFICES ASSUME ~QOS2Build, p.type = PUBREC PROVE FALSE
      BY <1>9
    <3>1. p \in Elaborate
      BY <1>1 DEF Elaborate
    <3> QED
      BY <1>2, <1>5, <3>1 DEF OnlyHandled, Lacks
  <2>2. ASSUME NEW i \in 1..Len(r)
        PROVE  r[i] \notin Told /\ r[i] \notin Strange
               /\ r[i] \notin With(CONNACK, 0)
    <3>1. r[i].type = PUBREL /\ QOS2Build
      BY <1>11, <2>1, <2>2
    <3> QED
      BY <3>1 DEF Told, Pubs, Of, Strange, With, Handled, PUBREL, PUBLISH,
                  CONNACK
  <2> QED
    BY <1>11, <2>2 DEF Ready, Lacks
<1> DEFINE After(Q) ==
             /\ b.out = (broker.out \ {o}) \cup Q
             /\ \A q \in Q : /\ q \in Outs /\ q.rel /\ q.id = o.id
                             /\ q.msg = o.msg /\ q.qos = 2 /\ ~o.rel
             /\ Q = {} => o.rel \/ o.qos = 1
             /\ b.acked \in {broker.acked, broker.acked \cup {o.msg}}
<1>14. \E Q : After(Q)
  <2>1. CASE /\ o.rel \/ o.qos = 1
             /\ b.out = broker.out \ {o}
             /\ b.acked = broker.acked \cup {o.msg}
    <3>1. After({})
      BY <2>1
    <3> QED
      BY <3>1
  <2>2. CASE /\ ~o.rel /\ o.qos = 2 /\ b.acked = broker.acked
             /\ \E q \in Outs : /\ q = [o EXCEPT !.rel = TRUE]
                                /\ b.out = (broker.out \ {o}) \cup {q}
    <3>1. PICK q \in Outs : /\ q = [o EXCEPT !.rel = TRUE]
                            /\ b.out = (broker.out \ {o}) \cup {q}
      BY <2>2
    <3>2. q.rel /\ q.id = o.id /\ q.msg = o.msg /\ q.qos = o.qos
      BY <1>4, <3>1 DEF Outs
    <3>3. After({q})
      BY <2>2, <3>1, <3>2
    <3> QED
      BY <3>3
  <2> QED
    BY <1>3, <1>10, <2>1, <2>2 DEF TookAck
<1>15. PICK Q : After(Q)
  BY <1>14
<1>16. Handed(net', b, seen)
  <2>1. \A m \in b.acked : m \in Incoming /\ seen[m] > 0
    BY <1>2, <1>7, <1>15 DEF Handed
  <2>2. ASSUME NEW x \in b.out, x.rel \/ ~Lacks(net'.up, {AckFor(x)})
        PROVE  seen[x.msg] > 0
    <3>1. CASE x \in broker.out
      BY <1>2, <1>8, <2>2, <3>1 DEF Handed
    <3>2. CASE x \in Q
      BY <1>7, <1>15, <3>2
    <3> QED
      BY <1>15, <3>1, <3>2
  <2> QED
    BY <2>1, <2>2 DEF Handed
<1>17. ASSUME Filed(c, net, broker) PROVE Filed(c, net', b)
  <2> SUFFICES ASSUME NEW id \in c.qos2ids
               PROVE  \E x \in b.out :
                        /\ x.id = id /\ x.qos = 2
                        /\ IF x.rel THEN Lacks(net'.up, {AckFor(x)})
                                    ELSE Lacks(net'.down, {Sending(x)})
    BY DEF Filed
  <2>1. PICK x \in broker.out :
          /\ x.id = id /\ x.qos = 2
          /\ IF x.rel THEN Lacks(net.up, {AckFor(x)})
                      ELSE Lacks(net.down, {Sending(x)})
    BY <1>17 DEF Filed
  <2>2. CASE x # o
    <3>1. x \in b.out
      BY <1>15, <2>2
    <3>2. ASSUME ~x.rel PROVE Lacks(net'.down, {Sending(x)})
      <4>1. Sending(x).type = PUBLISH
        BY <1>1, <3>2, SendingIs
      <4>2. Lacks(r, {Sending(x)})
        BY <1>11, <4>1 DEF Lacks, PUBLISH, PUBREL
      <4>3. Lacks(net.down, {Sending(x)})
        BY <2>1, <3>2
      <4> QED
        BY <1>1, <1>11, <1>12, <4>2, <4>3, LacksConcat
    <3> QED
      BY <1>8, <2>1, <3>1, <3>2
  <2>3. CASE x = o
    <3>1. ~o.rel
      BY <1>6, <2>1, <2>3
    <3>2. PICK q \in Q : q \in b.out
      BY <1>15, <2>1, <2>3, <3>1
    <3>3. q.id = id /\ q.qos = 2 /\ q.rel /\ q \in Outs
      BY <1>15, <2>1, <2>3
    <3>4. Lacks(net'.up, {AckFor(q)})
      <4>1. /\ AckFor(q) \in Acks /\ AckFor(q).type = PUBCOMP
            /\ AckFor(q).id = o.id
        BY <2>1, <2>3, <3>3, AckForIs
      <4>2. AckFor(o).type = PUBREC
        BY <1>4, <2>1, <2>3, <3>1, AckForIs
      <4>3. \A y \in broker.out : y # o => AckFor(y).id # o.id
        BY <1>1, <1>2, AckForIs DEF OutFits
      <4>4. AckFor(q) \notin {AckFor(y) : y \in broker.out}
        BY <4>1, <4>2, <4>3 DEF PUBREC, PUBCOMP
      <4>5. Lacks(net.up, {AckFor(q)})
        BY <1>2, <4>1, <4>4 DEF InTransit, Lacks
      <4> QED
        BY <1>8, <4>5
    <3> QED
      BY <3>2, <3>3, <3>4
  <2> QED
    BY <2>2, <2>3
<1> QED
  BY <1>9, <1>13, <1>16, <1>17, AnsweredHear

\* A clean session begins: the broker has nothing in it.
LEMMA AcceptsHear ==
  ASSUME AttendsTo(use), TypeInv, UNCHANGED <<use, c, call, seen>>, DelInv,
         HearInv, net.up # <<>>, net.link = "up",
         NEW p, p = Head(net.up), p.type = CONNECT, BrokerAccepts(p)
  PROVE  HearInv'
<1>1. /\ net \in Nets /\ net.up \in Seq(Packets) /\ net.down \in Seq(Packets)
      /\ broker \in Brokers /\ p \in Packets
  BY StateParts, WiresAre DEF TypeInv, ClientFits, BrokerFits
<1>2. /\ Opened(net, broker) /\ KindFits(c, net, broker)
      /\ OnlyHandled(net) /\ Handed(net, broker, seen)
      /\ Calm(c, net, call, broker)
  BY DEF DelInv, DelFits, HearInv, HearFits
<1>3. Len(net.up) >= 1 /\ net.up[1] = p /\ 1 \in 1..Len(net.up)
  BY <1>1
<1>4. ~broker.conn /\ p.what = 1
  <2>1. p \in Of({CONNECT})
    BY <1>1 DEF Of
  <2>2. p \notin Without(CONNECT, 1)
    BY <1>2, <1>3 DEF KindFits, Anew, AttendsTo, CleanOptions, Lacks
  <2> QED
    BY <1>2, <1>3, <2>1, <2>2 DEF Opened, Lacks, Without
<1> DEFINE b == [NoSession EXCEPT !.acked = broker.acked,
                                  !.sent = broker.sent]
           e == [b EXCEPT !.conn = TRUE, !.clean = (p.what = 1)]
           r == Ack(CONNACK, 0)
<1>5. Answer(e, r \o Resent(b.out))
  BY <1>4 DEF BrokerAccepts
<1>6. b.out = {} /\ b.acked = broker.acked
  BY DEF NoSession
<1>7. e.out = {} /\ e.acked = broker.acked /\ e.conn
  BY DEF NoSession
<1>8. /\ r \in Seq(Packets) /\ Len(r) = 1 /\ r[1].type = CONNACK
  BY AckPackets
<1> HIDE DEF b, e, r
<1>9. Resent({}) = <<>>
  <2>1. {o.id : o \in {}} = {}
    OBVIOUS
  <2> QED
    BY <2>1 DEF Resent
<1>10. r \o Resent(b.out) = r
  <2>1. Resent(b.out) = <<>>
    BY <1>6, <1>9
  <2>2. r \o <<>> = r
    BY <1>8
  <2> QED
    BY <2>1, <2>2
<1>11. Answer(e, r)
  BY <1>5, <1>10
<1>12. /\ net'.up = Tail(net.up) /\ net'.down = net.down \o r /\ broker' = e
  BY <1>1, <1>8, <1>11, AnswerNets
<1>13. net'.junk = net.junk
  BY <1>1, <1>11 DEF Answer, Nets
<1>14. Lacks(r, Strange) /\ Lacks(r, Told)
  BY <1>8 DEF Lacks, Strange, Handled, Told, Pubs, Of, CONNACK, PUBLISH
<1>15. OnlyHandled(net')
  BY <1>1, <1>2, <1>8, <1>12, <1>14, LacksLess, LacksConcat DEF OnlyHandled
<1>16. Handed(net', e, seen)
  BY <1>2, <1>7 DEF Handed
<1>17. Calm(c, net', call, e) /\ ~c.isconnected
  <2>1. call.op = "connect" => Lacks(net'.down, Told)
    BY <1>1, <1>2, <1>8, <1>12, <1>14, LacksConcat DEF Calm
  <2> QED
    BY <1>2, <1>4, <1>7, <1>13, <2>1 DEF Calm
<1>18. HearFits(c', net', call', broker', seen')
  BY <1>12, <1>15, <1>16, <1>17 DEF HearFits, Live
<1> QED
  BY <1>18, HearNext

\* It refuses the client, or closes the connection.
LEMMA ClosesHear ==
  ASSUME TypeInv, UNCHANGED <<use, c, call, seen>>, HearInv,
         BrokerRefuses \/ BrokerCloses
  PROVE  HearInv'
<1> DEFINE a == Packet(CONNACK, 0, 0, 5)
<1>1. /\ net \in Nets /\ net.down \in Seq(Packets)
  BY StateParts, WiresAre DEF TypeInv, ClientFits
<1>2. /\ net'.up = <<>> /\ net'.link = "closed" /\ net'.junk = net.junk
      /\ net'.down \in {net.down, net.down \o <<a>>} /\ broker' = broker
  BY <1>1 DEF BrokerRefuses, BrokerCloses, Nets
<1>3. a \in Packets /\ a.type = CONNACK /\ a.what = 5
  BY DEF Packet, Packets, PacketFields, CONNACK
<1> HIDE DEF a
<1>4. a \notin Strange /\ a \notin Told /\ a \notin With(CONNACK, 0)
  BY <1>3 DEF Strange, Handled, Told, Pubs, Of, With, CONNACK, PUBLISH
<1>5. \A P : Lacks(net.down, P) /\ a \notin P => Lacks(net'.down, P)
  <2>1. net.down \o <<a>> = Append(net.down, a)
    BY <1>1, <1>3
  <2> QED
    BY <1>1, <1>2, <1>3, <2>1, LacksMore
<1>6. \A P : Lacks(net'.up, P)
  BY <1>2 DEF Lacks
<1>7. /\ OnlyHandled(net) /\ Calm(c, net, call, broker)
      /\ Handed(net, broker, seen)
  BY DEF HearInv, HearFits
<1>8. OnlyHandled(net') /\ Handed(net', broker, seen)
  BY <1>4, <1>5, <1>6, <1>7 DEF OnlyHandled, Handed
<1>9. Calm(c, net', call, broker)
  BY <1>2, <1>4, <1>5, <1>7 DEF Calm
<1>10. HearFits(c', net', call', broker', seen')
  BY <1>2, <1>8, <1>9 DEF HearFits, Live
<1> QED
  BY <1>10, HearNext

LEMMA ReadyAck ==
  ASSUME NEW type \in {PUBACK, PUBREC, PUBCOMP, SUBACK, UNSUBACK, PINGRESP},
         NEW id \in Nat, NEW what \in {0, 128},
         QOS2Build \/ type \notin {PUBREC, PUBCOMP}
  PROVE  \E r : /\ r = <<Packet(type, id, 0, what)>> /\ Ready(r)
                /\ Len(r) = 1 /\ r[1].type \notin {PUBLISH, PUBREL}
                /\ type = SUBACK => r[1] \in With(SUBACK, what)
<1> DEFINE a == Packet(type, id, 0, what)
           r == <<a>>
<1>1. /\ a \in Packets /\ a.type = type /\ a.what = what
  BY DEF Packet, Packets, PacketFields, PUBACK, PUBREC, PUBCOMP, SUBACK,
         UNSUBACK, PINGRESP, CONNACK
<1>2. /\ type \in Handled /\ type \notin {PUBLISH, PUBREL, CONNACK}
  BY DEF Handled, PUBACK, PUBREC, PUBCOMP, SUBACK, UNSUBACK, PINGRESP, CONNACK,
         PUBLISH, PUBREL
<1> HIDE DEF a
<1>3. a \notin Told /\ a \notin Strange /\ a \notin With(CONNACK, 0)
      /\ (type = SUBACK => a \in With(SUBACK, what))
  BY <1>1, <1>2 DEF Told, Strange, Pubs, With, Of
<1>4. r \in Seq(Packets) /\ Len(r) = 1 /\ r[1] = a
  BY <1>1
<1> HIDE DEF r
<1>5. Ready(r)
  BY <1>3, <1>4 DEF Ready, Lacks
<1>6. r = <<Packet(type, id, 0, what)>>
  BY DEF r, a
<1> QED
  BY <1>1, <1>2, <1>3, <1>4, <1>5, <1>6

\* It grants a subscription, and the SUBACK that says so is behind all else.
LEMMA SubscribesHear ==
  ASSUME TypeInv, UNCHANGED <<use, c, call, seen>>, HearInv, net.up # <<>>,
         net.link = "up", NEW p, p = Head(net.up), p.type = SUBSCRIBE,
         NEW b, Answer(b, Ack(SUBACK, p.id)),
         b = [broker EXCEPT !.subs = @ \cup {p.what}]
  PROVE  HearInv'
<1>1. /\ net \in Nets /\ net.up \in Seq(Packets) /\ broker \in Brokers
      /\ p \in Packets /\ p.id \in Nat
  <2>1. /\ net \in Nets /\ net.up \in Seq(Packets) /\ broker \in Brokers
        /\ p \in Packets
    BY StateParts, WiresAre DEF TypeInv, ClientFits, BrokerFits
  <2> QED
    BY <2>1 DEF Packets, PacketFields
<1>2. /\ b.conn = broker.conn /\ b.out = broker.out
      /\ b.acked = broker.acked /\ b.subs = broker.subs \cup {p.what}
  BY <1>1 DEF Brokers
<1> DEFINE r == Ack(SUBACK, p.id)
<1>3. /\ Ready(r) /\ Len(r) = 1 /\ r[1].type \notin {PUBLISH, PUBREL}
      /\ r[1] \in With(SUBACK, 0)
  <2>1. r = <<Packet(SUBACK, p.id, 0, 0)>>
    BY DEF Ack
  <2>2. SUBACK \notin {PUBREC, PUBCOMP}
    BY DEF SUBACK, PUBREC, PUBCOMP
  <2>3. 0 \in {0, 128}
    OBVIOUS
  <2> HIDE DEF r
  <2> QED
    BY <1>1, <2>1, <2>2, <2>3, ReadyAck
<1>4. Answer(b, r)
  OBVIOUS
<1> HIDE DEF r
<1>5. ~Lacks(r, With(SUBACK, 0)) /\ \A i \in 1..Len(r) : i = 1
  BY <1>3 DEF Lacks
<1> QED
  BY <1>2, <1>3, <1>4, <1>5, PlainHear

LEMMA BrokerHear ==
  ASSUME AttendsTo(use), TypeInv, UNCHANGED use, DelInv, HearInv, Broker
  PROVE  HearInv'
<1> DEFINE p == Head(net.up)
<1>1. PICK refuse : BrokerStep(refuse)
  BY DEF Broker
<1>2. /\ net \in Nets /\ broker \in Brokers /\ net.up # <<>>
      /\ net.link = "up" /\ net.up \in Seq(Packets)
      /\ UNCHANGED <<use, c, call, seen>>
  BY <1>1, StateParts, WiresAre
  DEF TypeInv, ClientFits, BrokerFits, BrokerStep, Broker, Others
<1>3. /\ p \in Packets /\ p.id \in Nat
      /\ 1 \in 1..Len(net.up) /\ net.up[1] = p
  <2>1. p \in Packets /\ 1 \in 1..Len(net.up) /\ net.up[1] = p
    BY <1>2
  <2> QED
    BY <2>1 DEF Packets, PacketFields
<1>4. p.type \in {PUBREC, PUBREL} \/ (p.type = PUBLISH /\ p.qos \notin {0, 1})
        => QOS2Build
  <2>1. QOS2Build \/ p \notin Elaborate
    BY <1>3 DEF HearInv, HearFits, OnlyHandled, Lacks
  <2> QED
    BY <1>3, <2>1 DEF Elaborate
<1>5. \/ p.type = CONNECT /\ BrokerAccepts(p)
      \/ BrokerRefuses \/ BrokerCloses
      \/ broker.conn /\ BrokerConnected(p)
  BY <1>1 DEF BrokerStep
<1> HIDE DEF p
<1> DEFINE Plain(r) ==
      /\ Ready(r)
      /\ \A i \in 1..Len(r) : r[i].type \notin {PUBLISH, PUBREL}
<1>6. ASSUME NEW b, b.conn = broker.conn, b.out = broker.out,
             b.acked = broker.acked, b.subs \subseteq broker.subs,
             NEW r, Plain(r), Answer(b, r)
      PROVE  HearInv'
  BY <1>2, <1>6, PlainHear
<1>7. Plain(<<>>)
  <2>1. <<>> \in Seq(Packets) /\ Len(<<>>) = 0 /\ 1..0 = {}
    OBVIOUS
  <2> QED
    BY <2>1 DEF Ready, Lacks
<1> DEFINE Fit(type) ==
      /\ type \in {PUBACK, PUBREC, PUBCOMP, SUBACK, UNSUBACK, PINGRESP}
      /\ QOS2Build \/ type \notin {PUBREC, PUBCOMP}
<1>8. ASSUME NEW type, Fit(type), NEW id \in Nat, NEW what \in {0, 128}
      PROVE  Plain(<<Packet(type, id, 0, what)>>)
  <2>1. PICK r : /\ r = <<Packet(type, id, 0, what)>> /\ Ready(r)
                 /\ Len(r) = 1 /\ r[1].type \notin {PUBLISH, PUBREL}
    BY <1>8, ReadyAck
  <2>2. \A i \in 1..Len(r) : i = 1
    BY <2>1
  <2>3. Plain(r)
    BY <2>1, <2>2
  <2> QED
    BY <2>1, <2>3
<1> HIDE DEF Plain, Fit
<1>9. ASSUME NEW type, Fit(type), NEW id \in Nat
      PROVE  Plain(Ack(type, id))
  <2>1. 0 \in {0, 128}
    OBVIOUS
  <2>2. Plain(<<Packet(type, id, 0, 0)>>)
    BY <1>8, <1>9, <2>1
  <2> QED
    BY <2>2 DEF Ack
<1>10. CASE p.type = CONNECT /\ BrokerAccepts(p)
  BY <1>2, <1>10, AcceptsHear DEF p
<1>11. CASE BrokerRefuses \/ BrokerCloses
  BY <1>2, <1>11, ClosesHear
<1>12. CASE p.type = PUBLISH /\ BrokerTakesPublish(p)
  <2> DEFINE b == IF p.qos = 2 THEN [broker EXCEPT !.taken = @ \cup {p.id}]
                  ELSE broker
             r == CASE p.qos = 0 -> <<>> [] p.qos = 1 -> Ack(PUBACK, p.id)
                    [] OTHER -> Ack(PUBREC, p.id)
  <2>1. Answer(b, r)
    BY <1>12 DEF BrokerTakesPublish
  <2>2. /\ b.conn = broker.conn /\ b.out = broker.out
        /\ b.acked = broker.acked /\ b.subs = broker.subs
    BY <1>2 DEF Brokers
  <2>3. \/ r = <<>> \/ r = Ack(PUBACK, p.id)
        \/ p.qos \notin {0, 1} /\ r = Ack(PUBREC, p.id)
    OBVIOUS
  <2> HIDE DEF b, r
  <2>4. Fit(PUBACK) /\ (p.qos \notin {0, 1} => Fit(PUBREC))
    BY <1>4, <1>12 DEF Fit, PUBACK, PUBREC, PUBCOMP
  <2>5. Plain(r)
    <3>1. CASE r = <<>>
      BY <1>7, <3>1
    <3>2. CASE r = Ack(PUBACK, p.id)
      BY <1>3, <1>9, <2>4, <3>2
    <3>3. CASE p.qos \notin {0, 1} /\ r = Ack(PUBREC, p.id)
      BY <1>3, <1>9, <2>4, <3>3
    <3> QED
      BY <2>3, <3>1, <3>2, <3>3
  <2> QED
    BY <1>6, <2>1, <2>2, <2>5
<1>13. CASE p.type \in {PUBACK, PUBREC, PUBCOMP} /\ BrokerTakesAck(p)
  <2>1. p \in Acks
    BY <1>3, <1>13 DEF Acks, Of
  <2> QED
    BY <1>2, <1>13, <2>1, TakesAckHear DEF p
<1>14. CASE /\ p.type = PUBREL
            /\ Answer([broker EXCEPT !.taken = @ \ {p.id}], Ack(PUBCOMP, p.id))
  <2> DEFINE b == [broker EXCEPT !.taken = @ \ {p.id}]
  <2>1. /\ b.conn = broker.conn /\ b.out = broker.out
        /\ b.acked = broker.acked /\ b.subs = broker.subs
    BY <1>2 DEF Brokers
  <2> HIDE DEF b
  <2>2. Answer(b, Ack(PUBCOMP, p.id)) /\ Fit(PUBCOMP)
    BY <1>4, <1>14 DEF b, Fit
  <2>3. Plain(Ack(PUBCOMP, p.id))
    BY <1>3, <1>9, <2>2
  <2> QED
    BY <1>6, <2>1, <2>2, <2>3
<1>15. CASE /\ p.type = SUBSCRIBE
            /\ Answer([broker EXCEPT !.subs = @ \cup {p.what}],
                      Ack(SUBACK, p.id))
  BY <1>2, <1>15, SubscribesHear DEF p
<1>16. CASE Answer(broker, <<Packet(SUBACK, p.id, 0, 128)>>)
  <2>1. Fit(SUBACK) /\ 128 \in {0, 128}
    BY DEF Fit, SUBACK, PUBREC, PUBCOMP
  <2>2. Plain(<<Packet(SUBACK, p.id, 0, 128)>>)
    BY <1>3, <1>8, <2>1
  <2> QED
    BY <1>6, <1>16, <2>2
<1>17. CASE Answer([broker EXCEPT !.subs = @ \ {p.what}], Ack(UNSUBACK, p.id))
  <2> DEFINE b == [broker EXCEPT !.subs = @ \ {p.what}]
  <2>1. /\ b.conn = broker.conn /\ b.out = broker.out
        /\ b.acked = broker.acked /\ b.subs \subseteq broker.subs
    BY <1>2 DEF Brokers
  <2> HIDE DEF b
  <2>2. Answer(b, Ack(UNSUBACK, p.id))
    BY <1>17 DEF b
  <2>3. Fit(UNSUBACK)
    BY DEF Fit, UNSUBACK, PUBREC, PUBCOMP
  <2>4. Plain(Ack(UNSUBACK, p.id))
    BY <1>3, <1>9, <2>3
  <2> QED
    BY <1>6, <2>1, <2>2, <2>4
<1>18. CASE Answer(broker, Ack(PINGRESP, 0))
  <2>1. Fit(PINGRESP) /\ 0 \in Nat
    BY DEF Fit, PINGRESP, PUBREC, PUBCOMP
  <2>2. Plain(Ack(PINGRESP, 0))
    BY <1>9, <2>1
  <2> QED
    BY <1>6, <1>18, <2>2
<1> QED
  BY <1>5, <1>10, <1>11, <1>12, <1>13, <1>14, <1>15, <1>16, <1>17, <1>18
  DEF BrokerConnected

\* It publishes to a topic that it holds a subscription for: the client has
\* its handler, or finds the SUBACK that is before it first.
LEMMA ArrivesHear ==
  ASSUME TypeInv, UNCHANGED use, SubInv, DelInv, HearInv,
         NEW topic \in Topics, NEW qos \in InQoS, NEW long \in BOOLEAN,
         long => qos = 0, Arrives(topic, qos, long)
  PROVE  HearInv'
<1> DEFINE id == IF qos = 0 THEN 0
                 ELSE IF \E o \in broker.out : o.id = 1 THEN 2 ELSE 1
           o == [id |-> id, qos |-> qos, msg |-> broker.sent + 1,
                 topic |-> topic, rel |-> FALSE]
           a == IF long THEN Packet(PUBLISH, 0, TooLong, 0) ELSE Sending(o)
           r == <<a>>
<1>1. /\ net \in Nets /\ broker \in Brokers /\ broker.sent \in Nat
      /\ net.down \in Seq(Packets)
      /\ use \in DOMAIN Uses /\ MaxPublished \in Nat /\ qos \in 0..2
      /\ \A x \in broker.out : x \in Outs
  BY StateParts, WiresAre, UseTypes
  DEF TypeInv, ClientFits, BrokerFits, Brokers
<1>2. /\ OutFits(broker) /\ InTransit(net, broker) /\ OnlyHandled(net)
      /\ Handed(net, broker, seen) /\ Calm(c, net, call, broker)
  BY DEF DelInv, DelFits, HearInv, HearFits
<1>3. /\ broker.conn /\ Cardinality(broker.out) < 2 /\ topic \in broker.subs
      /\ net' = [net EXCEPT !.down = Append(@, a)]
      /\ broker' = [broker EXCEPT !.sent = @ + 1,
                      !.out = IF qos = 0 THEN @ ELSE @ \cup {o}]
      /\ UNCHANGED <<c, call, seen>>
  BY DEF Arrives, BrokerPublishes, Others
<1>4. /\ id \in {0, 1, 2} /\ (qos # 0 => id \in {1, 2})
      /\ qos # 0 => \A q \in broker.out : q.id # id
  <2>1. ASSUME qos # 0, NEW q \in broker.out PROVE q.id # id
    <3>1. ~\E x, y \in broker.out : x.id = 1 /\ y.id = 2
      BY <1>1, <1>2, <1>3, OneIdFree
    <3> QED
      BY <2>1, <3>1
  <2> QED
    BY <2>1
<1> HIDE DEF id
<1>5. /\ o.id = id /\ o.qos = qos /\ ~o.rel /\ o \in Outs /\ o.topic = topic
  BY <1>1, <1>4 DEF Outs
<1> HIDE DEF o
<1>6. /\ a \in Packets /\ a.type = PUBLISH
      /\ long => a.qos = TooLong
      /\ ~long => a.id = id /\ a.qos = qos /\ a.what = topic
  <2>1. CASE long
    <3>1. a = Packet(PUBLISH, 0, TooLong, 0)
      BY <2>1
    <3> HIDE DEF a
    <3>2. a \in Packets /\ a.type = PUBLISH /\ a.qos = TooLong
      BY <3>1 DEF Packet, Packets, PacketFields, PUBLISH, CONNACK, TooLong
    <3> QED
      BY <2>1, <3>2
  <2>2. CASE ~long
    <3>1. a = Sending(o)
      BY <2>2
    <3> HIDE DEF a
    <3> QED
      BY <1>5, <2>2, <3>1, SendingIs
  <2> QED
    BY <2>1, <2>2
<1> HIDE DEF a
<1>7. /\ net'.up = net.up /\ net'.down = Append(net.down, a)
      /\ net'.link = net.link /\ net'.junk = net.junk
  BY <1>1, <1>3 DEF Nets
<1>8. /\ broker'.conn = broker.conn /\ broker'.subs = broker.subs
      /\ broker'.acked = broker.acked
      /\ broker'.out = IF qos = 0 THEN broker.out ELSE broker.out \cup {o}
  BY <1>1, <1>3 DEF Brokers
<1>9. \A P : Lacks(net.down, P) /\ a \notin P => Lacks(net'.down, P)
  BY <1>1, <1>6, <1>7, LacksMore
<1>10. OnlyHandled(net')
  <2>1. a \notin Strange
    BY <1>6 DEF Strange, Handled
  <2> QED
    BY <1>2, <1>7, <1>9, <2>1 DEF OnlyHandled
<1>11. call.op # "connect"
  <2> SUFFICES ASSUME call.op = "connect" PROVE FALSE
    OBVIOUS
  <2>1. Asked(c, net, call, broker) /\ Settling(call)
    BY <1>2 DEF SubInv, SubFits, Matters, Settling, Calm
  <2> QED
    BY <1>3, <2>1 DEF Asked, Forgets
<1>12. Calm(c, net', call, broker')
  BY <1>2, <1>3, <1>7, <1>8, <1>11 DEF Calm
<1>13. Handed(net', broker', seen)
  <2>1. ASSUME NEW x \in broker'.out, x.rel \/ ~Lacks(net'.up, {AckFor(x)})
        PROVE  seen[x.msg] > 0
    <3>1. CASE x \in broker.out
      BY <1>2, <1>7, <2>1, <3>1 DEF Handed
    <3>2. CASE qos # 0 /\ x = o
      <4>1. AckFor(o) \in Acks /\ AckFor(o).id = id
        BY <1>5, AckForIs
      <4>2. \A q \in broker.out : AckFor(q).id # id
        BY <1>1, <1>4, <3>2, AckForIs
      <4>3. AckFor(o) \in Acks \ {AckFor(q) : q \in broker.out}
        BY <4>1, <4>2
      <4>4. Lacks(net.up, {AckFor(o)})
        BY <1>2, <4>3 DEF InTransit, Lacks
      <4> QED
        BY <1>5, <1>7, <2>1, <3>2, <4>4
    <3> QED
      BY <1>8, <3>1, <3>2
  <2> QED
    BY <1>2, <1>8, <2>1 DEF Handed
<1>14. ASSUME Live(c, net') PROVE Filed(c, net', broker')
  <2> SUFFICES ASSUME NEW i \in c.qos2ids
               PROVE  \E x \in broker'.out :
                        /\ x.id = i /\ x.qos = 2
                        /\ IF x.rel THEN Lacks(net'.up, {AckFor(x)})
                                    ELSE Lacks(net'.down, {Sending(x)})
    BY DEF Filed
  <2>1. Filed(c, net, broker)
    BY <1>7, <1>14 DEF HearInv, HearFits, Live
  <2>2. PICK x \in broker.out :
          /\ x.id = i /\ x.qos = 2
          /\ IF x.rel THEN Lacks(net.up, {AckFor(x)})
                      ELSE Lacks(net.down, {Sending(x)})
    BY <2>1 DEF Filed
  <2>3. ASSUME ~x.rel PROVE Lacks(net'.down, {Sending(x)})
    <3>1. Sending(x).id = x.id /\ Sending(x).qos = 2
      BY <1>1, <2>2, <2>3, SendingIs
    <3>2. a # Sending(x)
      <4>1. CASE long
        BY <1>6, <3>1, <4>1 DEF TooLong
      <4>2. CASE ~long
        BY <1>4, <1>6, <3>1, <4>2
      <4> QED
        BY <4>1, <4>2
    <3> QED
      BY <1>9, <2>2, <2>3, <3>2
  <2> QED
    BY <1>7, <1>8, <2>2, <2>3
<1>15. ASSUME Live(c, net') PROVE Hears(c, net'.down, call, broker')
  <2>1. Live(c, net) /\ c.isconnected
    BY <1>7, <1>15 DEF Live
  <2>2. Hears(c, net.down, call, broker)
    BY <2>1 DEF HearInv, HearFits
  <2>3. Asked(c, net, call, broker) /\ ~Settling(call)
    BY <1>2, <1>11, <2>1 DEF SubInv, SubFits, Matters, Settling, Calm
  <2>4. r \in Seq(Packets) /\ Len(r) = 1 /\ r[1] = a
        /\ net.down \o r = Append(net.down, a)
    BY <1>1, <1>6
  <2> HIDE DEF r
  <2>5. a \in Told => a.what = topic
    <3>1. a \in Told => a.qos # TooLong
      BY DEF Told, Pubs
    <3> QED
      BY <1>6, <3>1
  <2>6. \/ topic \in c.handlers
        \/ /\ call.op = "subscribe" /\ topic = call.topic
           /\ topic \in broker.subs \ c.handlers
    BY <1>3, <2>3 DEF Asked, Subscribes
  <2>7. a \in Told =>
          \/ Heard(c, a)
          \/ call.op = "subscribe" /\ a.what = call.topic
             /\ ~Lacks(net.down, With(SUBACK, 0))
    BY <2>2, <2>5, <2>6 DEF Hears, Heard
  <2>8. call.op = "subscribe" /\ call.topic \in broker'.subs \ c.handlers =>
          ~Lacks(net.down \o r, With(SUBACK, 0))
    BY <1>1, <1>8, <2>2, <2>4, WithinConcat DEF Hears
  <2>9. call.op = "unsubscribe" =>
          \/ Lacks(net.down \o r, Of({UNSUBACK}))
          \/ a \in Told => a.what # call.topic
    <3>1. CASE topic # call.topic
      BY <2>5, <3>1
    <3>2. CASE call.op = "unsubscribe" /\ topic = call.topic
      <4>1. Lacks(net.down, Of({UNSUBACK}))
        BY <1>3, <2>3, <3>2 DEF Asked, Unsubscribes
      <4>2. a \notin Of({UNSUBACK})
        BY <1>6 DEF Of, UNSUBACK, PUBLISH
      <4> QED
        BY <1>7, <1>9, <2>4, <4>1, <4>2
    <3> QED
      BY <3>1, <3>2
  <2>10. \A i \in 1..Len(r) : r[i] = a
    BY <2>4
  <2>11. Hears(c, net.down \o r, call, broker')
    BY <1>1, <2>2, <2>4, <2>7, <2>8, <2>9, <2>10, HearsConcat
  <2> QED
    BY <1>7, <2>4, <2>11
<1>16. HearFits(c', net', call', broker', seen')
  BY <1>3, <1>10, <1>12, <1>13, <1>14, <1>15 DEF HearFits
<1> QED
  BY <1>16, HearNext
-----------------------------------------------------------------------------
(* The first state has it, and every step keeps it.                        *)
LEMMA HearInit == ASSUME TypeInv, MqttInit PROVE HearInv
<1>1. /\ net.up = <<>> /\ net.down = <<>>
      /\ ~c.isconnected /\ c.cleansession /\ c.inflight.id = 0
      /\ c.qos2ids = {} /\ call.op = "idle"
      /\ ~broker.conn /\ broker.out = {} /\ broker.acked = {}
  BY DEF MqttInit, NewNet, Idle, NoSession, NoInflight
<1>2. \A P : Lacks(net.up, P) /\ Lacks(net.down, P)
  BY <1>1 DEF Lacks
<1>3. OnlyHandled(net) /\ Handed(net, broker, seen) /\ ~Live(c, net)
  BY <1>1, <1>2 DEF OnlyHandled, Handed, Live
<1>4. Calm(c, net, call, broker)
  BY <1>1, <1>2 DEF Calm
<1> QED
  BY <1>3, <1>4 DEF HearInv, HearFits

LEMMA HearKept ==
  ASSUME AcksAreAwaited, AttendsTo(use), TypeInv, SubInv, DelInv, HearInv,
         [MqttNext]_<<mqttVars, use>>
  PROVE  HearInv'
<1>1. CASE UNCHANGED <<mqttVars, use>>
  <2>1. HearFits(c', net', call', broker', seen') /\ UNCHANGED use
    BY <1>1 DEF mqttVars, HearInv
  <2> QED
    BY <2>1, HearNext
<1>2. CASE MqttNext
  <2>1. UNCHANGED use
    BY <1>2 DEF MqttNext
  <2>2. CASE Cycle
    BY <2>1, <2>2, CycleHeard
  <2>3. CASE Expire
    BY <2>1, <2>3, ExpireHear
  <2>4. CASE OpenNetwork
    BY <2>1, <2>4, OpenNetworkHear
  <2>5. CASE Yield
    BY <2>1, <2>5, YieldHear
  <2>6. CASE Disconnect
    BY <2>1, <2>6, DisconnectHear
  <2>7. CASE Tick
    BY <2>1, <2>7, TickHear
  <2>8. CASE Broker
    BY <2>1, <2>8, BrokerHear
  <2>9. CASE \E clean \in CleanOptions : MqttConnect(clean)
    BY <2>1, <2>9, ConnectHear
  <2>10. CASE \E qos \in OutQoS, long \in BOOLEAN : Publish(qos, long)
    BY <2>1, <2>10, PublishHear
  <2>11. CASE \E topic \in Topics : Subscribe(topic) \/ Unsubscribe(topic)
    BY <2>1, <2>11, AskHear
  <2>12. CASE \E topic \in Topics, qos \in InQoS : Arrives(topic, qos, FALSE)
    BY <2>1, <2>12, ArrivesHear
  <2>13. CASE \E topic \in Topics : 0 \in InQoS /\ Arrives(topic, 0, TRUE)
    BY <2>1, <2>13, ArrivesHear
  <2>14. CASE \E how \in {"cut", "closed"} : Fails(how)
    BY <2>1, <2>14, FailsHear
  <2> QED
    BY <1>2, <2>2, <2>3, <2>4, <2>5, <2>6, <2>7, <2>8, <2>9, <2>10, <2>11,
       <2>12, <2>13, <2>14
    DEF MqttNext, MqttStep
<1> QED
  BY <1>1, <1>2

\* Nothing to acknowledge: the broker publishes at QoS 0 only.
NoneOut(b) == b.out = {} /\ b.acked = {}
LEMMA NoneInit == ASSUME MqttInit PROVE NoneOut(broker)
BY DEF MqttInit, NoSession, NoneOut
LEMMA NoneKept ==
  ASSUME TypeInv, InQoS \subseteq {0}, NoneOut(broker),
         [MqttNext]_<<mqttVars, use>>
  PROVE  NoneOut(broker')
<1>1. CASE UNCHANGED <<mqttVars, use>>
  BY <1>1 DEF mqttVars
<1>2. CASE MqttNext
  <2>1. broker \in Brokers
    BY DEF TypeInv, BrokerFits
  <2>2. CASE UNCHANGED broker
    BY <2>2
  <2>3. CASE OpenNetwork
    BY <2>1, <2>3 DEF OpenNetwork, NoneOut, Brokers
  <2>4. CASE Broker
    <3>1. PICK refuse : BrokerStep(refuse)
      BY <2>4 DEF Broker
    <3>2. PICK p : /\ p = Head(net.up)
                   /\ \/ BrokerAccepts(p) \/ BrokerRefuses \/ BrokerCloses
                      \/ BrokerConnected(p)
      BY <3>1 DEF BrokerStep
    <3>3. CASE BrokerAccepts(p)
      BY <2>1, <3>3 DEF BrokerAccepts, Answer, NoSession, NoneOut, Brokers
    <3>4. CASE BrokerRefuses \/ BrokerCloses
      BY <3>4 DEF BrokerRefuses, BrokerCloses
    <3>5. CASE BrokerTakesPublish(p)
      BY <2>1, <3>5 DEF BrokerTakesPublish, Answer, NoneOut, Brokers
    <3>6. CASE BrokerTakesAck(p)
      <4>1. ~\E o \in broker.out : o.id = p.id
        BY DEF NoneOut
      <4>2. PICK m : broker' = [broker EXCEPT !.out = @, !.acked = @]
        BY <3>6, <4>1 DEF BrokerTakesAck, Answer
      <4> QED
        BY <2>1, <4>2 DEF NoneOut, Brokers
    <3> QED
      BY <2>1, <3>2, <3>3, <3>4, <3>5, <3>6
      DEF BrokerConnected, Answer, NoneOut, Brokers
  <2>5. ASSUME NEW topic, NEW long, Arrives(topic, 0, long)
        PROVE  NoneOut(broker')
    BY <2>1, <2>5 DEF Arrives, BrokerPublishes, NoneOut, Brokers
  <2>6. CASE \/ \E topic \in Topics, qos \in InQoS : Arrives(topic, qos, FALSE)
             \/ \E topic \in Topics : 0 \in InQoS /\ Arrives(topic, 0, TRUE)
    BY <2>5, <2>6
  <2>7. \/ UNCHANGED broker \/ OpenNetwork \/ Broker
        \/ \E topic \in Topics, qos \in InQoS : Arrives(topic, qos, FALSE)
        \/ \E topic \in Topics : 0 \in InQoS /\ Arrives(topic, 0, TRUE)
    BY <1>2 DEF MqttNext, MqttStep, Cycle, Expire, Yield, Disconnect, Tick,
                MqttConnect, Publish, Subscribe, Unsubscribe, Ask, Fails, Break
  <2> QED
    BY <2>2, <2>3, <2>4, <2>6, <2>7
<1> QED
  BY <1>1, <1>2

\* No clean session: what connect() is told stays what the session is, so
\* the one there is at the start ends with the first CONNECT.
Kind(s) == Good(s) /\ s.c.cleansession = c.cleansession
KindStays == c'.cleansession = c.cleansession
LEMMA KindClosed ==
  ASSUME use \in DOMAIN Uses, NEW s, Kind(s)
  PROVE  Kind(closeSession(s))
BY CloseSessionGood DEF Kind
LEMMA EndConnectKind ==
  ASSUME NEW rc, NEW s, Kind(s), EndConnect(rc, s) PROVE KindStays
<1>1. Good(connected(s)) /\ connected(s).c.cleansession = s.c.cleansession
  BY ConnectedGood DEF Kind
<1> QED
  BY <1>1 DEF EndConnect, Return, Apply, Kind, KindStays
LEMMA ResendKind ==
  ASSUME use \in DOMAIN Uses, NEW rc, NEW s, Kind(s), NEW expired,
         resend(s, rc, expired)
  PROVE  KindStays
<1> DEFINE i == s.c.inflight
           d == sendPacket(s, PublishPacket(i.id, i.qos, 0, i.msg))
<1>1. i.id \in Nat /\ i.qos \in 0..2 /\ i.msg \in Nat
  BY UseTypes DEF Kind, Good, States, Sessions
<1> HIDE DEF i
<1>2. Kind(d)
  <2>1. Good(s)
    BY DEF Kind
  <2>2. Good(d) /\ Same(s, d)
    BY <1>1, <2>1, PublishAgainGood
  <2> QED
    BY <2>2 DEF Kind, Same
<1>3. \/ EndConnect(rc, s) \/ EndConnect(FAILURE, closeSession(d))
      \/ EndConnect(SUCCESS, d) \/ \E k : Wait(k, d)
  BY DEF resend, i
<1> HIDE DEF d
<1>4. Kind(closeSession(d))
  BY <1>2, KindClosed
<1> QED
  BY <1>2, <1>3, <1>4, EndConnectKind DEF Wait, Apply, Kind, KindStays
LEMMA MissedKind ==
  ASSUME use \in DOMAIN Uses, NEW s, Kind(s), NEW expired, Missed(s, expired)
  PROVE  KindStays
<1>1. \/ resend(s, FAILURE, expired) \/ EndConnect(FAILURE, closeSession(s))
      \/ Return(call.op, FAILURE, closeSession(s))
  BY DEF Missed
<1>2. Kind(closeSession(s))
  BY KindClosed
<1> QED
  BY <1>1, <1>2, ResendKind, EndConnectKind DEF Return, Apply, Kind, KindStays
LEMMA GotKind ==
  ASSUME use \in DOMAIN Uses, CallFits(call), NEW s, Kind(s), NEW p, Got(s, p)
  PROVE  KindStays
<1>1. CASE call.op = "connect"
  BY <1>1, ResendKind DEF Got
<1>2. CASE call.op \in {"resend", "publish"}
  <2>1. \/ EndConnect(SUCCESS, acked(s, p))
        \/ Return("publish", SUCCESS, acked(s, p))
    BY <1>2 DEF Got
  <2>2. Kind(acked(s, p))
    BY AckedGood DEF Kind
  <2> QED
    BY <2>1, <2>2, EndConnectKind DEF Return, Apply, Kind, KindStays
<1>3. CASE call.op = "subscribe"
  <2> DEFINE x == [s EXCEPT !.rc = SUCCESS]
             y == setHandler(s, call.topic)
             d == IF p.what = 128 THEN x ELSE y
  <2>1. \/ Return("subscribe", d.rc, d)
        \/ Return("subscribe", d.rc, closeSession(d))
    BY <1>3 DEF Got, GotSuback
  <2>2. Kind(x)
    BY DEF Kind, Good, States, TablesFit, PingFits, SUCCESS
  <2>3. Kind(y)
    BY <1>3, SetHandlerGood DEF Kind, CallFits
  <2> HIDE DEF x, y
  <2>4. Kind(d)
    BY <2>2, <2>3
  <2> HIDE DEF d
  <2>5. Kind(closeSession(d))
    BY <2>4, KindClosed
  <2> QED
    BY <2>1, <2>4, <2>5 DEF Return, Apply, Kind, KindStays
<1>4. CASE call.op \notin {"connect", "resend", "publish", "subscribe"}
  <2>1. Return("unsubscribe", SUCCESS, removeHandler(s, call.topic))
    BY <1>4 DEF Got
  <2>2. Kind(removeHandler(s, call.topic))
    BY RemoveHandlerGood DEF Kind
  <2> QED
    BY <2>1, <2>2 DEF Return, Apply, Kind, KindStays
<1> QED
  BY <1>1, <1>2, <1>3, <1>4
LEMMA CycleKind == ASSUME TypeInv, Cycle PROVE KindStays
<1>1. /\ use \in DOMAIN Uses /\ CallFits(call) /\ Good(S)
      /\ call.op \in {"connect", "resend", "publish", "subscribe",
                      "unsubscribe", "yield"}
  BY DEF TypeInv, ClientFits, CallFits, Calls, Cycle
<1>2. PICK r \in readPacket :
        LET s == cycle(r) IN
        IF call.op = "yield"
        THEN IF s.rc < 0 THEN Return("yield", FAILURE, s)
             ELSE IF r.type = 0 THEN Return("yield", SUCCESS, s)
             ELSE Wait([call EXCEPT !.cycled = TRUE], s)
        ELSE IF s.rc = call.want THEN Got(s, r.p)
             ELSE IF s.rc < 0 THEN Missed(s, FALSE)
             ELSE IF r.type = 0 THEN Missed(s, TRUE)
             ELSE Wait([call EXCEPT !.cycled = TRUE], s)
  BY DEF Cycle
<1>3. PICK s : s = cycle(r)
  OBVIOUS
<1>4. Kind(s)
  BY <1>1, <1>3, CycleGood DEF Kind
<1>5. \/ \E rc : Return("yield", rc, s)
      \/ \E k : Wait(k, s)
      \/ Got(s, r.p)
      \/ \E expired : Missed(s, expired)
  BY <1>2, <1>3
<1>6. CASE (\E rc : Return("yield", rc, s)) \/ \E k : Wait(k, s)
  BY <1>4, <1>6 DEF Return, Wait, Apply, Kind, KindStays
<1> QED
  BY <1>1, <1>4, <1>5, <1>6, GotKind, MissedKind
LEMMA AsksKind ==
  ASSUME TypeInv, NEW topic \in Topics, Subscribe(topic) \/ Unsubscribe(topic)
  PROVE  KindStays
<1>1. PICK op, type, want :
        /\ type \in {SUBSCRIBE, UNSUBSCRIBE}
        /\ Ask(op, type, want, topic)
  BY DEF Subscribe, Unsubscribe
<1> DEFINE p == Packet(type, getNext(c.next), 0, topic)
           d == sendPacket(Asks, p)
<1>2. use \in DOMAIN Uses /\ Kind(S) /\ c.next \in 0..MAX_PACKET_ID
  BY StateParts DEF TypeInv, ClientFits, Kind, S, Sessions
<1>3. \/ Return(op, FAILURE, closeSession(S))
      \/ Return(op, FAILURE, closeSession(d))
      \/ \E k : Wait(k, d)
  BY <1>1 DEF Ask, Asks
<1>4. p \in Packets
  <2>1. getNext(c.next) \in Nat
    BY <1>2, NextId, UseTypes
  <2>2. type \in 0..15 /\ type # CONNACK
    BY <1>1 DEF SUBSCRIBE, UNSUBSCRIBE, CONNACK
  <2> QED
    BY <2>1, <2>2 DEF Packet, Packets, PacketFields
<1> HIDE DEF p
<1>5. Good(Asks) /\ Asks.c.cleansession = c.cleansession
  BY <1>2, AsksGood DEF Kind
<1>6. Kind(d)
  BY <1>2, <1>4, <1>5, AskGood DEF Kind
<1> HIDE DEF d
<1>7. Kind(closeSession(d)) /\ Kind(closeSession(S))
  BY <1>2, <1>6, KindClosed
<1> QED
  BY <1>3, <1>6, <1>7 DEF Return, Wait, Apply, Kind, KindStays
LEMMA PublishKind ==
  ASSUME TypeInv, NEW qos \in OutQoS, NEW long \in BOOLEAN, Publish(qos, long)
  PROVE  KindStays
<1> DEFINE s == Publishes(qos, long)
           d == sendPacket(s, PublishPacket(PublishId(qos), qos, 0,
                                            used.calls + 1))
<1>1. /\ use \in DOMAIN Uses /\ Kind(S) /\ c.next \in 0..MAX_PACKET_ID
      /\ used.calls \in Nat /\ qos \in 0..2
  BY StateParts, UseTypes
  DEF TypeInv, ClientFits, UsedFits, Kind, S, Sessions
<1>2. \/ Return("publish", FAILURE, S) \/ Return("publish", FAILURE, s)
      \/ Return("publish", FAILURE, closeSession(d))
      \/ Return("publish", SUCCESS, d) \/ \E k : Wait(k, d)
  BY DEF Publish, Publishes, PublishId
<1>3. PublishId(qos) \in Nat
  BY <1>1, NextId, UseTypes DEF PublishId
<1>4. Kind(s)
  BY <1>1, PublishesGood DEF Kind
<1> HIDE DEF s
<1>5. Kind(d)
  <2>1. Good(s) /\ used.calls + 1 \in Nat
    BY <1>1, <1>4 DEF Kind
  <2>2. Good(d) /\ Same(s, d)
    BY <1>1, <1>3, <2>1, PublishAgainGood
  <2> QED
    BY <1>4, <2>2 DEF Kind, Same
<1> HIDE DEF d
<1>6. Kind(closeSession(d))
  BY <1>1, <1>5, KindClosed
<1> QED
  BY <1>1, <1>2, <1>4, <1>5, <1>6 DEF Return, Wait, Apply, Kind, KindStays
LEMMA DisconnectKind == ASSUME TypeInv, Disconnect PROVE KindStays
<1> DEFINE p == Packet(DISCONNECT, 0, 0, 0)
           d == sendPacket(S, p)
<1>1. use \in DOMAIN Uses /\ Kind(S)
  BY DEF TypeInv, ClientFits, Kind, S
<1>2. Return("disconnect", d.rc, closeSession(d))
  BY DEF Disconnect
<1>3. p \in Packets
  BY DEF Packet, Packets, PacketFields, DISCONNECT, CONNACK
<1> HIDE DEF p
<1>4. Kind(d)
  BY <1>1, <1>3, AskGood DEF Kind
<1> HIDE DEF d
<1>5. Kind(closeSession(d))
  BY <1>1, <1>4, KindClosed
<1> QED
  BY <1>2, <1>5 DEF Return, Apply, Kind, KindStays
LEMMA StepKind ==
  ASSUME TypeInv, MqttNext, ~\E clean \in CleanOptions : MqttConnect(clean)
  PROVE  KindStays
<1>1. use \in DOMAIN Uses /\ Kind(S)
  BY DEF TypeInv, ClientFits, Kind, S
<1>2. CASE Expire
  <2>1. Return("yield", SUCCESS, S) \/ Missed(S, TRUE)
    BY <1>2 DEF Expire
  <2> QED
    BY <1>1, <2>1, MissedKind DEF Return, Apply, Kind, KindStays
<1>3. CASE Yield
  BY <1>3 DEF Yield, Wait, Apply, S, KindStays
<1>4. CASE UNCHANGED c
  BY <1>4 DEF KindStays
<1>5. \/ Cycle \/ Expire \/ Yield \/ Disconnect \/ UNCHANGED c
      \/ \E qos \in OutQoS, long \in BOOLEAN : Publish(qos, long)
      \/ \E topic \in Topics : Subscribe(topic) \/ Unsubscribe(topic)
  BY DEF MqttNext, MqttStep, OpenNetwork, Tick, Broker, Arrives, Fails, Others
<1> QED
  BY <1>2, <1>3, <1>4, <1>5, CycleKind, DisconnectKind, PublishKind, AsksKind

\* In it nothing has happened yet.
FirstOnly(cc, nn, b) == cc.cleansession => nn.fresh /\ b.acked = {}
LEMMA FirstInit == ASSUME MqttInit PROVE FirstOnly(c, net, broker)
BY DEF MqttInit, NewNet, NoSession, FirstOnly
LEMMA FirstSteps ==
  ASSUME TypeInv, SubInv, net.fresh, MqttNext,
         ~\E clean \in CleanOptions : MqttConnect(clean)
  PROVE  net' = net /\ broker' = broker
<1>1. /\ net.up = <<>> /\ net.down = <<>> /\ ~c.isconnected
      /\ call.op = "idle" /\ ~broker.conn
  BY DEF SubInv, SubFits, Begun
<1>2. /\ use \in DOMAIN Uses /\ Good(S) /\ S.net = net
  BY DEF TypeInv, ClientFits, S
<1>3. /\ ~Cycle /\ ~Expire /\ ~OpenNetwork /\ ~Yield /\ ~Disconnect /\ ~Broker
      /\ \A topic, qos, long : ~Arrives(topic, qos, long)
      /\ \A how : ~Fails(how)
  BY <1>1 DEF Cycle, Expire, OpenNetwork, Yield, Disconnect, Broker,
              BrokerStep, Arrives, BrokerPublishes, Fails, Break
<1>4. \/ Tick
      \/ \E qos \in OutQoS, long \in BOOLEAN : Publish(qos, long)
      \/ \E topic \in Topics : Subscribe(topic) \/ Unsubscribe(topic)
  BY <1>3 DEF MqttNext, MqttStep
<1>5. CASE Tick
  BY <1>5 DEF Tick
<1>6. CASE \E qos \in OutQoS, long \in BOOLEAN : Publish(qos, long)
  BY <1>1, <1>2, <1>6 DEF Publish, Return, Apply
<1>7. CASE \E topic \in Topics : Subscribe(topic) \/ Unsubscribe(topic)
  <2>1. /\ \E op : Return(op, FAILURE, closeSession(S))
        /\ UNCHANGED broker
    BY <1>1, <1>7 DEF Subscribe, Unsubscribe, Ask
  <2>2. closeSession(S).net = net
    BY <1>2, CloseSessionGood
  <2> QED
    BY <2>1, <2>2 DEF Return, Apply
<1> QED
  BY <1>4, <1>5, <1>6, <1>7
LEMMA FirstKept ==
  ASSUME TypeInv, SubInv, TRUE \notin CleanOptions, FirstOnly(c, net, broker),
         [MqttNext]_<<mqttVars, use>>
  PROVE  FirstOnly(c', net', broker')
<1>1. CASE UNCHANGED <<mqttVars, use>>
  BY <1>1 DEF mqttVars
<1>2. CASE \E clean \in CleanOptions : MqttConnect(clean)
  <2>1. /\ use \in DOMAIN Uses /\ Good(S) /\ S.c = c /\ S.net = net
        /\ MqttConnect(FALSE)
    BY <1>2, UseTypes DEF TypeInv, ClientFits, S
  <2>2. CASE c.isconnected
    BY <2>1, <2>2 DEF MqttConnect, Return, Apply
  <2>3. CASE ~c.isconnected
    <3> DEFINE p == Packet(CONNECT, 0, 0, 0)
               b == Begins(FALSE)
               d == sendPacket(b, p)
               e == [d EXCEPT !.t.received = KeepAlive]
    <3>1. \/ EndConnect(FAILURE, d) \/ \E k : Wait(k, e)
      BY <2>1, <2>3 DEF MqttConnect, Begins
    <3>2. p \in Packets
      BY DEF Packet, Packets, PacketFields, CONNECT, CONNACK
    <3>3. Good(b) /\ ~b.c.cleansession
      BY <2>1, BeginsGood
    <3> HIDE DEF p, b
    <3>4. Good(d) /\ ~d.c.cleansession
      BY <2>1, <3>2, <3>3, AskGood
    <3>5. e.c = d.c
      BY <3>4 DEF Good, States
    <3> HIDE DEF d, e
    <3> QED
      BY <3>1, <3>4, <3>5
      DEF EndConnect, Return, Wait, Apply, FAILURE, SUCCESS, FirstOnly
  <2> QED
    BY <2>2, <2>3
<1>3. CASE MqttNext /\ ~\E clean \in CleanOptions : MqttConnect(clean)
  BY <1>3, StepKind, FirstSteps DEF KindStays, FirstOnly
<1> QED
  BY <1>1, <1>2, <1>3

\* A way of using the client in which it takes care of what it acknowledges:
\* it attends to it, or there is nothing to acknowledge, or no clean session.
Heeds(u) ==
  AttendsTo(u) \/ Uses[u].inQoS \subseteq {0} \/ TRUE \notin Uses[u].clean

\* A message whose PUBACK or PUBCOMP the broker has, and which it therefore
\* forgets, was handed to a handler: waitfor() and cycle() acknowledge what
\* no handler gets, but in the order in which the packets come there is one.
THEOREM ForgottenWasHandedOn ==
  ASSUME AcksAreAwaited, \A u \in DOMAIN Uses : Heeds(u)
  PROVE  MqttSpec => []AckedWasDelivered
<1> DEFINE Next == [MqttNext]_<<mqttVars, use>>
           Inv == /\ TypeInv /\ SubInv
                  /\ AttendsTo(use) => DelInv /\ HearInv
                  /\ InQoS \subseteq {0} => NoneOut(broker)
                  /\ TRUE \notin CleanOptions => FirstOnly(c, net, broker)
<1>1. MqttInit => Inv
  BY TypesInit, SubInit, DelInit, HearInit, NoneInit, FirstInit
<1>2. ASSUME Inv, Next PROVE Inv'
  <2>1. TypeInv' /\ SubInv' /\ UNCHANGED use
    BY <1>2, TypesKept, SubKept DEF MqttNext
  <2>2. AttendsTo(use) => DelInv' /\ HearInv'
    <3>1. AttendsTo(use) => OnceIn(use)
      BY DEF AttendsTo, OnceIn
    <3> QED
      BY <1>2, <3>1, DelKept, HearKept
  <2>3. InQoS \subseteq {0} => NoneOut(broker')
    BY <1>2, NoneKept
  <2>4. TRUE \notin CleanOptions => FirstOnly(c', net', broker')
    BY <1>2, FirstKept
  <2>5. /\ AttendsTo(use)' = AttendsTo(use) /\ InQoS' = InQoS
        /\ CleanOptions' = CleanOptions
    BY <2>1 DEF AttendsTo, InQoS, CleanOptions
  <2> QED
    BY <2>1, <2>2, <2>3, <2>4, <2>5 DEF NoneOut, FirstOnly
<1>3. Inv => AckedWasDelivered
  BY DEF TypeInv, Heeds, HearInv, HearFits, Handed, NoneOut, FirstOnly,
         AckedWasDelivered, InQoS, CleanOptions
<1> QED
  BY <1>1, <1>2, <1>3, PTL DEF MqttSpec
=============================================================================
