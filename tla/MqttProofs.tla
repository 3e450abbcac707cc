----------------------------- MODULE MqttProofs -----------------------------
(***************************************************************************)
(* The blocking client of MQTTClient.h against a network that fails at any *)
(* moment, for every way of building and using it: its types and tables,   *)
(* the keep-alive, and what it can take an acknowledgement for.            *)
(***************************************************************************)
EXTENDS MqttClient, FiniteSetTheorems, SequenceTheorems, TLAPS

-----------------------------------------------------------------------------
(* What the client's functions work on is one value, so each function has  *)
(* a lemma of its own: it keeps the types, the bounds of the two tables    *)
(* and the time a ping is given, and adds to the wire only what it says.   *)

PacketFields ==
  [type : 0..15, id : Nat, qos : 0..3, what : Topics \cup {0, 1, 5, 128},
   msg : Nat]
Packets == {p \in PacketFields : p.type = CONNACK => p.what \in {0, 5}}

Sessions ==
  [isconnected : BOOLEAN, ping_outstanding : BOOLEAN, cleansession : BOOLEAN,
   handlers : SUBSET Topics, next : 0..MAX_PACKET_ID,
   inflight : [id : 0..MAX_PACKET_ID, qos : 0..2, msg : Nat],
   qos2ids : SUBSET Nat]
Timers == [{"sent", "received", "ping"} -> 0..KeepAlive]
Nets ==
  [link : {"up", "cut", "closed"}, up : Seq(Packets), down : Seq(Packets),
   junk : BOOLEAN, fresh : BOOLEAN]
States ==
  [c : Sessions, t : Timers, net : Nets, seen : [Incoming -> 0..2],
   closed : [why : {"no", "ping"}, waited : 0..KeepAlive], rc : -2..15]

\* The tables are never longer than their arrays.
TablesFit(s) ==
  /\ IsFiniteSet(s.c.handlers)
  /\ Cardinality(s.c.handlers) <= MAX_MESSAGE_HANDLERS
  /\ IsFiniteSet(s.c.qos2ids)
  /\ Cardinality(s.c.qos2ids) <= MAX_INCOMING_QOS2_MESSAGES

\* The ticks that a ping has had and the ticks it has left are an interval.
PingFits(s) ==
  /\ s.c.ping_outstanding => s.closed.waited + s.t["ping"] >= KeepAlive
  /\ s.closed.why = "ping" => s.closed.waited >= KeepAlive

Good(s) == s \in States /\ TablesFit(s) /\ PingFits(s)

\* d is s but for timers, the ping, the incoming ids, and what was sent.
Same(s, d) ==
  /\ d.c.isconnected = s.c.isconnected /\ d.c.cleansession = s.c.cleansession
  /\ d.c.handlers = s.c.handlers /\ d.c.next = s.c.next
  /\ d.c.inflight = s.c.inflight
  /\ d.net.link = s.net.link /\ d.net.fresh = s.net.fresh
  /\ d.net.down = s.net.down /\ d.net.junk = s.net.junk

\* q is sent on the receipt of p, or to see whether the broker is there.
IsAnswer(q, p) ==
  \/ q.type \in {PUBACK, PUBREC, PUBCOMP, PINGREQ}
  \/ q.type = PUBREL /\ QOS2Build /\ p.type = PUBREC /\ q.id = p.id

\* v is u with acknowledgements and a ping, one of them an answer to p.
Adds(u, v, p) ==
  /\ Len(v) >= Len(u) /\ \A i \in 1..Len(u) : v[i] = u[i]
  /\ \A i \in (Len(u) + 1)..Len(v) :
       IsAnswer(v[i], p) /\ (v[i].type = PUBREL => i = Len(u) + 1)

\* What the assumptions say of the use at hand.
LEMMA UseTypes ==
  ASSUME use \in DOMAIN Uses
  PROVE  /\ QOS2Build \in BOOLEAN /\ KeepAlive \in Nat
         /\ MAX_PACKET_ID \in Nat /\ MAX_PACKET_ID > 0
         /\ CleanOptions \subseteq BOOLEAN /\ OutQoS \subseteq 0..2
         /\ InQoS \subseteq 0..2
         /\ MaxCalls \in Nat /\ MaxPublished \in Nat /\ MaxFaults \in Nat
         /\ MaxConnections \in Nat
         /\ MAX_MESSAGE_HANDLERS \in Nat /\ MAX_INCOMING_QOS2_MESSAGES \in Nat
BY MqttAssumption
DEF QOS2Build, KeepAlive, MAX_PACKET_ID, CleanOptions, OutQoS, InQoS, MaxCalls,
    MaxPublished, MaxFaults, MaxConnections

\* The packets that the client and the broker make.
LEMMA PacketTypes ==
  ASSUME NEW type \in 0..15, NEW id \in Nat, NEW qos \in 0..3, NEW msg \in Nat,
         NEW what \in Topics \cup {0, 1, 5, 128}
  PROVE  /\ (type = CONNACK => what \in {0, 5}) =>
              Packet(type, id, qos, what) \in Packets
         /\ PublishPacket(id, qos, what, msg) \in Packets
         /\ PublishPacket(id, qos, what, msg) =
              [type |-> PUBLISH, id |-> id, qos |-> qos, what |-> what,
               msg |-> msg]
<1>1. PublishPacket(id, qos, what, msg) =
        [type |-> PUBLISH, id |-> id, qos |-> qos, what |-> what, msg |-> msg]
  BY DEF PublishPacket, Packet
<1> QED
  BY <1>1 DEF Packets, PacketFields, Packet, PUBLISH, CONNACK

\* A state with one field changed is one, and the other fields are as before.
LEMMA SetSession ==
  ASSUME NEW s \in States, NEW v \in Sessions,
         NEW d, d = [s EXCEPT !.c = v]
  PROVE  /\ d \in States /\ d.c = v
         /\ d.t = s.t /\ d.net = s.net
         /\ d.seen = s.seen /\ d.closed = s.closed /\ d.rc = s.rc
BY DEF States

LEMMA SetTimers ==
  ASSUME NEW s \in States, NEW v \in Timers,
         NEW d, d = [s EXCEPT !.t = v]
  PROVE  /\ d \in States /\ d.t = v
         /\ d.c = s.c /\ d.net = s.net
         /\ d.seen = s.seen /\ d.closed = s.closed /\ d.rc = s.rc
BY DEF States

LEMMA SetNet ==
  ASSUME NEW s \in States, NEW v \in Nets,
         NEW d, d = [s EXCEPT !.net = v]
  PROVE  /\ d \in States /\ d.net = v
         /\ d.c = s.c /\ d.t = s.t
         /\ d.seen = s.seen /\ d.closed = s.closed /\ d.rc = s.rc
BY DEF States

LEMMA SetSeen ==
  ASSUME NEW s \in States, NEW v \in [Incoming -> 0..2],
         NEW d, d = [s EXCEPT !.seen = v]
  PROVE  /\ d \in States /\ d.seen = v
         /\ d.c = s.c /\ d.t = s.t
         /\ d.net = s.net /\ d.closed = s.closed /\ d.rc = s.rc
BY DEF States

LEMMA SetClosed ==
  ASSUME NEW s \in States,
         NEW v \in [why : {"no", "ping"}, waited : 0..KeepAlive],
         NEW d, d = [s EXCEPT !.closed = v]
  PROVE  /\ d \in States /\ d.closed = v
         /\ d.c = s.c /\ d.t = s.t
         /\ d.net = s.net /\ d.seen = s.seen /\ d.rc = s.rc
BY DEF States

LEMMA SetRc ==
  ASSUME NEW s \in States, NEW v \in -2..15,
         NEW d, d = [s EXCEPT !.rc = v]
  PROVE  /\ d \in States /\ d.rc = v
         /\ d.c = s.c /\ d.t = s.t
         /\ d.net = s.net /\ d.seen = s.seen /\ d.closed = s.closed
BY DEF States

\* Sending restarts the timer of what was sent, and says whether it failed.
LEMMA SendPacketGood ==
  ASSUME use \in DOMAIN Uses, NEW s \in States, NEW p \in Packets,
         NEW d, d = sendPacket(s, p)
  PROVE  /\ d \in States /\ Same(s, d) /\ d.c = s.c /\ d.seen = s.seen
         /\ d.closed = s.closed /\ d.t["ping"] = s.t["ping"]
         /\ d.rc \in {SUCCESS, FAILURE}
         /\ d.rc = FAILURE <=> s.net.link = "closed"
         /\ d.net.up = IF s.net.link = "up" THEN Append(s.net.up, p)
                                            ELSE s.net.up
<1> DEFINE sent == [s.t EXCEPT !.sent = KeepAlive]
           more == [s.net EXCEPT !.up = Append(s.net.up, p)]
<1>1. /\ KeepAlive \in 0..KeepAlive /\ s.t \in Timers /\ s.net \in Nets
      /\ SUCCESS \in -2..15 /\ FAILURE \in -2..15 /\ SUCCESS # FAILURE
  BY UseTypes DEF States, SUCCESS, FAILURE
<1>2. sent \in Timers /\ sent["ping"] = s.t["ping"]
  BY <1>1 DEF Timers
<1>3. Append(s.net.up, p) \in Seq(Packets)
  BY <1>1 DEF Nets
<1>4. /\ more \in Nets /\ more.link = s.net.link /\ more.down = s.net.down
      /\ more.junk = s.net.junk /\ more.fresh = s.net.fresh
      /\ more.up = Append(s.net.up, p)
  BY <1>1, <1>3 DEF Nets
<1> HIDE DEF sent, more
<1>5. CASE s.net.link = "closed"
  <2>1. d = [s EXCEPT !.rc = FAILURE]
    BY <1>5 DEF sendPacket
  <2> QED
    BY <1>1, <1>5, <2>1, SetRc DEF Same
<1>6. CASE s.net.link = "cut"
  <2> DEFINE x == [s EXCEPT !.t = sent]
  <2>1. d = [x EXCEPT !.rc = SUCCESS]
    BY <1>6 DEF sendPacket, sent
  <2>2. /\ x \in States /\ x.c = s.c /\ x.seen = s.seen /\ x.t = sent
        /\ x.net = s.net /\ x.closed = s.closed
    BY <1>1, <1>2, SetTimers
  <2> HIDE DEF x
  <2>3. /\ d \in States /\ d.c = x.c /\ d.seen = x.seen /\ d.t = x.t
        /\ d.net = x.net /\ d.closed = x.closed /\ d.rc = SUCCESS
    BY <1>1, <2>1, <2>2, SetRc
  <2> QED
    BY <1>1, <1>2, <1>6, <2>2, <2>3 DEF Same
<1>7. CASE s.net.link = "up"
  <2> DEFINE x == [s EXCEPT !.t = sent]
             y == [x EXCEPT !.rc = SUCCESS]
  <2>1. d = [y EXCEPT !.net = more]
    BY <1>7 DEF sendPacket, sent, more
  <2>2. /\ x \in States /\ x.c = s.c /\ x.seen = s.seen /\ x.t = sent
        /\ x.net = s.net /\ x.closed = s.closed
    BY <1>1, <1>2, SetTimers
  <2> HIDE DEF x
  <2>3. /\ y \in States /\ y.c = x.c /\ y.seen = x.seen /\ y.t = x.t
        /\ y.net = x.net /\ y.closed = x.closed /\ y.rc = SUCCESS
    BY <1>1, <2>2, SetRc
  <2> HIDE DEF y
  <2>4. /\ d \in States /\ d.c = y.c /\ d.seen = y.seen /\ d.t = y.t
        /\ d.net = more /\ d.closed = y.closed /\ d.rc = SUCCESS
    BY <1>4, <2>1, <2>3, SetNet
  <2> QED
    BY <1>1, <1>2, <1>4, <1>7, <2>2, <2>3, <2>4 DEF Same
<1> QED
  BY <1>1, <1>5, <1>6, <1>7 DEF Nets

\* Closing a session empties a clean session's tables; the ping is forgotten.
LEMMA CloseSessionGood ==
  ASSUME use \in DOMAIN Uses, NEW s, Good(s), NEW d, d = closeSession(s)
  PROVE  /\ Good(d) /\ ~d.c.isconnected
         /\ d.c.cleansession = s.c.cleansession /\ d.c.next = s.c.next
         /\ s.c.cleansession =>
              d.c.handlers = {} /\ d.c.inflight = NoInflight
         /\ ~s.c.cleansession =>
              d.c.handlers = s.c.handlers /\ d.c.inflight = s.c.inflight
         /\ d.t = s.t /\ d.net = s.net /\ d.seen = s.seen
         /\ d.closed = s.closed /\ d.rc = s.rc
<1> DEFINE b == [s.c EXCEPT !.ping_outstanding = FALSE, !.isconnected = FALSE]
           e == [b EXCEPT !.handlers = {}, !.inflight = NoInflight,
                          !.qos2ids = {}]
           x == [s EXCEPT !.c = b]
<1>1. s \in States /\ s.c \in Sessions /\ MAX_PACKET_ID \in Nat
  BY UseTypes DEF Good, States
<1>2. /\ b \in Sessions /\ ~b.isconnected /\ ~b.ping_outstanding
      /\ b.cleansession = s.c.cleansession /\ b.next = s.c.next
      /\ b.handlers = s.c.handlers /\ b.inflight = s.c.inflight
      /\ b.qos2ids = s.c.qos2ids
  BY <1>1 DEF Sessions
<1>3. NoInflight \in [id : 0..MAX_PACKET_ID, qos : 0..2, msg : Nat]
  BY <1>1 DEF NoInflight
<1> HIDE DEF b
<1>4. /\ e \in Sessions /\ ~e.isconnected /\ ~e.ping_outstanding
      /\ e.cleansession = s.c.cleansession /\ e.next = s.c.next
      /\ e.handlers = {} /\ e.inflight = NoInflight /\ e.qos2ids = {}
  BY <1>2, <1>3 DEF Sessions
<1> HIDE DEF e
<1>5. /\ x \in States /\ x.c = b /\ x.t = s.t /\ x.net = s.net
      /\ x.seen = s.seen /\ x.closed = s.closed /\ x.rc = s.rc
  BY <1>1, <1>2, SetSession
<1> HIDE DEF x
<1>6. CASE s.c.cleansession
  <2>1. d = [x EXCEPT !.c = e]
    BY <1>5, <1>6 DEF closeSession, cleanSession, x, b, e
  <2>2. /\ d \in States /\ d.c = e /\ d.t = x.t /\ d.net = x.net
        /\ d.seen = x.seen /\ d.closed = x.closed /\ d.rc = x.rc
    BY <1>4, <1>5, <2>1, SetSession
  <2>3. IsFiniteSet({}) /\ Cardinality({}) = 0
    BY FS_EmptySet
  <2>4. TablesFit(d)
    <3>1. d.c.handlers = {} /\ d.c.qos2ids = {}
      BY <1>4, <2>2
    <3> QED
      BY <2>3, <3>1, UseTypes DEF TablesFit
  <2>5. PingFits(d)
    BY <1>4, <1>5, <2>2 DEF PingFits, Good
  <2> QED
    BY <1>4, <1>5, <1>6, <2>2, <2>4, <2>5 DEF Good
<1>7. CASE ~s.c.cleansession
  <2>1. d = x
    BY <1>7 DEF closeSession, x, b
  <2>2. /\ d \in States /\ d.c = b /\ d.t = s.t /\ d.net = s.net
        /\ d.seen = s.seen /\ d.closed = s.closed /\ d.rc = s.rc
    BY <1>5, <2>1
  <2>3. Good(d)
    BY <1>2, <2>2 DEF Good, TablesFit, PingFits
  <2> QED
    BY <1>2, <1>7, <2>2, <2>3
<1> QED
  BY <1>6, <1>7

\* A message is handed on: only the counts of what was handed on change.
LEMMA DeliverGood ==
  ASSUME use \in DOMAIN Uses, NEW s, Good(s), NEW p \in Packets,
         NEW d, d = deliverMessage(s, p)
  PROVE  /\ Good(d) /\ d.c = s.c /\ d.t = s.t /\ d.net = s.net
         /\ d.closed = s.closed /\ d.rc = s.rc
<1>1. CASE p.what \in s.c.handlers \/ HasDefault
  <2> DEFINE f == [s.seen EXCEPT ![p.msg] = IF @ = 2 THEN 2 ELSE @ + 1]
  <2>1. s \in States /\ s.seen \in [Incoming -> 0..2]
    BY DEF Good, States
  <2>2. f \in [Incoming -> 0..2]
    <3>1. CASE p.msg \in Incoming
      <4> DEFINE n == IF s.seen[p.msg] = 2 THEN 2 ELSE s.seen[p.msg] + 1
      <4>1. n \in 0..2 /\ f = [s.seen EXCEPT ![p.msg] = n]
        BY <2>1, <3>1
      <4> HIDE DEF n, f
      <4> QED
        BY <2>1, <4>1
    <3>2. CASE p.msg \notin Incoming
      <4>1. f = s.seen
        BY <2>1, <3>2
      <4> QED
        BY <2>1, <4>1
    <3> QED
      BY <3>1, <3>2
  <2>3. d = [s EXCEPT !.seen = f]
    BY <1>1 DEF deliverMessage
  <2> HIDE DEF f
  <2>4. /\ d \in States /\ d.c = s.c /\ d.t = s.t /\ d.net = s.net
        /\ d.closed = s.closed /\ d.rc = s.rc
    BY <2>1, <2>2, <2>3, SetSeen
  <2> QED
    BY <2>4 DEF Good, TablesFit, PingFits
<1>2. CASE ~(p.what \in s.c.handlers \/ HasDefault)
  BY <1>2 DEF deliverMessage
<1> QED
  BY <1>1, <1>2

\* The same with an id noted, in a table that is not full.
LEMMA UseQoS2Good ==
  ASSUME use \in DOMAIN Uses, NEW s, Good(s), NEW p \in Packets,
         NEW d, d = useQoS2msgid(s, p)
  PROVE  /\ Good(d) /\ Same(s, d) /\ d.net = s.net /\ d.t = s.t
         /\ d.closed = s.closed /\ d.rc = s.rc
         /\ d.c.ping_outstanding = s.c.ping_outstanding
<1>1. CASE p.id \in s.c.qos2ids
           \/ Cardinality(s.c.qos2ids) >= MAX_INCOMING_QOS2_MESSAGES
  BY <1>1 DEF useQoS2msgid, Same
<1>2. CASE ~(p.id \in s.c.qos2ids
             \/ Cardinality(s.c.qos2ids) >= MAX_INCOMING_QOS2_MESSAGES)
  <2> DEFINE b == [s.c EXCEPT !.qos2ids = s.c.qos2ids \cup {p.id}]
             x == [s EXCEPT !.c = b]
  <2>1. s \in States /\ s.c \in Sessions /\ p.id \in Nat
    BY DEF Good, States, Packets, PacketFields
  <2>2. IsFiniteSet(s.c.qos2ids) /\ Cardinality(s.c.qos2ids) \in Nat
    BY FS_CardinalityType DEF Good, TablesFit
  <2>3. /\ IsFiniteSet(s.c.qos2ids \cup {p.id})
        /\ Cardinality(s.c.qos2ids \cup {p.id}) = Cardinality(s.c.qos2ids) + 1
    BY <1>2, <2>2, FS_AddElement
  <2>4. Cardinality(s.c.qos2ids \cup {p.id}) <= MAX_INCOMING_QOS2_MESSAGES
    BY <1>2, <2>2, <2>3, MqttAssumption
  <2>5. /\ b \in Sessions /\ b.isconnected = s.c.isconnected
        /\ b.ping_outstanding = s.c.ping_outstanding
        /\ b.cleansession = s.c.cleansession /\ b.next = s.c.next
        /\ b.handlers = s.c.handlers /\ b.inflight = s.c.inflight
        /\ b.qos2ids = s.c.qos2ids \cup {p.id}
    BY <2>1 DEF Sessions
  <2>6. d = deliverMessage(x, p)
    BY <1>2 DEF useQoS2msgid
  <2> HIDE DEF b
  <2>7. /\ x \in States /\ x.c = b /\ x.t = s.t /\ x.net = s.net
        /\ x.seen = s.seen /\ x.closed = s.closed /\ x.rc = s.rc
    BY <2>1, <2>5, SetSession
  <2> HIDE DEF x
  <2>8. Good(x)
    BY <2>3, <2>4, <2>5, <2>7 DEF Good, TablesFit, PingFits
  <2>9. /\ Good(d) /\ d.c = x.c /\ d.t = x.t /\ d.net = x.net
        /\ d.closed = x.closed /\ d.rc = x.rc
    BY <2>6, <2>8, DeliverGood
  <2> QED
    BY <2>5, <2>7, <2>9 DEF Same
<1> QED
  BY <1>1, <1>2

\* What is added after one packet, or after none, is still only additions.
LEMMA AddsNothing ==
  ASSUME NEW u, u \in Seq(Packets), NEW p PROVE Adds(u, u, p)
BY DEF Adds
LEMMA AddsOne ==
  ASSUME NEW u, u \in Seq(Packets), NEW p, NEW q \in Packets,
         IsAnswer(q, p)
  PROVE  Adds(u, Append(u, q), p)
<1>1. /\ Append(u, q) \in Seq(Packets) /\ Len(Append(u, q)) = Len(u) + 1
      /\ \A i \in 1..Len(u) : Append(u, q)[i] = u[i]
      /\ Append(u, q)[Len(u) + 1] = q /\ Len(u) \in Nat
  OBVIOUS
<1>2. \A i \in (Len(u) + 1)..Len(Append(u, q)) : i = Len(u) + 1
  BY <1>1
<1> QED
  BY <1>1, <1>2 DEF Adds
LEMMA AddsPing ==
  ASSUME NEW u, u \in Seq(Packets), NEW v, v \in Seq(Packets), NEW p,
         Adds(u, v, p), NEW q \in Packets, q.type = PINGREQ
  PROVE  Adds(u, Append(v, q), p)
<1>1. /\ Append(v, q) \in Seq(Packets) /\ Len(Append(v, q)) = Len(v) + 1
      /\ \A i \in 1..Len(v) : Append(v, q)[i] = v[i]
      /\ Append(v, q)[Len(v) + 1] = q /\ Len(u) \in Nat /\ Len(v) \in Nat
  OBVIOUS
<1>2. Len(v) >= Len(u) /\ \A i \in 1..Len(u) : v[i] = u[i]
  BY DEF Adds
<1>3. \A i \in (Len(u) + 1)..(Len(v) + 1) :
        i \in (Len(u) + 1)..Len(v) \/ i = Len(v) + 1
  BY <1>1
<1>4. q.type # PUBREL /\ IsAnswer(q, p)
  BY DEF IsAnswer, PINGREQ, PUBREL
<1> QED
  BY <1>1, <1>2, <1>3, <1>4 DEF Adds

\* An acknowledgement is sent, and the rest stays.
LEMMA AnswerGood ==
  ASSUME use \in DOMAIN Uses, NEW s, Good(s), NEW p, NEW q \in Packets,
         IsAnswer(q, p),
         NEW d, d = sendPacket(s, q)
  PROVE  /\ Good(d) /\ Same(s, d) /\ Adds(s.net.up, d.net.up, p)
         /\ d.c = s.c /\ d.closed = s.closed /\ d.rc \in {SUCCESS, FAILURE}
<1>1. s \in States /\ s.net.up \in Seq(Packets)
  BY DEF Good, States, Nets
<1>2. /\ d \in States /\ Same(s, d) /\ d.c = s.c /\ d.closed = s.closed
      /\ d.t["ping"] = s.t["ping"] /\ d.rc \in {SUCCESS, FAILURE}
      /\ d.net.up = IF s.net.link = "up" THEN Append(s.net.up, q)
                                         ELSE s.net.up
  BY <1>1, SendPacketGood
<1>3. Adds(s.net.up, Append(s.net.up, q), p) /\ Adds(s.net.up, s.net.up, p)
  BY <1>1, AddsOne, AddsNothing
<1>4. Adds(s.net.up, d.net.up, p)
  BY <1>2, <1>3
<1>5. Good(d)
  BY <1>2 DEF Good, TablesFit, PingFits
<1> QED
  BY <1>2, <1>4, <1>5

\* cycle() with a PUBLISH: it is handed on first and acknowledged after.
LEMMA CyclePublishGood ==
  ASSUME use \in DOMAIN Uses, NEW s, Good(s), s.rc = SUCCESS,
         NEW p \in Packets, NEW d, d = cyclePublish(s, p)
  PROVE  /\ Good(d) /\ Same(s, d) /\ Adds(s.net.up, d.net.up, p)
         /\ d.closed = s.closed /\ d.rc \in {SUCCESS, FAILURE}
<1> DEFINE x == IF QOS2Build /\ p.qos = 2
                THEN useQoS2msgid(s, p) ELSE deliverMessage(s, p)
           ack == Packet(PUBACK, p.id, 0, 0)
           rec == Packet(PUBREC, p.id, 0, 0)
<1>1. Good(x) /\ Same(s, x) /\ x.net = s.net /\ x.closed = s.closed
      /\ x.rc = SUCCESS
  <2>1. CASE QOS2Build /\ p.qos = 2
    BY <2>1, UseQoS2Good
  <2>2. CASE ~(QOS2Build /\ p.qos = 2)
    BY <2>2, DeliverGood DEF Same
  <2> QED
    BY <2>1, <2>2
<1>2. /\ ack \in Packets /\ rec \in Packets
      /\ ack.type = PUBACK /\ rec.type = PUBREC
  BY DEF Packet, Packets, PacketFields, PUBACK, PUBREC, CONNACK
<1>3. d = CASE p.qos = 0 -> x [] p.qos = 1 -> sendPacket(x, ack)
            [] OTHER -> sendPacket(x, rec)
  BY DEF cyclePublish
<1>4. s.net.up \in Seq(Packets)
  BY DEF Good, States, Nets
<1> HIDE DEF x, ack, rec
<1>5. CASE p.qos = 0
  <2>1. d = x
    BY <1>3, <1>5
  <2>2. Adds(s.net.up, s.net.up, p)
    BY <1>4, AddsNothing
  <2> QED
    BY <1>1, <2>1, <2>2
<1>6. ASSUME NEW q \in {ack, rec}, d = sendPacket(x, q)
      PROVE  /\ Good(d) /\ Same(s, d) /\ Adds(s.net.up, d.net.up, p)
             /\ d.closed = s.closed /\ d.rc \in {SUCCESS, FAILURE}
  <2>1. q \in Packets /\ IsAnswer(q, p)
    BY <1>2 DEF IsAnswer
  <2>2. /\ Good(d) /\ Same(x, d) /\ Adds(x.net.up, d.net.up, p)
        /\ d.closed = x.closed /\ d.rc \in {SUCCESS, FAILURE}
    BY <1>1, <1>6, <2>1, AnswerGood
  <2> QED
    BY <1>1, <2>2 DEF Same
<1> QED
  BY <1>3, <1>5, <1>6

\* cycle() with a PUBREC or PUBREL: the answer has the packet's id.
LEMMA CyclePubrelGood ==
  ASSUME use \in DOMAIN Uses, NEW s, Good(s), QOS2Build,
         NEW p \in Packets, NEW d, d = cyclePubrel(s, p)
  PROVE  /\ Good(d) /\ Same(s, d) /\ Adds(s.net.up, d.net.up, p)
         /\ d.closed = s.closed /\ d.rc \in {SUCCESS, FAILURE}
<1> DEFINE q == Packet(IF p.type = PUBREC THEN PUBREL ELSE PUBCOMP, p.id, 0, 0)
           x == sendPacket(s, q)
<1>1. /\ q \in Packets /\ q.id = p.id
      /\ q.type = IF p.type = PUBREC THEN PUBREL ELSE PUBCOMP
  BY DEF Packet, Packets, PacketFields, PUBREL, PUBCOMP, CONNACK
<1>2. d = IF p.type = PUBREL /\ x.rc = SUCCESS
          THEN [x EXCEPT !.c.qos2ids = @ \ {p.id}] ELSE x
  BY DEF cyclePubrel
<1> HIDE DEF q
<1>3. IsAnswer(q, p)
  BY <1>1 DEF IsAnswer
<1>4. /\ Good(x) /\ Same(s, x) /\ Adds(s.net.up, x.net.up, p)
      /\ x.c = s.c /\ x.closed = s.closed /\ x.rc \in {SUCCESS, FAILURE}
  BY <1>1, <1>3, AnswerGood
<1> HIDE DEF x
<1>5. CASE ~(p.type = PUBREL /\ x.rc = SUCCESS)
  BY <1>2, <1>4, <1>5
<1>6. CASE p.type = PUBREL /\ x.rc = SUCCESS
  <2> DEFINE b == [x.c EXCEPT !.qos2ids = x.c.qos2ids \ {p.id}]
  <2>1. d = [x EXCEPT !.c = b]
    BY <1>2, <1>6
  <2>2. x \in States /\ x.c \in Sessions
    BY <1>4 DEF Good, States
  <2>3. /\ b \in Sessions /\ b.isconnected = x.c.isconnected
        /\ b.ping_outstanding = x.c.ping_outstanding
        /\ b.cleansession = x.c.cleansession /\ b.next = x.c.next
        /\ b.handlers = x.c.handlers /\ b.inflight = x.c.inflight
        /\ b.qos2ids = x.c.qos2ids \ {p.id}
    BY <2>2 DEF Sessions
  <2> HIDE DEF b
  <2>4. /\ d \in States /\ d.c = b /\ d.t = x.t /\ d.net = x.net
        /\ d.seen = x.seen /\ d.closed = x.closed /\ d.rc = x.rc
    BY <2>1, <2>2, <2>3, SetSession
  <2>5. /\ IsFiniteSet(x.c.qos2ids \ {p.id})
        /\ Cardinality(x.c.qos2ids \ {p.id}) <= Cardinality(x.c.qos2ids)
        /\ Cardinality(x.c.qos2ids \ {p.id}) \in Nat
        /\ Cardinality(x.c.qos2ids) \in Nat
    BY <1>4, FS_Subset, FS_CardinalityType DEF Good, TablesFit
  <2>6. TablesFit(d)
    <3>1. TablesFit(x)
      BY <1>4 DEF Good
    <3>2. d.c.handlers = x.c.handlers /\ d.c.qos2ids = x.c.qos2ids \ {p.id}
      BY <2>3, <2>4
    <3>3. Cardinality(x.c.qos2ids \ {p.id}) <= MAX_INCOMING_QOS2_MESSAGES
      BY <2>5, <3>1, UseTypes DEF TablesFit
    <3> QED
      BY <2>5, <3>1, <3>2, <3>3 DEF TablesFit
  <2>7. PingFits(d)
    BY <1>4, <2>3, <2>4 DEF PingFits, Good
  <2> QED
    BY <1>4, <2>3, <2>4, <2>6, <2>7 DEF Same, Good
<1> QED
  BY <1>5, <1>6

\* A PINGREQ is sent and given the whole interval.
LEMMA PingSentGood ==
  ASSUME use \in DOMAIN Uses, NEW s, Good(s), s.rc \in {SUCCESS, FAILURE},
         NEW d, d = pingSent(s),
         NEW u, u \in Seq(Packets), NEW p, Adds(u, s.net.up, p)
  PROVE  /\ Good(d) /\ Same(s, d) /\ Adds(u, d.net.up, p)
         /\ d.rc \in {SUCCESS, FAILURE}
<1> DEFINE q == Packet(PINGREQ, 0, 0, 0)
           x == sendPacket(s, q)
<1>1. q \in Packets /\ q.type = PINGREQ
  BY DEF Packet, Packets, PacketFields, PINGREQ, CONNACK
<1> HIDE DEF q
<1>2. s \in States /\ s.net.up \in Seq(Packets)
  BY DEF Good, States, Nets
<1>3. /\ x \in States /\ Same(s, x) /\ x.c = s.c /\ x.closed = s.closed
      /\ x.t["ping"] = s.t["ping"] /\ x.rc \in {SUCCESS, FAILURE}
      /\ x.net.up = IF s.net.link = "up" THEN Append(s.net.up, q)
                                         ELSE s.net.up
  BY <1>1, <1>2, SendPacketGood
<1>4. Adds(u, x.net.up, p)
  BY <1>1, <1>2, <1>3, AddsPing
<1>5. Good(x)
  BY <1>3 DEF Good, TablesFit, PingFits
<1>6. d = IF x.rc = SUCCESS
          THEN [x EXCEPT !.c.ping_outstanding = TRUE, !.t.ping = KeepAlive,
                         !.closed = [why |-> "no", waited |-> 0]]
          ELSE x
  BY DEF pingSent, q
<1> HIDE DEF x
<1>7. CASE x.rc # SUCCESS
  BY <1>3, <1>4, <1>5, <1>6, <1>7
<1>8. CASE x.rc = SUCCESS
  <2> DEFINE b == [x.c EXCEPT !.ping_outstanding = TRUE]
             e == [x.t EXCEPT !.ping = KeepAlive]
             f == [why |-> "no", waited |-> 0]
             y == [x EXCEPT !.c = b]
             z == [y EXCEPT !.t = e]
  <2>1. d = [z EXCEPT !.closed = f]
    BY <1>6, <1>8
  <2>2. x \in States /\ x.c \in Sessions /\ x.t \in Timers /\ KeepAlive \in Nat
    BY <1>3, UseTypes DEF States
  <2>3. /\ b \in Sessions /\ b.isconnected = x.c.isconnected
        /\ b.cleansession = x.c.cleansession /\ b.next = x.c.next
        /\ b.handlers = x.c.handlers /\ b.inflight = x.c.inflight
        /\ b.qos2ids = x.c.qos2ids
    BY <2>2 DEF Sessions
  <2>4. e \in Timers /\ e["ping"] = KeepAlive
    BY <2>2 DEF Timers
  <2>5. f \in [why : {"no", "ping"}, waited : 0..KeepAlive]
        /\ f.waited = 0 /\ f.why = "no"
    BY <2>2
  <2> HIDE DEF b, e, f
  <2>6. /\ y \in States /\ y.c = b /\ y.t = x.t /\ y.net = x.net
        /\ y.seen = x.seen /\ y.closed = x.closed /\ y.rc = x.rc
    BY <2>2, <2>3, SetSession
  <2> HIDE DEF y
  <2>7. /\ z \in States /\ z.t = e /\ z.c = y.c /\ z.net = y.net
        /\ z.seen = y.seen /\ z.closed = y.closed /\ z.rc = y.rc
    BY <2>4, <2>6, SetTimers
  <2> HIDE DEF z
  <2>8. /\ d \in States /\ d.closed = f /\ d.c = z.c /\ d.t = z.t
        /\ d.net = z.net /\ d.seen = z.seen /\ d.rc = z.rc
    BY <2>1, <2>5, <2>7, SetClosed
  <2>9. d.c = b /\ d.t = e /\ d.closed = f /\ d.net = x.net /\ d.rc = x.rc
    BY <2>6, <2>7, <2>8
  <2>10. TablesFit(d)
    BY <1>5, <2>3, <2>9 DEF TablesFit, Good
  <2>11. PingFits(d)
    BY <2>2, <2>4, <2>5, <2>9 DEF PingFits
  <2>12. Same(s, d)
    BY <1>3, <2>3, <2>9 DEF Same
  <2> QED
    BY <1>3, <1>4, <2>8, <2>9, <2>10, <2>11, <2>12 DEF Good
<1> QED
  BY <1>7, <1>8

\* keepalive() gives up only on a ping whose time is over.
LEMMA KeepaliveGood ==
  ASSUME use \in DOMAIN Uses, NEW s, Good(s), s.rc \in {SUCCESS, FAILURE},
         NEW d, d = keepalive(s),
         NEW u, u \in Seq(Packets), NEW p, Adds(u, s.net.up, p)
  PROVE  /\ Good(d) /\ Same(s, d) /\ Adds(u, d.net.up, p)
         /\ d.rc \in {SUCCESS, FAILURE}
<1>1. s \in States /\ s.c \in Sessions /\ s.t \in Timers /\ KeepAlive \in Nat
      /\ s.closed \in [why : {"no", "ping"}, waited : 0..KeepAlive]
  BY UseTypes DEF Good, States
<1>2. CASE d = s
  BY <1>2 DEF Same
<1>3. CASE d = pingSent(s)
  BY <1>3, PingSentGood
<1>4. CASE /\ s.c.ping_outstanding /\ s.t.ping = 0
           /\ d = [s EXCEPT !.rc = FAILURE, !.closed.why = "ping"]
  <2> DEFINE f == [s.closed EXCEPT !.why = "ping"]
             x == [s EXCEPT !.rc = FAILURE]
  <2>1. f \in [why : {"no", "ping"}, waited : 0..KeepAlive]
        /\ f.waited = s.closed.waited
    BY <1>1
  <2>2. d = [x EXCEPT !.closed = f]
    BY <1>4
  <2>3. FAILURE \in -2..15
    BY DEF FAILURE
  <2>0. x = [s EXCEPT !.rc = FAILURE]
    OBVIOUS
  <2> HIDE DEF f, x
  <2>4. /\ x \in States /\ x.rc = FAILURE /\ x.c = s.c /\ x.t = s.t
        /\ x.net = s.net /\ x.seen = s.seen /\ x.closed = s.closed
    <3>1. s \in States
      BY <1>1
    <3> QED
      BY <2>0, <2>3, <3>1, SetRc
  <2>5. /\ d \in States /\ d.closed = f /\ d.c = x.c /\ d.t = x.t
        /\ d.net = x.net /\ d.seen = x.seen /\ d.rc = x.rc
    BY <2>1, <2>2, <2>4, SetClosed
  <2>6. TablesFit(d)
    BY <2>4, <2>5 DEF TablesFit, Good
  <2>7. PingFits(d)
    <3>1. s.closed.waited + s.t["ping"] >= KeepAlive /\ s.t["ping"] = 0
      BY <1>4 DEF Good, PingFits
    <3>2. s.closed.waited \in Nat
      BY <1>1
    <3> QED
      BY <1>1, <2>1, <2>4, <2>5, <3>1, <3>2 DEF PingFits
  <2> QED
    BY <2>4, <2>5, <2>6, <2>7 DEF Same, Good
<1>5. \/ d = s \/ d = pingSent(s)
      \/ /\ s.c.ping_outstanding /\ s.t.ping = 0
         /\ d = [s EXCEPT !.rc = FAILURE, !.closed.why = "ping"]
  <2>1. CASE KeepAlive = 0
    BY <2>1 DEF keepalive
  <2>2. CASE KeepAlive > 0 /\ s.c.ping_outstanding
    BY <2>2 DEF keepalive
  <2>3. CASE KeepAlive > 0 /\ ~s.c.ping_outstanding
    BY <2>3 DEF keepalive
  <2> QED
    BY <1>1, <2>1, <2>2, <2>3
<1> QED
  BY <1>2, <1>3, <1>4, <1>5

\* readPacket() takes the first packet off the wire, or breaks the stream.
LEMMA ReadGood ==
  ASSUME net \in Nets, NEW r \in readPacket
  PROVE  /\ r.net \in Nets /\ r.p \in Packets /\ r.type \in -2..15
         /\ r.net.link = net.link /\ r.net.fresh = net.fresh
         /\ r.net.up = net.up
         /\ \/ r.net.down \in {net.down, <<>>}
            \/ net.down # <<>> /\ r.net.down = Tail(net.down)
         /\ r.type \in 2..14 =>
              /\ net.down # <<>> /\ r.p = Head(net.down)
              /\ r.p.type = r.type /\ r.net.down = Tail(net.down)
<1>1. NoPacket \in Packets
  BY DEF NoPacket, Packet, Packets, PacketFields, CONNACK
<1>2. CASE net.junk
  BY <1>1, <1>2 DEF readPacket, Nets
<1>3. CASE ~net.junk /\ net.down = <<>>
  BY <1>1, <1>3 DEF readPacket, FAILURE
<1>4. CASE ~net.junk /\ net.down # <<>>
  <2> DEFINE p == Head(net.down)
             whole == [net EXCEPT !.down = Tail(@)]
             broken == [net EXCEPT !.down = <<>>, !.junk = TRUE]
  <2>1. p \in Packets /\ Tail(net.down) \in Seq(Packets)
    BY <1>4 DEF Nets
  <2>2. /\ whole \in Nets /\ whole.link = net.link /\ whole.fresh = net.fresh
        /\ whole.up = net.up /\ whole.down = Tail(net.down)
    BY <2>1 DEF Nets
  <2>3. /\ broken \in Nets /\ broken.link = net.link
        /\ broken.fresh = net.fresh /\ broken.up = net.up /\ broken.down = <<>>
    <3>1. <<>> \in Seq(Packets)
      OBVIOUS
    <3> QED
      BY <3>1 DEF Nets
  <2>4. p.type \in 0..15
    BY <2>1 DEF Packets, PacketFields
  <2>5. r \in {[type |-> BUFFER_OVERFLOW, p |-> p, net |-> broken],
               [type |-> p.type, p |-> p, net |-> whole],
               [type |-> 1, p |-> p, net |-> broken]}
    BY <1>4 DEF readPacket
  <2> HIDE DEF p, whole, broken
  <2>6. CASE r = [type |-> p.type, p |-> p, net |-> whole]
    BY <1>4, <2>1, <2>2, <2>4, <2>6 DEF p
  <2>7. CASE \/ r = [type |-> BUFFER_OVERFLOW, p |-> p, net |-> broken]
             \/ r = [type |-> 1, p |-> p, net |-> broken]
    BY <2>1, <2>3, <2>7 DEF BUFFER_OVERFLOW
  <2> QED
    BY <2>5, <2>6, <2>7
<1> QED
  BY <1>2, <1>3, <1>4 DEF Nets

\* What one turn of the loop does: nothing to the session, or it closes it.
Turned(r, d) ==
  \/ /\ d.rc = r.type /\ r.type \in Handled
     /\ d.c.isconnected = c.isconnected /\ d.c.handlers = c.handlers
     /\ d.c.inflight = c.inflight
  \/ /\ d.rc = FAILURE \/ (d.rc = r.type /\ r.type \notin Handled)
     /\ ~d.c.isconnected
     /\ \/ d.c.handlers = c.handlers /\ d.c.inflight = c.inflight
        \/ /\ c.cleansession
           /\ d.c.handlers = {} /\ d.c.inflight = NoInflight

\* cycle(): the types and bounds stay, and it adds answers to the wire.
LEMMA CycleGood ==
  ASSUME use \in DOMAIN Uses, Good(S), NEW r \in readPacket,
         NEW d, d = cycle(r)
  PROVE  /\ Good(d) /\ Turned(r, d)
         /\ d.c.cleansession = c.cleansession /\ d.c.next = c.next
         /\ d.net.link = net.link /\ d.net.fresh = net.fresh
         /\ d.net.down = r.net.down /\ d.net.junk = r.net.junk
         /\ Adds(net.up, d.net.up, r.p)
         /\ r.type \notin Handled => d.net.up = net.up
<1> DEFINE e == [t EXCEPT !.received = IF r.type > 1 /\ r.p.type # 0
                                       THEN KeepAlive ELSE @]
           x == [S EXCEPT !.net = r.net]
           s0 == [x EXCEPT !.t = e]
           s1 == CASE r.type = PUBLISH -> cyclePublish(s0, r.p)
                   [] r.type \in {PUBREC, PUBREL} -> cyclePubrel(s0, r.p)
                   [] r.type = PINGRESP ->
                        [s0 EXCEPT !.c.ping_outstanding = FALSE]
                   [] OTHER -> s0
           s2 == IF r.type \notin Handled THEN [s0 EXCEPT !.rc = r.type]
                 ELSE IF s1.rc = FAILURE THEN s1
                 ELSE keepalive(s1)
<1>1. /\ S \in States /\ S.c = c /\ S.t = t /\ S.net = net /\ S.seen = seen
      /\ S.closed = closed /\ S.rc = SUCCESS
  BY DEF Good, S
<1>2. /\ net \in Nets /\ t \in Timers /\ c \in Sessions /\ KeepAlive \in Nat
      /\ net.up \in Seq(Packets)
  BY <1>1, UseTypes DEF States, Nets
<1>3. /\ r.net \in Nets /\ r.p \in Packets /\ r.type \in -2..15
      /\ r.net.link = net.link /\ r.net.fresh = net.fresh
      /\ r.net.up = net.up
  BY <1>2, ReadGood
<1>4. e \in Timers /\ e["ping"] = t["ping"]
  BY <1>2 DEF Timers
<1>5. /\ x \in States /\ x.net = r.net /\ x.c = c /\ x.t = t
      /\ x.seen = seen /\ x.closed = closed /\ x.rc = SUCCESS
  BY <1>1, <1>3, SetNet
<1>6. d = IF s2.rc = SUCCESS THEN [s2 EXCEPT !.rc = r.type]
          ELSE IF s2.c.isconnected THEN closeSession(s2) ELSE s2
  <2>1. s0 = [S EXCEPT !.net = r.net,
                       !.t.received = IF r.type > 1 /\ r.p.type # 0
                                      THEN KeepAlive ELSE @]
    BY DEF S
  <2> HIDE DEF s0
  <2> QED
    BY <2>1 DEF cycle
<1> HIDE DEF e, x
<1>7. /\ s0 \in States /\ s0.t = e /\ s0.c = c /\ s0.net = r.net
      /\ s0.seen = seen /\ s0.closed = closed /\ s0.rc = SUCCESS
  BY <1>4, <1>5, SetTimers
<1> HIDE DEF s0
<1>8. Good(s0)
  BY <1>1, <1>4, <1>7 DEF Good, TablesFit, PingFits
<1>9. ASSUME r.type \in Handled
      PROVE  /\ Good(s1) /\ Same(s0, s1) /\ Adds(net.up, s1.net.up, r.p)
             /\ s1.rc \in {SUCCESS, FAILURE}
  <2>1. CASE r.type = PUBLISH
    <3>1. s1 = cyclePublish(s0, r.p)
      BY <2>1 DEF PUBLISH, PUBREC, PUBREL, PINGRESP
    <3> HIDE DEF s1
    <3> QED
      BY <1>3, <1>7, <1>8, <3>1, CyclePublishGood
  <2>2. CASE r.type \in {PUBREC, PUBREL}
    <3>1. s1 = cyclePubrel(s0, r.p) /\ QOS2Build
      BY <1>9, <2>2 DEF Handled, PUBLISH, PUBREC, PUBREL, CONNACK, PUBACK,
                        SUBACK, UNSUBACK, PINGRESP
    <3> HIDE DEF s1
    <3> QED
      BY <1>3, <1>7, <1>8, <3>1, CyclePubrelGood
  <2>3. CASE r.type = PINGRESP
    <3> DEFINE b == [s0.c EXCEPT !.ping_outstanding = FALSE]
    <3>1. s1 = [s0 EXCEPT !.c = b]
      BY <2>3 DEF PUBLISH, PUBREC, PUBREL, PINGRESP
    <3>2. /\ b \in Sessions /\ b.isconnected = c.isconnected
          /\ b.cleansession = c.cleansession /\ b.next = c.next
          /\ b.handlers = c.handlers /\ b.inflight = c.inflight
          /\ b.qos2ids = c.qos2ids /\ ~b.ping_outstanding
      BY <1>2, <1>7 DEF Sessions
    <3> HIDE DEF b, s1
    <3>3. /\ s1 \in States /\ s1.c = b /\ s1.t = s0.t /\ s1.net = s0.net
          /\ s1.seen = s0.seen /\ s1.closed = s0.closed /\ s1.rc = s0.rc
      BY <1>7, <3>1, <3>2, SetSession
    <3>4. TablesFit(s1)
      BY <1>7, <1>8, <3>2, <3>3 DEF TablesFit, Good
    <3>5. PingFits(s1)
      BY <1>7, <1>8, <3>2, <3>3 DEF PingFits, Good
    <3>6. Adds(net.up, net.up, r.p)
      BY <1>2, AddsNothing
    <3> QED
      BY <1>3, <1>7, <3>2, <3>3, <3>4, <3>5, <3>6 DEF Same, Good
  <2>4. CASE r.type \notin {PUBLISH, PUBREC, PUBREL, PINGRESP}
    <3>1. s1 = s0
      BY <2>4
    <3>2. Adds(net.up, net.up, r.p)
      BY <1>2, AddsNothing
    <3> QED
      BY <1>3, <1>7, <1>8, <3>1, <3>2 DEF Same
  <2> QED
    BY <2>1, <2>2, <2>3, <2>4
<1>10. ASSUME r.type \in Handled
       PROVE  /\ Good(s2) /\ Same(s0, s2) /\ Adds(net.up, s2.net.up, r.p)
              /\ s2.rc \in {SUCCESS, FAILURE}
  <2> HIDE DEF s1
  <2>1. CASE s1.rc = FAILURE
    BY <1>9, <1>10, <2>1
  <2>2. CASE s1.rc # FAILURE
    <3>1. s2 = keepalive(s1)
      BY <1>10, <2>2
    <3> HIDE DEF s2
    <3>2. /\ Good(s2) /\ Same(s1, s2) /\ Adds(net.up, s2.net.up, r.p)
          /\ s2.rc \in {SUCCESS, FAILURE}
      BY <1>2, <1>9, <1>10, <3>1, KeepaliveGood
    <3> QED
      BY <1>9, <1>10, <3>2 DEF Same
  <2> QED
    BY <2>1, <2>2
<1>11. ASSUME r.type \notin Handled
       PROVE  /\ Good(s2) /\ Same(s0, s2) /\ s2.net.up = net.up
              /\ s2.rc = r.type /\ r.type # SUCCESS
  <2>1. s2 = [s0 EXCEPT !.rc = r.type]
    BY <1>11
  <2>2. r.type # SUCCESS
    BY <1>11 DEF Handled, SUCCESS
  <2> HIDE DEF s2
  <2>3. /\ s2 \in States /\ s2.rc = r.type /\ s2.c = s0.c /\ s2.t = s0.t
        /\ s2.net = s0.net /\ s2.seen = s0.seen /\ s2.closed = s0.closed
    BY <1>3, <1>7, <2>1, SetRc
  <2>4. Good(s2)
    BY <1>8, <2>3 DEF Good, TablesFit, PingFits
  <2> QED
    BY <1>3, <1>7, <2>2, <2>3, <2>4 DEF Same
<1> HIDE DEF s1, s2
<1>12. Good(s2) /\ Same(s0, s2) /\ Adds(net.up, s2.net.up, r.p)
       /\ (r.type \notin Handled => s2.net.up = net.up)
       /\ s2.rc \in {SUCCESS, FAILURE, r.type}
       /\ (s2.rc = SUCCESS => r.type \in Handled)
       /\ (s2.rc # SUCCESS => s2.rc = FAILURE
                              \/ (s2.rc = r.type /\ r.type \notin Handled))
  <2>1. Adds(net.up, net.up, r.p) /\ SUCCESS # FAILURE
    BY <1>2, AddsNothing DEF SUCCESS, FAILURE
  <2> QED
    BY <1>10, <1>11, <2>1
<1>13. CASE s2.rc = SUCCESS
  <2>1. d = [s2 EXCEPT !.rc = r.type]
    BY <1>6, <1>13
  <2>2. /\ d \in States /\ d.rc = r.type /\ d.c = s2.c /\ d.t = s2.t
        /\ d.net = s2.net /\ d.seen = s2.seen /\ d.closed = s2.closed
    BY <1>3, <1>12, <2>1, SetRc DEF Good
  <2>3. Good(d)
    BY <1>12, <2>2 DEF Good, TablesFit, PingFits
  <2> QED
    BY <1>3, <1>7, <1>12, <1>13, <2>2, <2>3 DEF Same, Turned
<1>14. CASE s2.rc # SUCCESS /\ s2.c.isconnected
  <2>1. d = closeSession(s2)
    BY <1>6, <1>14
  <2>2. /\ Good(d) /\ ~d.c.isconnected
        /\ d.c.cleansession = s2.c.cleansession /\ d.c.next = s2.c.next
        /\ s2.c.cleansession =>
              d.c.handlers = {} /\ d.c.inflight = NoInflight
        /\ ~s2.c.cleansession =>
              d.c.handlers = s2.c.handlers /\ d.c.inflight = s2.c.inflight
        /\ d.net = s2.net /\ d.rc = s2.rc
    BY <1>12, <2>1, CloseSessionGood
  <2>3. /\ s2.c.cleansession = c.cleansession /\ s2.c.next = c.next
        /\ s2.c.handlers = c.handlers /\ s2.c.inflight = c.inflight
        /\ s2.net.link = net.link /\ s2.net.fresh = net.fresh
        /\ s2.net.down = r.net.down /\ s2.net.junk = r.net.junk
    BY <1>3, <1>7, <1>12 DEF Same
  <2> QED
    BY <1>12, <1>14, <2>2, <2>3 DEF Turned
<1>15. CASE s2.rc # SUCCESS /\ ~s2.c.isconnected
  <2>1. d = s2
    BY <1>6, <1>15
  <2> QED
    BY <1>3, <1>7, <1>12, <1>15, <2>1 DEF Same, Turned
<1> QED
  BY <1>13, <1>14, <1>15

-----------------------------------------------------------------------------
(* The types of the whole state.                                           *)

\* A call waits for the packet that answers it.
Calls ==
  [op : {"idle", "connect", "resend", "publish", "subscribe", "unsubscribe",
         "yield"},
   want : 0..15, topic : Topics \cup {0}, qos : 0..2, msg : Nat,
   cycled : BOOLEAN]
CallFits(k) ==
  /\ k \in Calls
  /\ k.op = "connect" => k.want = CONNACK
  /\ k.op \in {"publish", "resend"} =>
       k.want = PUBACK \/ (k.want = PUBCOMP /\ QOS2Build)
  /\ k.op = "subscribe" => k.want = SUBACK /\ k.topic \in Topics
  /\ k.op = "unsubscribe" => k.want = UNSUBACK /\ k.topic \in Topics

Outs == [id : Nat, qos : 0..2, msg : Nat, topic : Topics, rel : BOOLEAN]
Brokers ==
  [conn : BOOLEAN, clean : BOOLEAN, subs : SUBSET (Topics \cup {0, 1, 5, 128}),
   out : SUBSET Outs, taken : SUBSET Nat, acked : SUBSET Nat, sent : Nat]

ClientFits == Good(S) /\ CallFits(call) /\ ret.rc \in {SUCCESS, FAILURE, 5}
BrokerFits == broker \in Brokers /\ got \in [Outgoing -> 0..2]
UsedFits == used \in [connections : Nat, calls : 0..MaxCalls, faults : Nat]
TypeInv == use \in DOMAIN Uses /\ ClientFits /\ BrokerFits /\ UsedFits

\* The ways of building and using the client do not change.
LEMMA SameUse ==
  ASSUME UNCHANGED use
  PROVE  /\ Topics' = Topics /\ QOS2Build' = QOS2Build /\ KeepAlive' = KeepAlive
         /\ MAX_PACKET_ID' = MAX_PACKET_ID /\ Incoming' = Incoming
         /\ Outgoing' = Outgoing /\ MaxCalls' = MaxCalls /\ OutQoS' = OutQoS
         /\ CleanOptions' = CleanOptions
         /\ States' = States /\ Calls' = Calls /\ Brokers' = Brokers
         /\ Packets' = Packets /\ \A q : AckOf(q)' = AckOf(q)
BY DEF Topics, QOS2Build, KeepAlive, MAX_PACKET_ID, Incoming, MaxPublished,
       Outgoing, MaxCalls, States, Sessions, Timers, Nets, Packets,
       PacketFields, Calls, Brokers, Outs, AckOf, OutQoS, CleanOptions

\* A call as it starts to wait.
LEMMA WaitingCalls ==
  ASSUME NEW op \in {"connect", "resend", "publish", "subscribe",
                     "unsubscribe", "yield"},
         NEW want \in 0..15
  PROVE  /\ Waiting(op, want) \in Calls /\ Waiting(op, want).op = op
         /\ Waiting(op, want).want = want /\ Waiting(op, want).msg = 0
<1>1. Idle \in Calls /\ Idle.msg = 0
  BY DEF Idle, Calls
<1>2. Waiting(op, want) = [Idle EXCEPT !.op = op, !.want = want]
  BY DEF Waiting
<1> QED
  BY <1>1, <1>2 DEF Calls

\* What the client's functions return is what its variables become.
LEMMA ApplyGood ==
  ASSUME UNCHANGED use, NEW d, Good(d), Apply(d)
  PROVE  Good(S)'
<1>1. /\ S'.c = d.c /\ S'.t = d.t /\ S'.net = d.net /\ S'.seen = d.seen
      /\ S'.closed = d.closed /\ S'.rc = SUCCESS
  BY DEF S, Apply
<1>2. S' \in States
  BY <1>1 DEF Good, States, S, SUCCESS
<1>3. TablesFit(S)'
  BY <1>1 DEF Good, TablesFit
<1>4. PingFits(S)'
  BY <1>1, SameUse DEF Good, PingFits
<1> QED
  BY <1>2, <1>3, <1>4, SameUse DEF Good
LEMMA StayGood ==
  ASSUME UNCHANGED <<use, c, t, seen, closed>>, Good(S),
         net' \in Nets
  PROVE  Good(S)'
<1>1. /\ S'.c = S.c /\ S'.t = S.t /\ S'.net = net' /\ S'.seen = S.seen
      /\ S'.closed = S.closed /\ S'.rc = S.rc
  BY DEF S
<1>2. S' \in States
  BY DEF Good, States, S
<1>3. TablesFit(S)'
  BY <1>1 DEF Good, TablesFit
<1>4. PingFits(S)'
  BY <1>1, SameUse DEF Good, PingFits
<1> QED
  BY <1>2, <1>3, <1>4, SameUse DEF Good

\* A call that returns, and one that goes on waiting.
LEMMA ReturnFits ==
  ASSUME use \in DOMAIN Uses, UNCHANGED use, NEW op,
         NEW rc, rc \in {SUCCESS, FAILURE, 5},
         NEW d, Good(d), Return(op, rc, d)
  PROVE  ClientFits'
<1>1. Good(S)'
  BY ApplyGood DEF Return
<1>2. CallFits(Idle)
  BY DEF CallFits, Calls, Idle
<1>3. call' = Idle /\ ret' = [op |-> op, rc |-> rc]
  BY DEF Return
<1>4. CallFits(call)'
  BY <1>2, <1>3, SameUse DEF CallFits
<1> QED
  BY <1>1, <1>3, <1>4 DEF ClientFits
LEMMA WaitFits ==
  ASSUME UNCHANGED use, ClientFits, NEW k, CallFits(k),
         NEW d, Good(d), Wait(k, d)
  PROVE  ClientFits'
<1>1. Good(S)'
  BY ApplyGood DEF Wait
<1>2. call' = k /\ ret' = ret
  BY DEF Wait
<1>3. CallFits(call)'
  BY <1>2, SameUse DEF CallFits
<1> QED
  BY <1>1, <1>2, <1>3 DEF ClientFits

\* connected(): the session is there, and no ping is outstanding.
LEMMA ConnectedGood ==
  ASSUME NEW s, Good(s), NEW d, d = connected(s)
  PROVE  /\ Good(d) /\ d.c.isconnected /\ d.net = s.net
         /\ d.c.cleansession = s.c.cleansession /\ d.c.next = s.c.next
         /\ d.c.handlers = s.c.handlers /\ d.c.inflight = s.c.inflight
<1> DEFINE b == [s.c EXCEPT !.isconnected = TRUE, !.ping_outstanding = FALSE]
<1>1. s \in States /\ s.c \in Sessions
  BY DEF Good, States
<1>2. d = [s EXCEPT !.c = b]
  BY DEF connected
<1>3. /\ b \in Sessions /\ b.isconnected /\ ~b.ping_outstanding
      /\ b.cleansession = s.c.cleansession /\ b.next = s.c.next
      /\ b.handlers = s.c.handlers /\ b.inflight = s.c.inflight
      /\ b.qos2ids = s.c.qos2ids
  BY <1>1 DEF Sessions
<1> HIDE DEF b
<1>4. /\ d \in States /\ d.c = b /\ d.t = s.t /\ d.net = s.net
      /\ d.seen = s.seen /\ d.closed = s.closed /\ d.rc = s.rc
  BY <1>1, <1>2, <1>3, SetSession
<1>5. TablesFit(d)
  BY <1>3, <1>4 DEF TablesFit, Good
<1>6. PingFits(d)
  BY <1>3, <1>4 DEF PingFits, Good
<1> QED
  BY <1>3, <1>4, <1>5, <1>6 DEF Good

\* The publish in flight is done with.
LEMMA AckedGood ==
  ASSUME use \in DOMAIN Uses, NEW s, Good(s), NEW p, NEW d, d = acked(s, p)
  PROVE  /\ Good(d) /\ d.net = s.net
         /\ d.c.isconnected = s.c.isconnected
         /\ d.c.cleansession = s.c.cleansession /\ d.c.next = s.c.next
         /\ d.c.handlers = s.c.handlers
         /\ d.c.inflight.msg = s.c.inflight.msg
         /\ d.c.inflight.qos = s.c.inflight.qos
         /\ d.c.inflight.id = IF s.c.inflight.id = p.id THEN 0
                              ELSE s.c.inflight.id
<1> DEFINE f == [s.c.inflight EXCEPT !.id = 0]
           b == [s.c EXCEPT !.inflight = f]
<1>1. s \in States /\ s.c \in Sessions /\ 0 \in 0..MAX_PACKET_ID
      /\ s.c.inflight \in [id : 0..MAX_PACKET_ID, qos : 0..2, msg : Nat]
  BY UseTypes DEF Good, States, Sessions
<1>2. CASE s.c.inflight.id # p.id
  BY <1>2 DEF acked
<1>3. CASE s.c.inflight.id = p.id
  <2>1. d = [s EXCEPT !.c = b]
    BY <1>3 DEF acked
  <2>2. /\ f \in [id : 0..MAX_PACKET_ID, qos : 0..2, msg : Nat]
        /\ f.id = 0 /\ f.msg = s.c.inflight.msg /\ f.qos = s.c.inflight.qos
    BY <1>1
  <2> HIDE DEF f
  <2>3. /\ b \in Sessions /\ b.isconnected = s.c.isconnected
        /\ b.ping_outstanding = s.c.ping_outstanding
        /\ b.cleansession = s.c.cleansession /\ b.next = s.c.next
        /\ b.handlers = s.c.handlers /\ b.inflight = f
        /\ b.qos2ids = s.c.qos2ids
    BY <1>1, <2>2 DEF Sessions
  <2> HIDE DEF b
  <2>4. /\ d \in States /\ d.c = b /\ d.t = s.t /\ d.net = s.net
        /\ d.seen = s.seen /\ d.closed = s.closed /\ d.rc = s.rc
    BY <1>1, <2>1, <2>3, SetSession
  <2>5. TablesFit(d)
    BY <2>3, <2>4 DEF TablesFit, Good
  <2>6. PingFits(d)
    BY <2>3, <2>4 DEF PingFits, Good
  <2> QED
    BY <1>3, <2>2, <2>3, <2>4, <2>5, <2>6 DEF Good
<1> QED
  BY <1>2, <1>3

\* setMessageHandler(): a handler is added to a table not full, or removed.
withHandlers(s, H) == [s EXCEPT !.c.handlers = H]
LEMMA HandlersGood ==
  ASSUME use \in DOMAIN Uses, NEW s, Good(s), NEW H, H \subseteq Topics,
         IsFiniteSet(H), Cardinality(H) <= MAX_MESSAGE_HANDLERS,
         NEW d, d = withHandlers(s, H)
  PROVE  /\ Good(d) /\ d.net = s.net /\ d.rc = s.rc
         /\ d.c.isconnected = s.c.isconnected
         /\ d.c.cleansession = s.c.cleansession /\ d.c.next = s.c.next
         /\ d.c.handlers = H /\ d.c.inflight = s.c.inflight
<1> DEFINE b == [s.c EXCEPT !.handlers = H]
<1>1. s \in States /\ s.c \in Sessions
  BY DEF Good, States
<1>2. d = [s EXCEPT !.c = b]
  BY DEF withHandlers
<1>3. /\ b \in Sessions /\ b.isconnected = s.c.isconnected
      /\ b.ping_outstanding = s.c.ping_outstanding
      /\ b.cleansession = s.c.cleansession /\ b.next = s.c.next
      /\ b.handlers = H /\ b.inflight = s.c.inflight
      /\ b.qos2ids = s.c.qos2ids
  BY <1>1 DEF Sessions
<1> HIDE DEF b
<1>4. /\ d \in States /\ d.c = b /\ d.t = s.t /\ d.net = s.net
      /\ d.seen = s.seen /\ d.closed = s.closed /\ d.rc = s.rc
  BY <1>1, <1>2, <1>3, SetSession
<1>5. TablesFit(d)
  BY <1>3, <1>4 DEF TablesFit, Good
<1>6. PingFits(d)
  BY <1>3, <1>4 DEF PingFits, Good
<1> QED
  BY <1>3, <1>4, <1>5, <1>6 DEF Good
LEMMA SetHandlerGood ==
  ASSUME use \in DOMAIN Uses, NEW s, Good(s), NEW topic \in Topics,
         NEW d, d = setHandler(s, topic)
  PROVE  /\ Good(d) /\ d.net = s.net /\ d.rc \in {SUCCESS, FAILURE}
         /\ d.c.isconnected = s.c.isconnected
         /\ d.c.cleansession = s.c.cleansession /\ d.c.next = s.c.next
         /\ s.c.handlers \subseteq d.c.handlers
         /\ d.rc = SUCCESS => topic \in d.c.handlers
         /\ d.c.inflight = s.c.inflight
<1>1. s \in States /\ s.c.handlers \subseteq Topics
      /\ SUCCESS \in -2..15 /\ FAILURE \in -2..15 /\ SUCCESS # FAILURE
  BY DEF Good, States, Sessions, SUCCESS, FAILURE
<1>2. ASSUME NEW x, Good(x), NEW rc \in {SUCCESS, FAILURE},
             NEW y, y = [x EXCEPT !.rc = rc]
      PROVE  Good(y) /\ y.net = x.net /\ y.c = x.c /\ y.rc = rc
  <2>1. x \in States
    BY <1>2 DEF Good
  <2>2. /\ y \in States /\ y.rc = rc /\ y.c = x.c /\ y.t = x.t
        /\ y.net = x.net /\ y.seen = x.seen /\ y.closed = x.closed
    BY <1>1, <1>2, <2>1, SetRc
  <2> QED
    BY <1>2, <2>2 DEF Good, TablesFit, PingFits
<1>3. CASE topic \in s.c.handlers
  <2>1. d = [s EXCEPT !.rc = SUCCESS]
    BY <1>3 DEF setHandler
  <2> QED
    BY <1>2, <1>3, <2>1
<1>4. CASE topic \notin s.c.handlers
           /\ ~(Cardinality(s.c.handlers) < MAX_MESSAGE_HANDLERS)
  <2>1. d = [s EXCEPT !.rc = FAILURE]
    BY <1>4 DEF setHandler
  <2> QED
    BY <1>1, <1>2, <2>1
<1>5. CASE topic \notin s.c.handlers
           /\ Cardinality(s.c.handlers) < MAX_MESSAGE_HANDLERS
  <2> DEFINE H == s.c.handlers \cup {topic}
             x == withHandlers(s, H)
  <2>1. IsFiniteSet(s.c.handlers) /\ Cardinality(s.c.handlers) \in Nat
    BY FS_CardinalityType DEF Good, TablesFit
  <2>2. IsFiniteSet(H) /\ Cardinality(H) = Cardinality(s.c.handlers) + 1
    BY <1>5, <2>1, FS_AddElement
  <2>3. Cardinality(H) <= MAX_MESSAGE_HANDLERS
    BY <1>5, <2>1, <2>2, UseTypes
  <2>4. H \subseteq Topics /\ s.c.handlers \subseteq H /\ topic \in H
    BY <1>1
  <2>5. d = [x EXCEPT !.rc = SUCCESS]
    BY <1>5 DEF setHandler, withHandlers
  <2> HIDE DEF H
  <2>6. /\ Good(x) /\ x.net = s.net
        /\ x.c.isconnected = s.c.isconnected
        /\ x.c.cleansession = s.c.cleansession /\ x.c.next = s.c.next
        /\ x.c.handlers = H /\ x.c.inflight = s.c.inflight
    BY <2>2, <2>3, <2>4, HandlersGood
  <2> HIDE DEF x
  <2> QED
    BY <1>2, <2>4, <2>5, <2>6
<1> QED
  BY <1>3, <1>4, <1>5
LEMMA RemoveHandlerGood ==
  ASSUME use \in DOMAIN Uses, NEW s, Good(s), NEW topic,
         NEW d, d = removeHandler(s, topic)
  PROVE  /\ Good(d) /\ d.net = s.net
         /\ d.c.isconnected = s.c.isconnected
         /\ d.c.cleansession = s.c.cleansession /\ d.c.next = s.c.next
         /\ d.c.handlers = s.c.handlers \ {topic}
         /\ d.c.inflight = s.c.inflight
<1> DEFINE H == s.c.handlers \ {topic}
<1>1. s.c.handlers \subseteq Topics /\ IsFiniteSet(s.c.handlers)
      /\ Cardinality(s.c.handlers) <= MAX_MESSAGE_HANDLERS
  BY DEF Good, States, Sessions, TablesFit
<1>2. /\ IsFiniteSet(H) /\ Cardinality(H) <= Cardinality(s.c.handlers)
      /\ Cardinality(H) \in Nat /\ Cardinality(s.c.handlers) \in Nat
  BY <1>1, FS_Subset, FS_CardinalityType
<1>3. Cardinality(H) <= MAX_MESSAGE_HANDLERS /\ H \subseteq Topics
  BY <1>1, <1>2, UseTypes
<1>4. d = withHandlers(s, H)
  BY DEF removeHandler, withHandlers
<1> HIDE DEF H
<1>5. /\ Good(d) /\ d.net = s.net /\ d.rc = s.rc
      /\ d.c.isconnected = s.c.isconnected
      /\ d.c.cleansession = s.c.cleansession /\ d.c.next = s.c.next
      /\ d.c.handlers = H /\ d.c.inflight = s.c.inflight
  BY <1>2, <1>3, <1>4, HandlersGood
<1> QED
  BY <1>5 DEF H

-----------------------------------------------------------------------------
(* Every step keeps the types.                                             *)

\* connect() after CONNACK, or without it.
LEMMA EndConnectFits ==
  ASSUME use \in DOMAIN Uses, UNCHANGED use,
         NEW rc, rc \in {SUCCESS, FAILURE, 5}, NEW s, Good(s),
         EndConnect(rc, s)
  PROVE  ClientFits'
<1>1. Good(connected(s))
  BY ConnectedGood
<1>2. CASE rc = SUCCESS
  BY <1>1, <1>2, ReturnFits DEF EndConnect
<1>3. CASE rc # SUCCESS
  BY <1>3, ReturnFits DEF EndConnect
<1> QED
  BY <1>2, <1>3
LEMMA PublishAgainGood ==
  ASSUME use \in DOMAIN Uses, NEW s, Good(s), NEW id \in Nat, NEW qos \in 0..2,
         NEW msg \in Nat,
         NEW d, d = sendPacket(s, PublishPacket(id, qos, 0, msg))
  PROVE  /\ Good(d) /\ Same(s, d) /\ d.c = s.c /\ d.rc \in {SUCCESS, FAILURE}
         /\ d.rc = FAILURE <=> s.net.link = "closed"
         /\ d.net.up = IF s.net.link = "up"
                       THEN Append(s.net.up, PublishPacket(id, qos, 0, msg))
                       ELSE s.net.up
<1>1. PublishPacket(id, qos, 0, msg) \in Packets
  BY PacketTypes
<1>2. s \in States
  BY DEF Good
<1>3. /\ d \in States /\ Same(s, d) /\ d.c = s.c /\ d.closed = s.closed
      /\ d.t["ping"] = s.t["ping"] /\ d.rc \in {SUCCESS, FAILURE}
      /\ d.rc = FAILURE <=> s.net.link = "closed"
      /\ d.net.up = IF s.net.link = "up"
                    THEN Append(s.net.up, PublishPacket(id, qos, 0, msg))
                    ELSE s.net.up
  BY <1>1, <1>2, SendPacketGood
<1>4. Good(d)
  BY <1>3 DEF Good, TablesFit, PingFits
<1> QED
  BY <1>3, <1>4
LEMMA ResendFits ==
  ASSUME use \in DOMAIN Uses, UNCHANGED use, ClientFits,
         NEW rc, rc \in {SUCCESS, FAILURE, 5},
         NEW s, Good(s), NEW expired, resend(s, rc, expired)
  PROVE  ClientFits'
<1> DEFINE i == s.c.inflight
           d == sendPacket(s, PublishPacket(i.id, i.qos, 0, i.msg))
<1>1. i.id \in Nat /\ i.qos \in 0..2 /\ i.msg \in Nat
  BY UseTypes DEF Good, States, Sessions
<1>2. Good(d)
  BY <1>1, PublishAgainGood
<1>3. CASE i.id = 0
  BY <1>3, EndConnectFits DEF resend
<1>4. CASE i.id # 0 /\ (d.rc = FAILURE \/ (expired /\ AckOf(i.qos) # 0))
  <2>1. EndConnect(FAILURE, closeSession(d))
    BY <1>4 DEF resend
  <2>2. Good(closeSession(d))
    BY <1>2, CloseSessionGood
  <2> QED
    BY <2>1, <2>2, EndConnectFits
<1>5. CASE /\ i.id # 0 /\ ~(d.rc = FAILURE \/ (expired /\ AckOf(i.qos) # 0))
           /\ AckOf(i.qos) = 0
  <2>1. EndConnect(SUCCESS, d)
    BY <1>5 DEF resend
  <2> QED
    BY <1>2, <2>1, EndConnectFits
<1>6. CASE /\ i.id # 0 /\ ~(d.rc = FAILURE \/ (expired /\ AckOf(i.qos) # 0))
           /\ AckOf(i.qos) # 0
  <2> DEFINE k == [Waiting("resend", AckOf(i.qos)) EXCEPT !.msg = i.msg]
  <2>1. Wait(k, d)
    BY <1>6 DEF resend
  <2>2. AckOf(i.qos) = PUBACK \/ (AckOf(i.qos) = PUBCOMP /\ QOS2Build)
    BY <1>6 DEF AckOf
  <2>3. /\ Waiting("resend", AckOf(i.qos)) \in Calls
        /\ Waiting("resend", AckOf(i.qos)).op = "resend"
        /\ Waiting("resend", AckOf(i.qos)).want = AckOf(i.qos)
    <3>1. AckOf(i.qos) \in 0..15
      BY <2>2 DEF PUBACK, PUBCOMP
    <3> QED
      BY <3>1, WaitingCalls
  <2>4. CallFits(k)
    BY <1>1, <2>2, <2>3 DEF CallFits, Calls
  <2> HIDE DEF k, d
  <2> QED
    BY <1>2, <2>1, <2>4, WaitFits
<1> QED
  BY <1>3, <1>4, <1>5, <1>6

\* The packet waited for has come, or it has not.
LEMMA GotFits ==
  ASSUME use \in DOMAIN Uses, UNCHANGED use, ClientFits,
         NEW s, Good(s), NEW p \in Packets, p.type = call.want,
         Got(s, p)
  PROVE  ClientFits'
<1>1. CallFits(call)
  BY DEF ClientFits
<1>2. CASE call.op = "connect"
  <2>1. p.what \in {0, 5} /\ resend(s, p.what, FALSE)
    BY <1>1, <1>2 DEF CallFits, Packets, Got
  <2> QED
    BY <2>1, ResendFits DEF SUCCESS
<1>3. CASE call.op = "resend"
  <2>1. EndConnect(SUCCESS, acked(s, p))
    BY <1>3 DEF Got
  <2> QED
    BY <2>1, AckedGood, EndConnectFits
<1>4. CASE call.op = "publish"
  <2>1. Return("publish", SUCCESS, acked(s, p))
    BY <1>4 DEF Got
  <2> QED
    BY <2>1, AckedGood, ReturnFits
<1>5. CASE call.op = "subscribe"
  <2> DEFINE d == IF p.what = 128 THEN [s EXCEPT !.rc = SUCCESS]
                  ELSE setHandler(s, call.topic)
  <2>1. Return("subscribe", d.rc,
               IF d.rc = FAILURE THEN closeSession(d) ELSE d)
    BY <1>5 DEF Got, GotSuback
  <2>2. Good(d) /\ d.rc \in {SUCCESS, FAILURE}
    <3>1. CASE p.what = 128
      <4>1. d = [s EXCEPT !.rc = SUCCESS]
        BY <3>1
      <4>2. s \in States /\ SUCCESS \in -2..15
        BY DEF Good, SUCCESS
      <4> HIDE DEF d
      <4>3. /\ d \in States /\ d.rc = SUCCESS /\ d.c = s.c /\ d.t = s.t
            /\ d.net = s.net /\ d.seen = s.seen /\ d.closed = s.closed
        BY <4>1, <4>2, SetRc
      <4> QED
        BY <4>3 DEF Good, TablesFit, PingFits
    <3>2. CASE p.what # 128
      <4>1. d = setHandler(s, call.topic) /\ call.topic \in Topics
        BY <1>1, <1>5, <3>2 DEF CallFits
      <4> HIDE DEF d
      <4> QED
        BY <4>1, SetHandlerGood
    <3> QED
      BY <3>1, <3>2
  <2> HIDE DEF d
  <2>3. Good(closeSession(d))
    BY <2>2, CloseSessionGood
  <2>4. CASE d.rc = FAILURE
    BY <2>1, <2>2, <2>3, <2>4, ReturnFits
  <2>5. CASE d.rc # FAILURE
    BY <2>1, <2>2, <2>5, ReturnFits
  <2> QED
    BY <2>4, <2>5
<1>6. CASE call.op \notin {"connect", "resend", "publish", "subscribe"}
  <2>1. Return("unsubscribe", SUCCESS, removeHandler(s, call.topic))
    BY <1>6 DEF Got
  <2> QED
    BY <2>1, RemoveHandlerGood, ReturnFits
<1> QED
  BY <1>2, <1>3, <1>4, <1>5, <1>6
LEMMA MissedFits ==
  ASSUME use \in DOMAIN Uses, UNCHANGED use, ClientFits,
         NEW s, Good(s), NEW expired, Missed(s, expired)
  PROVE  ClientFits'
<1>1. Good(closeSession(s))
  BY CloseSessionGood
<1>2. CASE call.op = "connect"
  BY <1>2, ResendFits DEF Missed
<1>3. CASE call.op = "resend"
  BY <1>1, <1>3, EndConnectFits DEF Missed
<1>4. CASE call.op \notin {"connect", "resend"}
  BY <1>1, <1>4, ReturnFits DEF Missed
<1> QED
  BY <1>2, <1>3, <1>4

\* One turn of the loop, and its end.
LEMMA CycleFits ==
  ASSUME TypeInv, UNCHANGED use, Cycle PROVE TypeInv'
<1>1. use \in DOMAIN Uses /\ ClientFits /\ Good(S) /\ CallFits(call)
      /\ net \in Nets
  BY DEF TypeInv, ClientFits, Good, States, S
<1>2. PICK r \in readPacket :
        LET s == cycle(r) IN
        /\ used' = [used EXCEPT !.faults = IF r.type = 1 THEN @ + 1 ELSE @]
        /\ IF call.op = "yield"
           THEN IF s.rc < 0 THEN Return("yield", FAILURE, s)
                ELSE IF r.type = 0 THEN Return("yield", SUCCESS, s)
                ELSE Wait([call EXCEPT !.cycled = TRUE], s)
           ELSE IF s.rc = call.want THEN Got(s, r.p)
                ELSE IF s.rc < 0 THEN Missed(s, FALSE)
                ELSE IF r.type = 0 THEN Missed(s, TRUE)
                ELSE Wait([call EXCEPT !.cycled = TRUE], s)
  BY DEF Cycle
<1>3. PICK s : s = cycle(r)
  OBVIOUS
<1>4. Good(s) /\ Turned(r, s)
  BY <1>1, <1>3, CycleGood
<1>5. CallFits([call EXCEPT !.cycled = TRUE])
  BY <1>1 DEF CallFits, Calls
<1>6. ClientFits'
  <2>1. CASE call.op = "yield"
    BY <1>1, <1>2, <1>3, <1>4, <1>5, <2>1, ReturnFits, WaitFits
  <2>2. CASE call.op # "yield" /\ s.rc = call.want
    <3>1. call.op # "idle" /\ call.want \in 2..14
      BY <1>1, <2>2 DEF CallFits, Calls, Cycle, CONNACK, PUBACK, PUBCOMP,
                        SUBACK, UNSUBACK
    <3>2. r.type = call.want /\ r.p \in Packets /\ r.p.type = call.want
      BY <1>1, <1>4, <2>2, <3>1, ReadGood DEF Turned, FAILURE
    <3>3. Got(s, r.p)
      BY <1>2, <1>3, <2>2
    <3> QED
      BY <1>1, <1>4, <3>2, <3>3, GotFits
  <2>3. CASE /\ call.op # "yield" /\ s.rc # call.want
             /\ s.rc < 0 \/ r.type = 0
    BY <1>1, <1>2, <1>3, <1>4, <2>3, MissedFits
  <2>4. CASE /\ call.op # "yield" /\ s.rc # call.want
             /\ ~(s.rc < 0) /\ r.type # 0
    BY <1>1, <1>2, <1>3, <1>4, <1>5, <2>4, WaitFits
  <2> QED
    BY <2>1, <2>2, <2>3, <2>4
<1>7. UsedFits'
  BY <1>2, SameUse DEF UsedFits, TypeInv
<1>8. BrokerFits'
  BY SameUse DEF BrokerFits, TypeInv, Cycle
<1> QED
  BY <1>1, <1>6, <1>7, <1>8 DEF TypeInv
LEMMA ExpireFits ==
  ASSUME TypeInv, UNCHANGED use, Expire PROVE TypeInv'
<1>1. use \in DOMAIN Uses /\ ClientFits /\ Good(S)
  BY DEF TypeInv, ClientFits
<1>2. ClientFits'
  BY <1>1, ReturnFits, MissedFits DEF Expire
<1>3. BrokerFits' /\ UsedFits'
  BY SameUse DEF BrokerFits, UsedFits, TypeInv, Expire
<1> QED
  BY <1>1, <1>2, <1>3 DEF TypeInv

\* A packet goes out at the start of a call.
LEMMA AskGood ==
  ASSUME use \in DOMAIN Uses, NEW s, Good(s), NEW p \in Packets,
         NEW d, d = sendPacket(s, p)
  PROVE  /\ Good(d) /\ Same(s, d) /\ d.c = s.c /\ d.rc \in {SUCCESS, FAILURE}
         /\ d.rc = FAILURE <=> s.net.link = "closed"
         /\ d.net.up = IF s.net.link = "up" THEN Append(s.net.up, p)
                                            ELSE s.net.up
<1>1. s \in States
  BY DEF Good
<1>2. /\ d \in States /\ Same(s, d) /\ d.c = s.c /\ d.closed = s.closed
      /\ d.t["ping"] = s.t["ping"] /\ d.rc \in {SUCCESS, FAILURE}
      /\ d.rc = FAILURE <=> s.net.link = "closed"
      /\ d.net.up = IF s.net.link = "up" THEN Append(s.net.up, p)
                                         ELSE s.net.up
  BY <1>1, SendPacketGood
<1>3. Good(d)
  BY <1>2 DEF Good, TablesFit, PingFits
<1> QED
  BY <1>2, <1>3

\* What a session and a network connection are made of.
LEMMA StateParts ==
  ASSUME Good(S)
  PROVE  /\ c \in Sessions /\ t \in Timers /\ net \in Nets
         /\ seen \in [Incoming -> 0..2]
         /\ closed \in [why : {"no", "ping"}, waited : 0..KeepAlive]
BY DEF Good, States, S

\* connect() up to the CONNECT, as a state that is sent from.
Begins(clean) ==
  [S EXCEPT !.c.cleansession = clean, !.net.fresh = FALSE, !.closed.why = "no"]
LEMMA BeginsGood ==
  ASSUME use \in DOMAIN Uses, Good(S), NEW clean \in BOOLEAN,
         NEW s, s = Begins(clean)
  PROVE  /\ Good(s) /\ s.c.cleansession = clean
         /\ s.c.isconnected = c.isconnected /\ s.c.next = c.next
         /\ s.c.handlers = c.handlers /\ s.c.inflight = c.inflight
         /\ s.net.link = net.link /\ s.net.up = net.up
         /\ s.net.down = net.down /\ ~s.net.fresh
<1> DEFINE b == [c EXCEPT !.cleansession = clean]
           n == [net EXCEPT !.fresh = FALSE]
           f == [closed EXCEPT !.why = "no"]
           x == [S EXCEPT !.c = b]
           y == [x EXCEPT !.net = n]
<1>1. /\ S \in States /\ S.c = c /\ S.t = t /\ S.net = net /\ S.seen = seen
      /\ S.closed = closed /\ S.rc = SUCCESS
  BY DEF Good, S
<1>2. /\ b \in Sessions /\ b.isconnected = c.isconnected
      /\ b.ping_outstanding = c.ping_outstanding
      /\ b.cleansession = clean /\ b.next = c.next
      /\ b.handlers = c.handlers /\ b.inflight = c.inflight
      /\ b.qos2ids = c.qos2ids
  BY StateParts DEF Sessions
<1>3. /\ n \in Nets /\ n.link = net.link /\ n.up = net.up
      /\ n.down = net.down /\ ~n.fresh
  BY StateParts DEF Nets
<1>4. f \in [why : {"no", "ping"}, waited : 0..KeepAlive]
      /\ f.why = "no" /\ f.waited = closed.waited
  BY StateParts
<1>5. s = [y EXCEPT !.closed = f]
  <2>1. s = [[[S EXCEPT !.c = [S.c EXCEPT !.cleansession = clean]]
               EXCEPT !.net = [S.net EXCEPT !.fresh = FALSE]]
              EXCEPT !.closed = [S.closed EXCEPT !.why = "no"]]
    BY DEF Begins, S
  <2> QED
    BY <1>1, <2>1
<1> HIDE DEF b, n, f
<1>6. /\ x \in States /\ x.c = b /\ x.t = t /\ x.net = net
      /\ x.seen = seen /\ x.closed = closed /\ x.rc = SUCCESS
  BY <1>1, <1>2, SetSession
<1> HIDE DEF x
<1>7. /\ y \in States /\ y.net = n /\ y.c = x.c /\ y.t = x.t
      /\ y.seen = x.seen /\ y.closed = x.closed /\ y.rc = x.rc
  BY <1>3, <1>6, SetNet
<1> HIDE DEF y
<1>8. /\ s \in States /\ s.closed = f /\ s.c = y.c /\ s.t = y.t
      /\ s.net = y.net /\ s.seen = y.seen /\ s.rc = y.rc
  BY <1>4, <1>5, <1>7, SetClosed
<1>9. s.c = b /\ s.net = n /\ s.closed = f /\ s.t = t
  BY <1>6, <1>7, <1>8
<1>10. TablesFit(s)
  BY <1>1, <1>2, <1>9 DEF TablesFit, Good
<1>11. PingFits(s)
  BY <1>1, <1>2, <1>4, <1>9 DEF PingFits, Good
<1> QED
  BY <1>2, <1>3, <1>8, <1>9, <1>10, <1>11 DEF Good

\* connect() sends CONNECT on a new connection, and refuses a second time.
LEMMA ConnectFits ==
  ASSUME TypeInv, UNCHANGED use, NEW clean \in CleanOptions,
         MqttConnect(clean)
  PROVE  TypeInv'
<1>1. use \in DOMAIN Uses /\ ClientFits /\ Good(S) /\ clean \in BOOLEAN
  BY UseTypes DEF TypeInv, ClientFits
<1>2. BrokerFits' /\ UsedFits'
  BY SameUse DEF BrokerFits, UsedFits, TypeInv, MqttConnect
<1>3. CASE c.isconnected
  <2>1. Return("connect", FAILURE, S)
    BY <1>3 DEF MqttConnect
  <2> QED
    BY <1>1, <1>2, <2>1, ReturnFits DEF TypeInv
<1>4. CASE ~c.isconnected
  <2> DEFINE p == Packet(CONNECT, 0, 0, IF clean THEN 1 ELSE 0)
             d == sendPacket(Begins(clean), p)
             k == Waiting("connect", CONNACK)
  <2>1. IF d.rc = FAILURE THEN EndConnect(FAILURE, d)
        ELSE Wait(k, [d EXCEPT !.t.received = KeepAlive])
    BY <1>4 DEF MqttConnect, Begins
  <2>2. p \in Packets
    BY DEF Packet, Packets, PacketFields, CONNECT, CONNACK
  <2>3. Good(Begins(clean))
    BY <1>1, BeginsGood
  <2> HIDE DEF p
  <2>4. Good(d)
    BY <1>1, <2>2, <2>3, AskGood
  <2>5. CallFits(k)
    <3>1. k \in Calls /\ k.op = "connect" /\ k.want = CONNACK
      <4>1. CONNACK \in 0..15
        BY DEF CONNACK
      <4> QED
        BY <4>1, WaitingCalls
    <3> QED
      BY <3>1 DEF CallFits
  <2> HIDE DEF d, k
  <2>6. Good([d EXCEPT !.t.received = KeepAlive])
    <3> DEFINE e == [d.t EXCEPT !.received = KeepAlive]
               x == [d EXCEPT !.t = e]
    <3>1. d \in States /\ d.t \in Timers /\ KeepAlive \in 0..KeepAlive
      BY <1>1, <2>4, UseTypes DEF Good, States
    <3>2. e \in Timers /\ e["ping"] = d.t["ping"]
      BY <3>1 DEF Timers
    <3>3. x = [d EXCEPT !.t.received = KeepAlive]
      OBVIOUS
    <3> HIDE DEF e
    <3>4. /\ x \in States /\ x.t = e /\ x.c = d.c /\ x.net = d.net
          /\ x.seen = d.seen /\ x.closed = d.closed /\ x.rc = d.rc
      BY <3>1, <3>2, SetTimers
    <3> HIDE DEF x
    <3>5. Good(x)
      BY <2>4, <3>2, <3>4 DEF Good, TablesFit, PingFits
    <3> QED
      BY <3>3, <3>5
  <2>7. ClientFits'
    <3>1. CASE d.rc = FAILURE
      BY <1>1, <2>1, <2>4, <3>1, EndConnectFits
    <3>2. CASE d.rc # FAILURE
      BY <1>1, <2>1, <2>5, <2>6, <3>2, WaitFits
    <3> QED
      BY <3>1, <3>2
  <2> QED
    BY <1>1, <1>2, <2>7 DEF TypeInv
<1> QED
  BY <1>3, <1>4

\* publish() up to the packet, as a state that is sent from.
PublishId(qos) == IF qos = 0 THEN 0 ELSE getNext(c.next)
Publishes(qos, long) ==
  [S EXCEPT !.c.next = IF qos = 0 THEN @ ELSE PublishId(qos),
     !.c.inflight = IF c.cleansession \/ long THEN @
                    ELSE [id |-> PublishId(qos), qos |-> qos,
                          msg |-> used.calls + 1]]
LEMMA NextId ==
  ASSUME use \in DOMAIN Uses, NEW n \in 0..MAX_PACKET_ID
  PROVE  getNext(n) \in 1..MAX_PACKET_ID
BY UseTypes DEF getNext
LEMMA PublishesGood ==
  ASSUME use \in DOMAIN Uses, Good(S), NEW qos \in 0..2, NEW long \in BOOLEAN,
         used.calls \in Nat, NEW s, s = Publishes(qos, long)
  PROVE  /\ Good(s) /\ s.net = net
         /\ s.c.isconnected = c.isconnected
         /\ s.c.cleansession = c.cleansession /\ s.c.handlers = c.handlers
         /\ c.cleansession \/ long => s.c.inflight = c.inflight
         /\ ~(c.cleansession \/ long) =>
              s.c.inflight = [id |-> PublishId(qos), qos |-> qos,
                              msg |-> used.calls + 1]
<1> DEFINE f == IF c.cleansession \/ long THEN c.inflight
                ELSE [id |-> PublishId(qos), qos |-> qos,
                      msg |-> used.calls + 1]
           n == IF qos = 0 THEN c.next ELSE PublishId(qos)
           b == [c EXCEPT !.next = n, !.inflight = f]
<1>1. /\ S \in States /\ S.c = c /\ S.t = t /\ S.net = net /\ S.seen = seen
      /\ S.closed = closed /\ S.rc = SUCCESS
  BY DEF Good, S
<1>2. c.next \in 0..MAX_PACKET_ID
      /\ c.inflight \in [id : 0..MAX_PACKET_ID, qos : 0..2, msg : Nat]
      /\ c.cleansession \in BOOLEAN
  BY StateParts DEF Sessions
<1>3. PublishId(qos) \in 0..MAX_PACKET_ID
  BY <1>2, NextId, UseTypes DEF PublishId
<1>4. n \in 0..MAX_PACKET_ID
      /\ f \in [id : 0..MAX_PACKET_ID, qos : 0..2, msg : Nat]
  BY <1>2, <1>3
<1>5. s = [S EXCEPT !.c = b]
  <2>1. s = [S EXCEPT !.c = [S.c EXCEPT
              !.next = IF qos = 0 THEN @ ELSE PublishId(qos),
              !.inflight = IF c.cleansession \/ long THEN @
                           ELSE [id |-> PublishId(qos), qos |-> qos,
                                 msg |-> used.calls + 1]]]
    BY DEF Publishes, S
  <2> QED
    BY <1>1, <2>1
<1> HIDE DEF n, f
<1>6. /\ b \in Sessions /\ b.isconnected = c.isconnected
      /\ b.ping_outstanding = c.ping_outstanding
      /\ b.cleansession = c.cleansession /\ b.next = n
      /\ b.handlers = c.handlers /\ b.inflight = f
      /\ b.qos2ids = c.qos2ids
  BY <1>4, StateParts DEF Sessions
<1> HIDE DEF b
<1>7. /\ s \in States /\ s.c = b /\ s.t = t /\ s.net = net
      /\ s.seen = seen /\ s.closed = closed /\ s.rc = SUCCESS
  BY <1>1, <1>5, <1>6, SetSession
<1>8. TablesFit(s)
  BY <1>1, <1>6, <1>7 DEF TablesFit, Good
<1>9. PingFits(s)
  BY <1>1, <1>6, <1>7 DEF PingFits, Good
<1> QED
  BY <1>6, <1>7, <1>8, <1>9 DEF Good, f
LEMMA PublishFits ==
  ASSUME TypeInv, UNCHANGED use, NEW qos \in OutQoS, NEW long \in BOOLEAN,
         Publish(qos, long)
  PROVE  TypeInv'
<1> DEFINE msg == used.calls + 1
           s == Publishes(qos, long)
           d == sendPacket(s, PublishPacket(PublishId(qos), qos, 0, msg))
           k == [Waiting("publish", AckOf(qos)) EXCEPT !.msg = msg, !.qos = qos]
<1>1. /\ use \in DOMAIN Uses /\ ClientFits /\ Good(S) /\ qos \in 0..2
      /\ used.calls \in Nat /\ MaxCalls \in Nat
  BY UseTypes DEF TypeInv, ClientFits, UsedFits
<1>2. /\ IF ~c.isconnected THEN Return("publish", FAILURE, S)
         ELSE IF long THEN Return("publish", FAILURE, s)
         ELSE IF d.rc = FAILURE THEN Return("publish", FAILURE, closeSession(d))
         ELSE IF AckOf(qos) = 0 THEN Return("publish", SUCCESS, d)
         ELSE Wait(k, d)
      /\ used.calls < MaxCalls
      /\ used' = [used EXCEPT !.calls = @ + 1]
  BY DEF Publish, PublishId, Publishes
<1>3. BrokerFits'
  BY SameUse DEF BrokerFits, TypeInv, Publish
<1>4. UsedFits'
  BY <1>1, <1>2, SameUse DEF UsedFits, TypeInv
<1>5. Good(s) /\ c.next \in 0..MAX_PACKET_ID
  BY <1>1, PublishesGood, StateParts DEF Sessions
<1>6. PublishId(qos) \in Nat /\ msg \in Nat
  BY <1>1, <1>5, NextId, UseTypes DEF PublishId
<1> HIDE DEF s, msg
<1>7. Good(d)
  BY <1>1, <1>5, <1>6, PublishAgainGood
<1>8. Good(closeSession(d))
  BY <1>1, <1>7, CloseSessionGood
<1>9. ASSUME AckOf(qos) # 0 PROVE CallFits(k)
  <2>1. AckOf(qos) = PUBACK \/ (AckOf(qos) = PUBCOMP /\ QOS2Build)
    BY <1>9 DEF AckOf
  <2>2. AckOf(qos) \in 0..15
    BY <2>1 DEF PUBACK, PUBCOMP
  <2>3. /\ Waiting("publish", AckOf(qos)) \in Calls
        /\ Waiting("publish", AckOf(qos)).op = "publish"
        /\ Waiting("publish", AckOf(qos)).want = AckOf(qos)
    BY <2>2, WaitingCalls
  <2> QED
    BY <1>1, <1>6, <2>1, <2>3 DEF CallFits, Calls
<1> HIDE DEF d, k
<1>10. ClientFits'
  <2>1. CASE ~c.isconnected
    BY <1>1, <1>2, <2>1, ReturnFits
  <2>2. CASE c.isconnected /\ long
    BY <1>1, <1>2, <1>5, <2>2, ReturnFits
  <2>3. CASE c.isconnected /\ ~long /\ d.rc = FAILURE
    BY <1>1, <1>2, <1>8, <2>3, ReturnFits
  <2>4. CASE c.isconnected /\ ~long /\ d.rc # FAILURE /\ AckOf(qos) = 0
    BY <1>1, <1>2, <1>7, <2>4, ReturnFits
  <2>5. CASE c.isconnected /\ ~long /\ d.rc # FAILURE /\ AckOf(qos) # 0
    BY <1>1, <1>2, <1>7, <1>9, <2>5, WaitFits
  <2> QED
    BY <2>1, <2>2, <2>3, <2>4, <2>5
<1> QED
  BY <1>1, <1>3, <1>4, <1>10 DEF TypeInv

\* subscribe() and unsubscribe().
Asks == [S EXCEPT !.c.next = getNext(c.next)]
LEMMA AsksGood ==
  ASSUME use \in DOMAIN Uses, Good(S), NEW s, s = Asks
  PROVE  /\ Good(s) /\ s.net = net
         /\ s.c.isconnected = c.isconnected
         /\ s.c.cleansession = c.cleansession /\ s.c.handlers = c.handlers
         /\ s.c.inflight = c.inflight
<1> DEFINE b == [c EXCEPT !.next = getNext(c.next)]
<1>1. /\ S \in States /\ S.c = c /\ S.t = t /\ S.net = net /\ S.seen = seen
      /\ S.closed = closed /\ S.rc = SUCCESS
  BY DEF Good, S
<1>2. c \in Sessions /\ c.next \in 0..MAX_PACKET_ID
  BY StateParts DEF Sessions
<1>3. getNext(c.next) \in 0..MAX_PACKET_ID
  BY <1>2, NextId, UseTypes
<1>4. s = [S EXCEPT !.c = b]
  BY <1>1 DEF Asks
<1>5. /\ b \in Sessions /\ b.isconnected = c.isconnected
      /\ b.ping_outstanding = c.ping_outstanding
      /\ b.cleansession = c.cleansession
      /\ b.handlers = c.handlers /\ b.inflight = c.inflight
      /\ b.qos2ids = c.qos2ids
  BY <1>2, <1>3 DEF Sessions
<1> HIDE DEF b
<1>6. /\ s \in States /\ s.c = b /\ s.t = t /\ s.net = net
      /\ s.seen = seen /\ s.closed = closed /\ s.rc = SUCCESS
  BY <1>1, <1>4, <1>5, SetSession
<1>7. TablesFit(s)
  BY <1>1, <1>5, <1>6 DEF TablesFit, Good
<1>8. PingFits(s)
  BY <1>1, <1>5, <1>6 DEF PingFits, Good
<1> QED
  BY <1>5, <1>6, <1>7, <1>8 DEF Good
LEMMA AskFits ==
  ASSUME TypeInv, UNCHANGED use, NEW topic \in Topics,
         Subscribe(topic) \/ Unsubscribe(topic)
  PROVE  TypeInv'
<1>1. PICK op, type, want :
        /\ \/ op = "subscribe" /\ type = SUBSCRIBE /\ want = SUBACK
           \/ op = "unsubscribe" /\ type = UNSUBSCRIBE /\ want = UNSUBACK
        /\ Ask(op, type, want, topic)
  BY DEF Subscribe, Unsubscribe
<1> DEFINE p == Packet(type, getNext(c.next), 0, topic)
           d == sendPacket(Asks, p)
           k == [Waiting(op, want) EXCEPT !.topic = topic]
<1>2. /\ use \in DOMAIN Uses /\ ClientFits /\ Good(S)
      /\ used.calls \in Nat /\ MaxCalls \in Nat /\ c.next \in 0..MAX_PACKET_ID
  BY StateParts, UseTypes DEF TypeInv, ClientFits, UsedFits, Sessions
<1>3. /\ IF ~c.isconnected THEN Return(op, FAILURE, closeSession(S))
         ELSE IF d.rc = FAILURE THEN Return(op, FAILURE, closeSession(d))
         ELSE Wait(k, d)
      /\ used.calls < MaxCalls
      /\ used' = [used EXCEPT !.calls = @ + 1]
  BY <1>1 DEF Ask, Asks
<1>4. BrokerFits'
  BY <1>1, SameUse DEF BrokerFits, TypeInv, Ask
<1>5. UsedFits'
  BY <1>2, <1>3, SameUse DEF UsedFits, TypeInv
<1>6. p \in Packets
  <2>1. getNext(c.next) \in Nat
    BY <1>2, NextId, UseTypes
  <2>2. type \in 0..15 /\ type # CONNACK
    BY <1>1 DEF SUBSCRIBE, UNSUBSCRIBE, CONNACK
  <2> QED
    BY <2>1, <2>2 DEF Packet, Packets, PacketFields
<1> HIDE DEF p
<1>7. Good(Asks)
  BY <1>2, AsksGood
<1>8. Good(d)
  BY <1>2, <1>6, <1>7, AskGood
<1> HIDE DEF d
<1>9. Good(closeSession(d)) /\ Good(closeSession(S))
  BY <1>2, <1>8, CloseSessionGood
<1>10. CallFits(k)
  <2>1. want \in 0..15
    BY <1>1 DEF SUBACK, UNSUBACK
  <2>2. /\ Waiting(op, want) \in Calls /\ Waiting(op, want).op = op
        /\ Waiting(op, want).want = want
    BY <1>1, <2>1, WaitingCalls
  <2> QED
    BY <1>1, <2>2 DEF CallFits, Calls
<1> HIDE DEF k
<1>11. ClientFits'
  <2>1. CASE ~c.isconnected
    BY <1>2, <1>3, <1>9, <2>1, ReturnFits
  <2>2. CASE c.isconnected /\ d.rc = FAILURE
    BY <1>2, <1>3, <1>9, <2>2, ReturnFits
  <2>3. CASE c.isconnected /\ d.rc # FAILURE
    BY <1>2, <1>3, <1>8, <1>10, <2>3, WaitFits
  <2> QED
    BY <2>1, <2>2, <2>3
<1> QED
  BY <1>2, <1>4, <1>5, <1>11 DEF TypeInv

\* The steps of the application and the clock that send nothing.
LEMMA NewNetNets == NewNet \in Nets
<1>1. <<>> \in Seq(Packets)
  OBVIOUS
<1> QED
  BY <1>1 DEF NewNet, Nets
LEMMA OpenNetworkFits ==
  ASSUME TypeInv, UNCHANGED use, OpenNetwork PROVE TypeInv'
<1>1. Good(S)'
  BY NewNetNets, StayGood DEF TypeInv, ClientFits, OpenNetwork
<1>2. CallFits(call)' /\ ret'.rc \in {SUCCESS, FAILURE, 5}
  BY SameUse DEF TypeInv, ClientFits, CallFits, OpenNetwork
<1>3. broker' \in Brokers
  BY DEF TypeInv, BrokerFits, Brokers, OpenNetwork
<1>4. BrokerFits'
  BY <1>3, SameUse DEF TypeInv, BrokerFits, OpenNetwork
<1>5. UsedFits'
  BY SameUse DEF TypeInv, UsedFits, OpenNetwork
<1> QED
  BY <1>1, <1>2, <1>4, <1>5 DEF TypeInv, ClientFits
LEMMA YieldFits ==
  ASSUME TypeInv, UNCHANGED use, Yield PROVE TypeInv'
<1>1. CallFits(Waiting("yield", 0))
  BY WaitingCalls DEF CallFits
<1>2. ClientFits'
  BY <1>1, WaitFits DEF TypeInv, ClientFits, Yield
<1>3. BrokerFits' /\ UsedFits'
  BY SameUse DEF BrokerFits, UsedFits, TypeInv, Yield
<1> QED
  BY <1>2, <1>3 DEF TypeInv
LEMMA DisconnectFits ==
  ASSUME TypeInv, UNCHANGED use, Disconnect PROVE TypeInv'
<1> DEFINE p == Packet(DISCONNECT, 0, 0, 0)
           d == sendPacket(S, p)
<1>1. use \in DOMAIN Uses /\ ClientFits /\ Good(S)
  BY DEF TypeInv, ClientFits
<1>2. p \in Packets
  BY DEF Packet, Packets, PacketFields, DISCONNECT, CONNACK
<1>3. Return("disconnect", d.rc, closeSession(d))
  BY DEF Disconnect
<1> HIDE DEF p
<1>4. Good(d) /\ d.rc \in {SUCCESS, FAILURE}
  BY <1>1, <1>2, AskGood
<1> HIDE DEF d
<1>5. Good(closeSession(d))
  BY <1>1, <1>4, CloseSessionGood
<1>6. ClientFits'
  BY <1>1, <1>3, <1>4, <1>5, ReturnFits
<1>7. BrokerFits' /\ UsedFits'
  BY SameUse DEF BrokerFits, UsedFits, TypeInv, Disconnect
<1> QED
  BY <1>1, <1>6, <1>7 DEF TypeInv

\* A tick takes as much from the ping's time as it adds to its wait.
LEMMA TickFits ==
  ASSUME TypeInv, UNCHANGED use, Tick PROVE TypeInv'
<1>1. Good(S) /\ KeepAlive \in Nat /\ t \in Timers /\ c \in Sessions
      /\ closed \in [why : {"no", "ping"}, waited : 0..KeepAlive]
  BY StateParts, UseTypes DEF TypeInv, ClientFits
<1>2. /\ S'.c = S.c /\ S'.t = t' /\ S'.net = S.net /\ S'.seen = S.seen
      /\ S'.closed = closed' /\ S'.rc = S.rc
      /\ S.c = c /\ S.t = t /\ S.closed = closed
  BY DEF S, Tick
<1>3. /\ t' \in Timers
      /\ t'["ping"] = IF t["ping"] = 0 THEN 0 ELSE t["ping"] - 1
      /\ t["ping"] \in Nat
  <2>1. /\ DOMAIN t = {"sent", "received", "ping"}
        /\ \A k \in {"sent", "received", "ping"} : t[k] \in 0..KeepAlive
    BY <1>1 DEF Timers
  <2>2. t' = [k \in {"sent", "received", "ping"} |->
                IF t[k] = 0 THEN 0 ELSE t[k] - 1]
    BY <2>1 DEF Tick
  <2>3. \A k \in {"sent", "received", "ping"} :
          (IF t[k] = 0 THEN 0 ELSE t[k] - 1) \in 0..KeepAlive
    BY <1>1, <2>1
  <2> QED
    BY <2>1, <2>2, <2>3 DEF Timers
<1>4. /\ closed' \in [why : {"no", "ping"}, waited : 0..KeepAlive]
      /\ closed'.why = closed.why
      /\ closed'.waited = IF c.ping_outstanding /\ closed.waited < KeepAlive
                          THEN closed.waited + 1 ELSE closed.waited
  BY <1>1 DEF Tick
<1>5. S' \in States
  BY <1>1, <1>3, <1>4 DEF Good, States, S, Tick
<1>6. TablesFit(S)'
  BY <1>1, <1>2 DEF Good, TablesFit
<1>7. PingFits(S)'
  <2>1. /\ c.ping_outstanding => closed.waited + t["ping"] >= KeepAlive
        /\ closed.why = "ping" => closed.waited >= KeepAlive
        /\ closed.waited \in 0..KeepAlive
    BY <1>1, <1>2 DEF Good, PingFits
  <2>2. c.ping_outstanding => closed'.waited + t'["ping"] >= KeepAlive
    BY <1>1, <1>3, <1>4, <2>1
  <2>3. closed'.why = "ping" => closed'.waited >= KeepAlive
    BY <1>1, <1>4, <2>1
  <2> QED
    BY <1>2, <2>2, <2>3, SameUse DEF PingFits
<1>8. CallFits(call)' /\ ret'.rc \in {SUCCESS, FAILURE, 5}
  BY SameUse DEF TypeInv, ClientFits, CallFits, Tick
<1>9. BrokerFits' /\ UsedFits'
  BY SameUse DEF BrokerFits, UsedFits, TypeInv, Tick
<1> QED
  BY <1>5, <1>6, <1>7, <1>8, <1>9, SameUse DEF TypeInv, ClientFits, Good

\* What the broker and the network do not touch.
LEMMA OthersFit ==
  ASSUME TypeInv, UNCHANGED use, Others, net' \in Nets, BrokerFits', UsedFits'
  PROVE  TypeInv'
<1>1. Good(S)'
  BY StayGood DEF TypeInv, ClientFits, Others
<1>2. CallFits(call)' /\ ret'.rc \in {SUCCESS, FAILURE, 5}
  BY SameUse DEF TypeInv, ClientFits, CallFits, Others
<1> QED
  BY <1>1, <1>2 DEF TypeInv, ClientFits

\* The connection fails.
LEMMA FailsFit ==
  ASSUME TypeInv, UNCHANGED use, NEW how \in {"cut", "closed"}, Fails(how)
  PROVE  TypeInv'
<1>1. net \in Nets
  BY StateParts DEF TypeInv, ClientFits
<1>2. PICK k \in 0..Len(net.down) :
        net' = [net EXCEPT !.link = how, !.up = <<>>,
                           !.down = SubSeq(@, 1, k)]
  BY DEF Fails, Break
<1>3. net.down \in Seq(Packets) /\ <<>> \in Seq(Packets)
  BY <1>1 DEF Nets
<1>4. SubSeq(net.down, 1, k) \in Seq(Packets)
  BY <1>2, <1>3
<1>5. net' \in Nets
  BY <1>1, <1>2, <1>3, <1>4 DEF Nets
<1>6. BrokerFits'
  BY SameUse DEF BrokerFits, TypeInv, Fails, Break
<1>7. UsedFits'
  BY SameUse DEF UsedFits, TypeInv, Fails
<1> QED
  BY <1>5, <1>6, <1>7, OthersFit DEF Fails

-----------------------------------------------------------------------------
(* The broker's steps.                                                     *)

\* What the broker repeats is the publishes it keeps, or their PUBRELs.
LEMMA SendingPackets ==
  ASSUME NEW o \in Outs
  PROVE  Sending(o) \in Packets /\ Sending(o).type \in {PUBLISH, PUBREL}
<1>1. PublishPacket(o.id, o.qos, o.topic, o.msg) =
        [type |-> PUBLISH, id |-> o.id, qos |-> o.qos, what |-> o.topic,
         msg |-> o.msg]
  BY DEF PublishPacket, Packet
<1> QED
  BY <1>1 DEF Sending, Outs, Packet, Packets, PacketFields, PUBLISH, PUBREL,
              CONNACK
LEMMA ResentPackets ==
  ASSUME NEW out, out \subseteq Outs
  PROVE  /\ Resent(out) \in Seq(Packets)
         /\ \A i \in 1..Len(Resent(out)) :
              Resent(out)[i].type \in {PUBLISH, PUBREL}
<1> DEFINE ids == {o.id : o \in out}
           of(id) == CHOOSE o \in out : o.id = id
           P == {p \in Packets : p.type \in {PUBLISH, PUBREL}}
<1>1. ASSUME NEW id \in ids PROVE Sending(of(id)) \in P
  <2>1. of(id) \in out
    OBVIOUS
  <2> QED
    BY <2>1, SendingPackets
<1>2. ids # {} => (CHOOSE id \in ids : TRUE) \in ids
  OBVIOUS
<1>3. Resent(out) = CASE ids = {} -> <<>>
        [] ids = {1, 2} -> <<Sending(of(1)), Sending(of(2))>>
        [] OTHER -> <<Sending(of(CHOOSE id \in ids : TRUE))>>
  BY DEF Resent
<1> HIDE DEF ids, of
<1>4. CASE ids = {}
  <2>1. Resent(out) = <<>>
    BY <1>3, <1>4
  <2> QED
    BY <2>1
<1>5. CASE ids = {1, 2}
  <2> DEFINE x == Sending(of(1))
             y == Sending(of(2))
  <2>1. Resent(out) = <<x, y>>
    BY <1>3, <1>5
  <2>2. x \in P /\ y \in P
    BY <1>1, <1>5
  <2> HIDE DEF x, y
  <2>3. /\ <<x, y>> \in Seq(Packets) /\ Len(<<x, y>>) = 2
        /\ <<x, y>>[1] = x /\ <<x, y>>[2] = y
    BY <2>2
  <2> QED
    BY <2>1, <2>2, <2>3
<1>6. CASE ids # {} /\ ids # {1, 2}
  <2> DEFINE x == Sending(of(CHOOSE id \in ids : TRUE))
  <2>1. Resent(out) = <<x>>
    BY <1>3, <1>6
  <2>2. x \in P
    BY <1>1, <1>2, <1>6
  <2> HIDE DEF x
  <2>3. <<x>> \in Seq(Packets) /\ Len(<<x>>) = 1 /\ <<x>>[1] = x
    BY <2>2
  <2> QED
    BY <2>1, <2>2, <2>3
<1> QED
  BY <1>4, <1>5, <1>6

\* The broker takes one packet and sends some.
LEMMA AnswerNets ==
  ASSUME net \in Nets, net.up # <<>>, NEW b, NEW packets,
         packets \in Seq(Packets), Answer(b, packets)
  PROVE  /\ net' \in Nets /\ broker' = b /\ net'.link = net.link
         /\ net'.fresh = net.fresh /\ net'.up = Tail(net.up)
         /\ net'.down = net.down \o packets
<1>1. Tail(net.up) \in Seq(Packets) /\ net.down \o packets \in Seq(Packets)
  BY DEF Nets
<1> QED
  BY <1>1 DEF Nets, Answer
LEMMA AckPackets ==
  ASSUME NEW type \in {PUBACK, PUBREC, PUBREL, PUBCOMP, UNSUBACK, SUBACK,
                       CONNACK, PINGRESP},
         NEW id \in Nat
  PROVE  /\ Ack(type, id) \in Seq(Packets) /\ Len(Ack(type, id)) = 1
         /\ Ack(type, id)[1].type = type /\ Ack(type, id)[1].id = id
         /\ Ack(type, id)[1] = Packet(type, id, 0, 0)
<1>1. Packet(type, id, 0, 0) \in Packets
  BY DEF Packet, Packets, PacketFields, PUBACK, PUBREC, PUBREL, PUBCOMP,
         UNSUBACK, SUBACK, CONNACK, PINGRESP
<1> QED
  BY <1>1 DEF Ack, Packet

\* The broker's state in the steps below.
LEMMA AcceptsFit ==
  ASSUME net \in Nets, net.up # <<>>, broker \in Brokers, NEW p \in Packets,
         BrokerAccepts(p)
  PROVE  net' \in Nets /\ broker' \in Brokers /\ UNCHANGED got
<1> DEFINE b == IF p.what = 1 \/ broker.clean
                THEN [NoSession EXCEPT !.acked = broker.acked,
                                       !.sent = broker.sent]
                ELSE broker
           e == [b EXCEPT !.conn = TRUE, !.clean = (p.what = 1)]
           packets == Ack(CONNACK, 0) \o Resent(b.out)
<1>1. b \in Brokers
  <2>1. CASE p.what = 1 \/ broker.clean
    <3>1. NoSession \in Brokers
      BY DEF NoSession, Brokers
    <3>2. broker.acked \in SUBSET Nat /\ broker.sent \in Nat
      BY DEF Brokers
    <3>3. b = [NoSession EXCEPT !.acked = broker.acked, !.sent = broker.sent]
      BY <2>1
    <3> QED
      BY <3>1, <3>2, <3>3 DEF Brokers
  <2>2. CASE ~(p.what = 1 \/ broker.clean)
    BY <2>2
  <2> QED
    BY <2>1, <2>2
<1>2. Answer(e, packets) /\ UNCHANGED got
  BY DEF BrokerAccepts
<1> HIDE DEF b
<1>3. e \in Brokers
  BY <1>1 DEF Brokers
<1>4. Ack(CONNACK, 0) \in Seq(Packets) /\ Resent(b.out) \in Seq(Packets)
  BY <1>1, AckPackets, ResentPackets DEF Brokers
<1>5. packets \in Seq(Packets)
  BY <1>4
<1> HIDE DEF e, packets
<1> QED
  BY <1>2, <1>3, <1>5, AnswerNets
LEMMA TakesPublishFits ==
  ASSUME net \in Nets, net.up # <<>>, broker \in Brokers, NEW p \in Packets,
         got \in [Outgoing -> 0..2], BrokerTakesPublish(p)
  PROVE  /\ net' \in Nets /\ broker' \in Brokers
         /\ got' \in [Outgoing -> 0..2] /\ \A m \in Outgoing : got'[m] >= got[m]
<1> DEFINE b == IF p.qos = 2 THEN [broker EXCEPT !.taken = @ \cup {p.id}]
                ELSE broker
           packets == CASE p.qos = 0 -> <<>> [] p.qos = 1 -> Ack(PUBACK, p.id)
                        [] OTHER -> Ack(PUBREC, p.id)
<1>1. Answer(b, packets)
  BY DEF BrokerTakesPublish
<1>2. p.id \in Nat
  BY DEF Packets, PacketFields
<1>3. b \in Brokers
  BY <1>2 DEF Brokers
<1>4. packets \in Seq(Packets)
  <2>1. <<>> \in Seq(Packets)
    OBVIOUS
  <2>2. Ack(PUBACK, p.id) \in Seq(Packets) /\ Ack(PUBREC, p.id) \in Seq(Packets)
    BY <1>2, AckPackets
  <2> QED
    BY <2>1, <2>2
<1>5. /\ got' \in [Outgoing -> 0..2]
      /\ \A m \in Outgoing : got'[m] >= got[m]
  <2>1. CASE p.qos = 2 /\ p.id \in broker.taken
    BY <2>1 DEF BrokerTakesPublish
  <2>2. CASE ~(p.qos = 2 /\ p.id \in broker.taken) /\ p.msg \notin Outgoing
    <3>1. got' = [got EXCEPT ![p.msg] = IF @ = 2 THEN 2 ELSE @ + 1]
      BY <2>2 DEF BrokerTakesPublish
    <3>2. got' = got
      BY <2>2, <3>1
    <3> QED
      BY <3>2
  <2>3. CASE ~(p.qos = 2 /\ p.id \in broker.taken) /\ p.msg \in Outgoing
    <3> DEFINE n == IF got[p.msg] = 2 THEN 2 ELSE got[p.msg] + 1
    <3>1. got' = [got EXCEPT ![p.msg] = n]
      BY <2>3 DEF BrokerTakesPublish
    <3>2. n \in 0..2 /\ n >= got[p.msg]
      BY <2>3
    <3> HIDE DEF n
    <3> QED
      BY <2>3, <3>1, <3>2
  <2> QED
    BY <2>1, <2>2, <2>3
<1> HIDE DEF b, packets
<1> QED
  BY <1>1, <1>3, <1>4, <1>5, AnswerNets
LEMMA TakesAckFits ==
  ASSUME net \in Nets, net.up # <<>>, broker \in Brokers, NEW p \in Packets,
         BrokerTakesAck(p)
  PROVE  /\ net' \in Nets /\ broker' \in Brokers /\ UNCHANGED got
         /\ net'.link = net.link /\ net'.fresh = net.fresh
         /\ net'.up = Tail(net.up)
         /\ broker'.taken = broker.taken /\ broker'.subs = broker.subs
         /\ broker'.conn = broker.conn /\ broker'.clean = broker.clean
         /\ net'.down \in {net.down, net.down \o Ack(PUBREL, p.id)}
<1> DEFINE o == CHOOSE o \in broker.out : o.id = p.id
           ours == \E o1 \in broker.out : o1.id = p.id
           rel == [o EXCEPT !.rel = TRUE]
<1>1. ours => o \in Outs /\ rel \in Outs /\ o.msg \in Nat
  <2>1. ASSUME ours PROVE o \in broker.out
    BY <2>1
  <2> HIDE DEF o, ours
  <2>2. ours => o \in Outs
    BY <2>1 DEF Brokers
  <2> QED
    BY <2>2 DEF Outs
<1>2. p.id \in Nat /\ net.down \in Seq(Packets)
  BY DEF Packets, PacketFields, Nets
<1>3. CASE p.type = PUBREC /\ ours
  <2> DEFINE b == [broker EXCEPT !.out = (@ \ {o}) \cup {rel}]
  <2>1. Answer(b, Ack(PUBREL, p.id)) /\ UNCHANGED got
    BY <1>3 DEF BrokerTakesAck
  <2> HIDE DEF rel, o, ours
  <2>2. /\ b \in Brokers /\ b.taken = broker.taken /\ b.subs = broker.subs
        /\ b.conn = broker.conn /\ b.clean = broker.clean
    BY <1>1, <1>3 DEF Brokers
  <2>3. Ack(PUBREL, p.id) \in Seq(Packets)
    BY <1>2, AckPackets
  <2> HIDE DEF b
  <2> QED
    BY <2>1, <2>2, <2>3, AnswerNets
<1>4. CASE ~(p.type = PUBREC /\ ours)
  <2> DEFINE b == [broker EXCEPT !.out = IF ours THEN @ \ {o} ELSE @,
                       !.acked = IF ours THEN @ \cup {o.msg} ELSE @]
  <2>1. Answer(b, <<>>) /\ UNCHANGED got
    BY <1>4 DEF BrokerTakesAck
  <2> HIDE DEF rel, o, ours
  <2>2. /\ b \in Brokers /\ b.taken = broker.taken /\ b.subs = broker.subs
        /\ b.conn = broker.conn /\ b.clean = broker.clean
    <3>1. CASE ours
      <4>1. b = [broker EXCEPT !.out = broker.out \ {o},
                               !.acked = broker.acked \cup {o.msg}]
        BY <3>1
      <4> QED
        BY <1>1, <3>1, <4>1 DEF Brokers
    <3>2. CASE ~ours
      <4>1. b = [broker EXCEPT !.out = broker.out, !.acked = broker.acked]
        BY <3>2
      <4>2. b = broker
        BY <4>1 DEF Brokers
      <4> HIDE DEF b
      <4> QED
        BY <4>2
    <3> QED
      BY <3>1, <3>2
  <2>3. <<>> \in Seq(Packets) /\ net.down \o <<>> = net.down
    BY <1>2
  <2> HIDE DEF b
  <2> QED
    BY <2>1, <2>2, <2>3, AnswerNets
<1> QED
  BY <1>3, <1>4

\* Every packet that the broker may find.
LEMMA BrokerFinds ==
  ASSUME net \in Nets, NEW refuse, BrokerStep(refuse), broker \in Brokers,
         got \in [Outgoing -> 0..2]
  PROVE  /\ net' \in Nets /\ broker' \in Brokers
         /\ got' \in [Outgoing -> 0..2] /\ \A m \in Outgoing : got'[m] >= got[m]
<1> DEFINE p == Head(net.up)
<1>1. net.up # <<>> /\ p \in Packets /\ p.id \in Nat
      /\ p.what \in Topics \cup {0, 1, 5, 128}
  BY DEF BrokerStep, Nets, Packets, PacketFields
<1>2. UNCHANGED got => \A m \in Outgoing : got'[m] >= got[m]
  OBVIOUS
<1>3. \/ BrokerAccepts(p) \/ BrokerRefuses \/ BrokerConnected(p) \/ BrokerCloses
  BY DEF BrokerStep
<1> HIDE DEF p
<1>4. CASE BrokerAccepts(p)
  BY <1>1, <1>2, <1>4, AcceptsFit
<1>5. CASE BrokerRefuses
  <2>1. Packet(CONNACK, 0, 0, 5) \in Packets
    BY DEF Packet, Packets, PacketFields, CONNACK
  <2>2. net.down \o <<Packet(CONNACK, 0, 0, 5)>> \in Seq(Packets)
        /\ <<>> \in Seq(Packets)
    BY <2>1 DEF Nets
  <2>3. net' \in Nets
    BY <1>5, <2>2 DEF BrokerRefuses, Nets
  <2> QED
    BY <1>2, <1>5, <2>3 DEF BrokerRefuses
<1>6. CASE BrokerCloses
  <2>1. <<>> \in Seq(Packets)
    OBVIOUS
  <2>2. net' \in Nets
    BY <1>6, <2>1 DEF BrokerCloses, Nets
  <2> QED
    BY <1>2, <1>6, <2>2 DEF BrokerCloses
<1>7. CASE p.type = PUBLISH /\ BrokerTakesPublish(p)
  BY <1>1, <1>7, TakesPublishFits
<1>8. CASE BrokerTakesAck(p)
  <2>0. net.up # <<>> /\ p \in Packets
    BY <1>1
  <2>1. net' \in Nets /\ broker' \in Brokers /\ UNCHANGED got
    BY ONLY net \in Nets, broker \in Brokers, <2>0, <1>8, TakesAckFits
  <2> QED
    BY <1>2, <2>1
<1>9. ASSUME NEW b \in Brokers, NEW packets \in Seq(Packets),
             Answer(b, packets), UNCHANGED got
      PROVE  net' \in Nets /\ broker' \in Brokers /\ UNCHANGED got
  BY <1>1, <1>9, AnswerNets
<1>10. CASE UNCHANGED got /\ Answer([broker EXCEPT !.taken = @ \ {p.id}],
                                    Ack(PUBCOMP, p.id))
  <2>1. [broker EXCEPT !.taken = @ \ {p.id}] \in Brokers
    BY DEF Brokers
  <2> QED
    BY <1>1, <1>2, <1>9, <1>10, <2>1, AckPackets
<1>11. CASE UNCHANGED got /\ Answer([broker EXCEPT !.subs = @ \cup {p.what}],
                                    Ack(SUBACK, p.id))
  <2>1. [broker EXCEPT !.subs = @ \cup {p.what}] \in Brokers
    BY <1>1 DEF Brokers
  <2> QED
    BY <1>1, <1>2, <1>9, <1>11, <2>1, AckPackets
<1>12. CASE UNCHANGED got /\ Answer(broker, <<Packet(SUBACK, p.id, 0, 128)>>)
  <2>1. Packet(SUBACK, p.id, 0, 128) \in Packets
    BY <1>1 DEF Packet, Packets, PacketFields, SUBACK, CONNACK
  <2>2. <<Packet(SUBACK, p.id, 0, 128)>> \in Seq(Packets)
    BY <2>1
  <2> DEFINE packets == <<Packet(SUBACK, p.id, 0, 128)>>
  <2> HIDE DEF packets
  <2>3. Answer(broker, packets) /\ packets \in Seq(Packets) /\ UNCHANGED got
    BY <1>12, <2>2 DEF packets
  <2> QED
    BY <1>1, <1>2, <1>9, <2>3
<1>13. CASE UNCHANGED got /\ Answer([broker EXCEPT !.subs = @ \ {p.what}],
                                    Ack(UNSUBACK, p.id))
  <2>1. [broker EXCEPT !.subs = @ \ {p.what}] \in Brokers
    BY DEF Brokers
  <2> QED
    BY <1>1, <1>2, <1>9, <1>13, <2>1, AckPackets
<1>14. CASE UNCHANGED got /\ Answer(broker, Ack(PINGRESP, 0))
  BY <1>1, <1>2, <1>9, <1>14, AckPackets
<1> QED
  BY <1>3, <1>4, <1>5, <1>6, <1>7, <1>8, <1>10, <1>11, <1>12, <1>13, <1>14
  DEF BrokerConnected

LEMMA BrokerFit ==
  ASSUME TypeInv, UNCHANGED use, Broker PROVE TypeInv'
<1>1. net \in Nets
  BY StateParts DEF TypeInv, ClientFits
<1>2. PICK refuse : BrokerStep(refuse)
  BY DEF Broker
<1>3. /\ net' \in Nets /\ broker' \in Brokers /\ got' \in [Outgoing -> 0..2]
  BY <1>1, <1>2, BrokerFinds DEF TypeInv, BrokerFits
<1>4. BrokerFits'
  BY <1>3, SameUse DEF BrokerFits
<1>5. UsedFits'
  BY SameUse DEF UsedFits, TypeInv, Broker
<1> QED
  BY <1>3, <1>4, <1>5, OthersFit DEF Broker

\* The broker publishes a message of its own.
LEMMA PublishesNets ==
  ASSUME net \in Nets, broker \in Brokers, NEW topic \in Topics,
         NEW qos \in 0..2, NEW long \in BOOLEAN,
         BrokerPublishes(topic, qos, long)
  PROVE  /\ net' \in Nets /\ broker' \in Brokers /\ UNCHANGED got
         /\ net'.link = net.link /\ net'.fresh = net.fresh /\ net'.up = net.up
         /\ broker'.taken = broker.taken /\ broker'.subs = broker.subs
         /\ broker'.conn = broker.conn /\ broker'.clean = broker.clean
         /\ \E p \in Packets : /\ p.type \in {PUBLISH, PUBREL}
                               /\ net'.down = Append(net.down, p)
<1> DEFINE id == IF qos = 0 THEN 0
                 ELSE IF \E o \in broker.out : o.id = 1 THEN 2 ELSE 1
           o == [id |-> id, qos |-> qos, msg |-> broker.sent + 1,
                 topic |-> topic, rel |-> FALSE]
           p == IF long THEN Packet(PUBLISH, 0, TooLong, 0) ELSE Sending(o)
           b == [broker EXCEPT !.sent = @ + 1,
                               !.out = IF qos = 0 THEN @ ELSE @ \cup {o}]
<1>1. id \in Nat
  OBVIOUS
<1>2. net' = [net EXCEPT !.down = Append(@, p)] /\ broker' = b /\ UNCHANGED got
  BY DEF BrokerPublishes
<1> HIDE DEF id
<1>3. o \in Outs
  BY <1>1 DEF Outs, Brokers
<1>4. Packet(PUBLISH, 0, TooLong, 0) \in Packets
      /\ Packet(PUBLISH, 0, TooLong, 0).type = PUBLISH
  BY DEF Packet, Packets, PacketFields, PUBLISH, CONNACK, TooLong
<1>5. p \in Packets /\ p.type \in {PUBLISH, PUBREL}
  BY <1>3, <1>4, SendingPackets
<1> HIDE DEF p, o
<1>6. /\ b \in Brokers /\ b.taken = broker.taken /\ b.subs = broker.subs
      /\ b.conn = broker.conn /\ b.clean = broker.clean
  <2>1. broker.sent + 1 \in Nat /\ broker.out \cup {o} \in SUBSET Outs
    BY <1>3 DEF Brokers
  <2>2. b = [broker EXCEPT !.sent = broker.sent + 1,
                           !.out = IF qos = 0 THEN broker.out
                                   ELSE broker.out \cup {o}]
    OBVIOUS
  <2>3. (IF qos = 0 THEN broker.out ELSE broker.out \cup {o}) \in SUBSET Outs
    BY <2>1 DEF Brokers
  <2> QED
    BY <2>1, <2>2, <2>3 DEF Brokers
<1>7. Append(net.down, p) \in Seq(Packets)
  BY <1>5 DEF Nets
<1>8. /\ net' \in Nets /\ net'.down = Append(net.down, p)
      /\ net'.link = net.link /\ net'.fresh = net.fresh /\ net'.up = net.up
  BY <1>2, <1>7 DEF Nets
<1> QED
  BY <1>2, <1>5, <1>6, <1>8
LEMMA ArrivesFit ==
  ASSUME TypeInv, UNCHANGED use, NEW topic \in Topics, NEW qos \in 0..2,
         NEW long \in BOOLEAN, Arrives(topic, qos, long)
  PROVE  TypeInv'
<1>1. net \in Nets
  BY StateParts DEF TypeInv, ClientFits
<1>2. net' \in Nets /\ broker' \in Brokers /\ UNCHANGED got
  BY <1>1, PublishesNets DEF TypeInv, BrokerFits, Arrives
<1>3. BrokerFits'
  BY <1>2, SameUse DEF BrokerFits, TypeInv
<1>4. UsedFits'
  BY SameUse DEF UsedFits, TypeInv, Arrives
<1> QED
  BY <1>2, <1>3, <1>4, OthersFit DEF Arrives

LEMMA TypesKept == ASSUME TypeInv, [MqttNext]_<<mqttVars, use>> PROVE TypeInv'
<1>1. CASE UNCHANGED <<mqttVars, use>>
  <2>1. S' = S /\ UNCHANGED <<call, ret, broker, got, used, use>>
    BY <1>1 DEF mqttVars, S
  <2> QED
    BY <2>1, SameUse DEF TypeInv, ClientFits, BrokerFits, UsedFits, CallFits,
                         Good, TablesFit, PingFits
<1>2. CASE MqttNext
  <2>1. UNCHANGED use /\ InQoS \subseteq 0..2
    BY <1>2, UseTypes DEF MqttNext, TypeInv
  <2>2. CASE Cycle \/ Expire
    BY <2>1, <2>2, CycleFits, ExpireFits
  <2>3. CASE OpenNetwork \/ Yield \/ Disconnect \/ Tick
    BY <2>1, <2>3, OpenNetworkFits, YieldFits, DisconnectFits, TickFits
  <2>4. CASE Broker
    BY <2>1, <2>4, BrokerFit
  <2>5. CASE \E clean \in CleanOptions : MqttConnect(clean)
    BY <2>1, <2>5, ConnectFits
  <2>6. CASE \E qos \in OutQoS, long \in BOOLEAN : Publish(qos, long)
    BY <2>1, <2>6, PublishFits
  <2>7. CASE \E topic \in Topics : Subscribe(topic) \/ Unsubscribe(topic)
    BY <2>1, <2>7, AskFits
  <2>8. CASE \E topic \in Topics, qos \in InQoS : Arrives(topic, qos, FALSE)
    BY <2>1, <2>8, ArrivesFit
  <2>9. CASE \E topic \in Topics : 0 \in InQoS /\ Arrives(topic, 0, TRUE)
    BY <2>1, <2>9, ArrivesFit
  <2>10. CASE \E how \in {"cut", "closed"} : Fails(how)
    BY <2>1, <2>10, FailsFit
  <2> QED
    BY <1>2, <2>2, <2>3, <2>4, <2>5, <2>6, <2>7, <2>8, <2>9, <2>10
    DEF MqttNext, MqttStep
<1> QED
  BY <1>1, <1>2

\* The invariant holds before the first call.
LEMMA TypesInit == ASSUME MqttInit PROVE TypeInv
<1> DEFINE c0 == [isconnected |-> FALSE, ping_outstanding |-> FALSE,
                  cleansession |-> TRUE, handlers |-> {}, next |-> 0,
                  inflight |-> NoInflight, qos2ids |-> {}]
<1>1. use \in DOMAIN Uses /\ KeepAlive \in Nat /\ MAX_PACKET_ID \in Nat
      /\ MAX_MESSAGE_HANDLERS \in Nat /\ MAX_INCOMING_QOS2_MESSAGES \in Nat
      /\ MaxCalls \in Nat
  BY UseTypes DEF MqttInit
<1>2. c0 \in Sessions
  BY <1>1 DEF Sessions, NoInflight
<1>3. t \in Timers
  BY <1>1 DEF MqttInit, Timers
<1>4. S \in States
  BY <1>1, <1>2, <1>3, NewNetNets DEF MqttInit, S, States, SUCCESS
<1>5. TablesFit(S) /\ PingFits(S)
  <2>1. /\ S.c.handlers = {} /\ S.c.qos2ids = {} /\ ~S.c.ping_outstanding
        /\ S.closed.why = "no"
    BY DEF MqttInit, S
  <2>2. IsFiniteSet({}) /\ Cardinality({}) = 0
    BY FS_EmptySet
  <2> QED
    BY <1>1, <2>1, <2>2 DEF TablesFit, PingFits
<1>6. CallFits(call)
  BY DEF MqttInit, CallFits, Calls, Idle
<1>7. BrokerFits
  <2>1. broker \in Brokers
    BY DEF MqttInit, NoSession, Brokers
  <2> QED
    BY <2>1 DEF MqttInit, BrokerFits
<1>8. UsedFits
  BY <1>1 DEF MqttInit, UsedFits
<1> QED
  BY <1>1, <1>4, <1>5, <1>6, <1>7, <1>8
  DEF TypeInv, ClientFits, Good, MqttInit

\* The invariant, for every number of calls, messages and faults.
LEMMA TypesHold == MqttSpec => []TypeInv
BY TypesInit, TypesKept, PTL DEF MqttSpec

\* keepalive() never ends a session before the ping had its interval.
THEOREM PingsAreFair == MqttSpec => []PingHasItsInterval
<1>1. TypeInv => PingHasItsInterval
  BY DEF TypeInv, ClientFits, Good, PingFits, S, PingHasItsInterval
<1> QED
  BY <1>1, TypesHold, PTL

-----------------------------------------------------------------------------
(* What an acknowledgement means.  waitfor() takes the first packet of the *)
(* type it waits for, whatever its id; that it is the right one rests on   *)
(* what can be on the wire.                                                *)

(* Packets on their way, in one direction: none of a kind, at most one.    *)

Of(types) == {p \in Packets : p.type \in types}
With(type, what) == {p \in Of({type}) : p.what = what}
Without(type, what) == {p \in Of({type}) : p.what # what}
Lacks(q, P) == \A i \in 1..Len(q) : q[i] \notin P
Once(q, P) == \A i, j \in 1..Len(q) : q[i] \in P /\ q[j] \in P => i = j

\* What was not there is not there after the first packet was taken, or after
\* a cut, and one that was there once is not there when it was the first.
LEMMA LacksLess ==
  ASSUME NEW q, q \in Seq(Packets), NEW P, Lacks(q, P)
  PROVE  /\ q # <<>> => Lacks(Tail(q), P)
         /\ \A k \in 0..Len(q) : Lacks(SubSeq(q, 1, k), P)
<1>1. q # <<>> => /\ Len(Tail(q)) = Len(q) - 1
                  /\ \A i \in 1..(Len(q) - 1) : Tail(q)[i] = q[i + 1]
  OBVIOUS
<1>2. ASSUME NEW k \in 0..Len(q)
      PROVE  /\ Len(SubSeq(q, 1, k)) = k
             /\ \A i \in 1..k : SubSeq(q, 1, k)[i] = q[i]
  OBVIOUS
<1>3. Len(q) \in Nat
  OBVIOUS
<1> QED
  BY <1>1, <1>2, <1>3 DEF Lacks
LEMMA OnceLess ==
  ASSUME NEW q, q \in Seq(Packets), NEW P, Once(q, P)
  PROVE  /\ q # <<>> => /\ Once(Tail(q), P)
                        /\ Head(q) \in P => Lacks(Tail(q), P)
         /\ \A k \in 0..Len(q) : Once(SubSeq(q, 1, k), P)
<1>1. q # <<>> => /\ Len(Tail(q)) = Len(q) - 1 /\ Head(q) = q[1]
                  /\ \A i \in 1..(Len(q) - 1) : Tail(q)[i] = q[i + 1]
                  /\ Len(q) > 0
  OBVIOUS
<1>2. ASSUME NEW k \in 0..Len(q)
      PROVE  /\ Len(SubSeq(q, 1, k)) = k
             /\ \A i \in 1..k : SubSeq(q, 1, k)[i] = q[i]
  OBVIOUS
<1>3. Len(q) \in Nat
  OBVIOUS
<1>4. q # <<>> => Once(Tail(q), P)
  <2> SUFFICES ASSUME q # <<>>,
                      NEW i \in 1..Len(Tail(q)), NEW j \in 1..Len(Tail(q)),
                      Tail(q)[i] \in P, Tail(q)[j] \in P
               PROVE  i = j
    BY DEF Once
  <2>1. q[i + 1] \in P /\ q[j + 1] \in P
        /\ i + 1 \in 1..Len(q) /\ j + 1 \in 1..Len(q)
    BY <1>1, <1>3
  <2>2. i + 1 = j + 1
    BY <2>1 DEF Once
  <2> QED
    BY <2>2
<1>5. q # <<>> /\ Head(q) \in P => Lacks(Tail(q), P)
  <2> SUFFICES ASSUME q # <<>>, Head(q) \in P,
                      NEW i \in 1..Len(Tail(q)), Tail(q)[i] \in P
               PROVE  FALSE
    BY DEF Lacks
  <2>1. q[i + 1] \in P /\ q[1] \in P
        /\ i + 1 \in 1..Len(q) /\ 1 \in 1..Len(q)
    BY <1>1, <1>3
  <2>2. i + 1 = 1
    BY <2>1 DEF Once
  <2> QED
    BY <2>2
<1>6. \A k \in 0..Len(q) : Once(SubSeq(q, 1, k), P)
  BY <1>2, <1>3 DEF Once
<1> QED
  BY <1>4, <1>5, <1>6

\* What was not there is only there when it was sent.
LEMMA LacksMore ==
  ASSUME NEW q, q \in Seq(Packets), NEW P, Lacks(q, P)
  PROVE  /\ \A p \in Packets : p \notin P => Lacks(Append(q, p), P)
         /\ \A p \in Packets : Once(Append(q, p), P)
<1>1. ASSUME NEW p \in Packets
      PROVE  /\ Len(Append(q, p)) = Len(q) + 1 /\ Append(q, p)[Len(q) + 1] = p
             /\ \A i \in 1..Len(q) : Append(q, p)[i] = q[i]
             /\ \A i \in 1..(Len(q) + 1) : i \in 1..Len(q) \/ i = Len(q) + 1
  OBVIOUS
<1> QED
  BY <1>1 DEF Lacks, Once
LEMMA OnceMore ==
  ASSUME NEW q, q \in Seq(Packets), NEW P, Once(q, P),
         NEW p \in Packets, p \notin P
  PROVE  Once(Append(q, p), P)
<1>1. /\ Len(Append(q, p)) = Len(q) + 1 /\ Append(q, p)[Len(q) + 1] = p
      /\ \A i \in 1..Len(q) : Append(q, p)[i] = q[i]
      /\ \A i \in 1..(Len(q) + 1) : i \in 1..Len(q) \/ i = Len(q) + 1
  OBVIOUS
<1> QED
  BY <1>1 DEF Once
LEMMA ConcatParts ==
  ASSUME NEW q, q \in Seq(Packets), NEW r, r \in Seq(Packets)
  PROVE  /\ Len(q \o r) = Len(q) + Len(r)
         /\ \A i \in 1..Len(q) : (q \o r)[i] = q[i]
         /\ \A i \in 1..Len(r) : (q \o r)[Len(q) + i] = r[i]
         /\ \A i \in 1..(Len(q) + Len(r)) :
              i \in 1..Len(q) \/ (i - Len(q) \in 1..Len(r)
                                 /\ (q \o r)[i] = r[i - Len(q)])
<1>1. Len(q) \in Nat /\ Len(r) \in Nat
  OBVIOUS
<1>2. /\ Len(q \o r) = Len(q) + Len(r)
      /\ \A i \in 1..(Len(q) + Len(r)) :
           (q \o r)[i] = IF i <= Len(q) THEN q[i] ELSE r[i - Len(q)]
  OBVIOUS
<1> QED
  BY <1>1, <1>2
LEMMA LacksConcat ==
  ASSUME NEW q, q \in Seq(Packets), NEW r, r \in Seq(Packets), NEW P,
         Lacks(r, P)
  PROVE  /\ Lacks(q, P) => Lacks(q \o r, P)
         /\ Once(q, P) => Once(q \o r, P)
BY ConcatParts DEF Lacks, Once
LEMMA OnceConcat ==
  ASSUME NEW q, q \in Seq(Packets), NEW r, r \in Seq(Packets), NEW P,
         Lacks(q, P), Once(r, P)
  PROVE  Once(q \o r, P)
<1> SUFFICES ASSUME NEW i \in 1..Len(q \o r), NEW j \in 1..Len(q \o r),
                    (q \o r)[i] \in P, (q \o r)[j] \in P
             PROVE  i = j
  BY DEF Once
<1>1. Len(q) \in Nat /\ Len(r) \in Nat /\ Len(q \o r) = Len(q) + Len(r)
  BY ConcatParts
<1>2. i \notin 1..Len(q) /\ j \notin 1..Len(q)
  BY ConcatParts DEF Lacks
<1>3. /\ i - Len(q) \in 1..Len(r) /\ (q \o r)[i] = r[i - Len(q)]
      /\ j - Len(q) \in 1..Len(r) /\ (q \o r)[j] = r[j - Len(q)]
  BY <1>1, <1>2, ConcatParts
<1>4. i - Len(q) = j - Len(q)
  BY <1>3 DEF Once
<1> QED
  BY <1>1, <1>4

\* Answers are answers, whatever else is looked for.
LEMMA AddsLacks ==
  ASSUME NEW q, q \in Seq(Packets), NEW v, v \in Seq(Packets), NEW p,
         Adds(q, v, p), NEW P,
         \A x \in Packets : IsAnswer(x, p) => x \notin P
  PROVE  /\ Lacks(q, P) => Lacks(v, P)
         /\ Once(q, P) => Once(v, P)
<1>1. Len(q) \in Nat /\ Len(v) \in Nat /\ Len(v) >= Len(q)
  BY DEF Adds
<1>2. \A i \in 1..Len(v) : i \in 1..Len(q) \/ i \in (Len(q) + 1)..Len(v)
  BY <1>1
<1>3. \A i \in 1..Len(v) : v[i] \in Packets
  OBVIOUS
<1>4. \A i \in (Len(q) + 1)..Len(v) : v[i] \notin P
  <2> SUFFICES ASSUME NEW i \in (Len(q) + 1)..Len(v) PROVE v[i] \notin P
    OBVIOUS
  <2>1. i \in 1..Len(v)
    BY <1>1
  <2>2. IsAnswer(v[i], p)
    BY DEF Adds
  <2> QED
    BY <1>3, <2>1, <2>2
<1>5. \A i \in 1..Len(q) : v[i] = q[i]
  BY DEF Adds
<1>6. Lacks(q, P) => Lacks(v, P)
  BY <1>2, <1>4, <1>5 DEF Lacks
<1>7. ASSUME Once(q, P) PROVE Once(v, P)
  <2> SUFFICES ASSUME NEW i \in 1..Len(v), NEW j \in 1..Len(v),
                      v[i] \in P, v[j] \in P
               PROVE  i = j
    BY DEF Once
  <2>1. i \in 1..Len(q) /\ j \in 1..Len(q)
    BY <1>2, <1>4
  <2>2. q[i] \in P /\ q[j] \in P
    BY <1>5, <2>1
  <2> QED
    BY <1>7, <2>1, <2>2 DEF Once
<1> QED
  BY <1>6, <1>7

\* v has nothing of these types that u had not.
Less(u, v, types) ==
  \A P : (\A x \in P : x.type \in types) =>
           /\ Lacks(u, P) => Lacks(v, P)
           /\ Once(u, P) => Once(v, P)

LEMMA LessEmpty == \A u, types : Less(u, u, types) /\ Less(u, <<>>, types)
BY DEF Less, Lacks, Once
LEMMA LessChain ==
  ASSUME NEW u, NEW v, NEW w, NEW types, Less(u, v, types), Less(v, w, types)
  PROVE  Less(u, w, types)
BY DEF Less
LEMMA LessFewer ==
  ASSUME NEW u, u \in Seq(Packets), NEW types
  PROVE  /\ u # <<>> => Less(u, Tail(u), types)
         /\ \A k \in 0..Len(u) : Less(u, SubSeq(u, 1, k), types)
BY LacksLess, OnceLess DEF Less
LEMMA LessMore ==
  ASSUME NEW u, u \in Seq(Packets), NEW p \in Packets, NEW types,
         p.type \notin types
  PROVE  Less(u, Append(u, p), types)
<1> SUFFICES ASSUME NEW P, \A x \in P : x.type \in types
             PROVE  /\ Lacks(u, P) => Lacks(Append(u, p), P)
                    /\ Once(u, P) => Once(Append(u, p), P)
  BY DEF Less
<1>1. p \notin P
  OBVIOUS
<1> QED
  BY <1>1, LacksMore, OnceMore
LEMMA LessConcat ==
  ASSUME NEW u, u \in Seq(Packets), NEW r, r \in Seq(Packets), NEW types,
         \A i \in 1..Len(r) : r[i].type \notin types
  PROVE  Less(u, u \o r, types)
<1> SUFFICES ASSUME NEW P, \A x \in P : x.type \in types
             PROVE  /\ Lacks(u, P) => Lacks(u \o r, P)
                    /\ Once(u, P) => Once(u \o r, P)
  BY DEF Less
<1>1. Lacks(r, P)
  BY DEF Lacks
<1> QED
  BY <1>1, LacksConcat
LEMMA LessAdds ==
  ASSUME NEW u, u \in Seq(Packets), NEW v, v \in Seq(Packets), NEW p,
         Adds(u, v, p)
  PROVE  Less(u, v, {CONNECT, PUBLISH, SUBSCRIBE, UNSUBSCRIBE})
<1> SUFFICES ASSUME NEW P,
                    \A x \in P :
                      x.type \in {CONNECT, PUBLISH, SUBSCRIBE, UNSUBSCRIBE}
             PROVE  /\ Lacks(u, P) => Lacks(v, P)
                    /\ Once(u, P) => Once(v, P)
  BY DEF Less
<1>1. \A x \in Packets : IsAnswer(x, p) => x \notin P
  BY DEF IsAnswer, PUBACK, PUBREC, PUBREL, PUBCOMP, PINGREQ, SUBSCRIBE,
         UNSUBSCRIBE, CONNECT, PUBLISH
<1> QED
  BY <1>1, AddsLacks
LEMMA LessOf ==
  ASSUME NEW u, NEW v, NEW types, Less(u, v, types), NEW Y \in types
  PROVE  /\ Lacks(u, Of({Y})) => Lacks(v, Of({Y}))
         /\ Once(u, Of({Y})) => Once(v, Of({Y}))
         /\ \A w : Lacks(u, Without(Y, w)) => Lacks(v, Without(Y, w))
         /\ \A w : Lacks(u, With(Y, w)) => Lacks(v, With(Y, w))
<1>1. \A x \in Of({Y}) : x.type \in types
  BY DEF Of
<1>2. ASSUME NEW P, P \subseteq Of({Y})
      PROVE  /\ Lacks(u, P) => Lacks(v, P)
             /\ Once(u, P) => Once(v, P)
  <2>1. \A x \in P : x.type \in types
    BY <1>1, <1>2
  <2> QED
    BY <2>1 DEF Less
<1>3. \A w : Without(Y, w) \subseteq Of({Y}) /\ With(Y, w) \subseteq Of({Y})
  BY DEF Without, With
<1> QED
  BY <1>2, <1>3
-----------------------------------------------------------------------------
(* Subscriptions.  In a clean session the broker never holds one whose     *)
(* handler is missing; the part of the invariant that needs care is what a *)
(* SUBACK and an UNSUBACK on the wire say of the broker, and that connect()*)
(* cannot take an answer of an older session for its own.                  *)

\* A QoS 2 publish is only made by a client that waits for its PUBCOMP.
AcksAreAwaited ==
  \A u \in DOMAIN Uses : 2 \in Uses[u].outQoS => Uses[u].qos2build

\* connect() is under way.
Settling(k) == k.op \in {"connect", "resend"}

\* A new network carries nothing, and what connect() sends again has an ack.
Begun(cc, nn, k, b) ==
  /\ nn.fresh => /\ nn.up = <<>> /\ nn.down = <<>> /\ ~cc.isconnected
                 /\ k.op = "idle" /\ ~b.conn
  /\ Settling(k) => ~cc.isconnected
  /\ cc.inflight.id > 0 => AckOf(cc.inflight.qos) # 0

\* One request is under way: it, or one answer to it.
Asking(nn, ask, ack) ==
  /\ Once(nn.up, Of({ask})) /\ Once(nn.down, Of({ack}))
  /\ Lacks(nn.up, Of({ask})) \/ Lacks(nn.down, Of({ack}))
NotAsking(nn, ask, ack) == Lacks(nn.up, Of({ask})) /\ Lacks(nn.down, Of({ack}))

\* The broker has forgotten its subscriptions, or has not answered CONNECT.
Forgets(nn, b) ==
  /\ Lacks(nn.up, Without(CONNECT, 1))
  /\ \/ b.subs = {}
     \/ ~b.conn /\ Lacks(nn.down, Packets \ With(CONNACK, 5))

Subscribes(cc, nn, k, b) ==
  /\ Asking(nn, SUBSCRIBE, SUBACK)
  /\ b.subs \subseteq cc.handlers \cup {k.topic}
  /\ Lacks(nn.up, Without(SUBSCRIBE, k.topic))
  /\ Lacks(nn.up, Of({SUBSCRIBE})) \/ b.subs \subseteq cc.handlers
  /\ \/ Lacks(nn.down, With(SUBACK, 128))
     \/ b.subs \subseteq cc.handlers
Unsubscribes(cc, nn, k, b) ==
  /\ Asking(nn, UNSUBSCRIBE, UNSUBACK)
  /\ Lacks(nn.up, Without(UNSUBSCRIBE, k.topic))
  /\ Lacks(nn.down, Of({UNSUBACK})) \/ k.topic \notin b.subs

Matters(cc, k) == cc.cleansession /\ (cc.isconnected \/ Settling(k))
Asked(cc, nn, k, b) ==
  /\ k.op # "subscribe" => NotAsking(nn, SUBSCRIBE, SUBACK)
  /\ k.op # "unsubscribe" => NotAsking(nn, UNSUBSCRIBE, UNSUBACK)
  /\ Settling(k) => Forgets(nn, b)
  /\ ~Settling(k) /\ k.op # "subscribe" => b.subs \subseteq cc.handlers
  /\ k.op = "subscribe" => Subscribes(cc, nn, k, b)
  /\ k.op = "unsubscribe" => Unsubscribes(cc, nn, k, b)
SubFits(cc, nn, k, b) ==
  Begun(cc, nn, k, b) /\ (Matters(cc, k) => Asked(cc, nn, k, b))

SubInv == SubFits(c, net, call, broker)

\* What the definitions say of a use does not change.
LEMMA SubNext ==
  ASSUME UNCHANGED use, SubFits(c', net', call', broker') PROVE SubInv'
BY SameUse DEF SubInv, SubFits, Begun, Matters, Asked, Settling, Asking,
               NotAsking, Forgets, Subscribes, Unsubscribes, Of, Lacks, Once,
               With, Without
LEMMA SubReturn ==
  ASSUME UNCHANGED <<use, broker>>, NEW op, NEW rc, NEW d, Return(op, rc, d),
         SubFits(d.c, d.net, Idle, broker)
  PROVE  SubInv'
BY SubNext DEF Return, Apply
LEMMA SubWait ==
  ASSUME UNCHANGED <<use, broker>>, NEW k, NEW d, Wait(k, d),
         SubFits(d.c, d.net, k, broker)
  PROVE  SubInv'
BY SubNext DEF Wait, Apply

\* Of the call only what it does and its topic matter, and of an idle client
\* or one that yields not even that.
LEMMA SubAlike ==
  ASSUME NEW cc, NEW nn, NEW k, NEW l, NEW b, SubFits(cc, nn, k, b),
         ~nn.fresh \/ l.op = k.op,
         \/ l.op = k.op /\ l.topic = k.topic
         \/ {l.op, k.op} \subseteq {"idle", "yield", "publish"}
  PROVE  SubFits(cc, nn, l, b)
BY DEF SubFits, Begun, Matters, Asked, Settling, Subscribes, Unsubscribes

\* The state that is left when a session is closed.
LEMMA SubClosed ==
  ASSUME NEW cc, NEW nn, NEW k, NEW b, ~cc.isconnected, ~Settling(k),
         nn.fresh => /\ nn.up = <<>> /\ nn.down = <<>> /\ k.op = "idle"
                     /\ ~b.conn,
         cc.inflight.id > 0 => AckOf(cc.inflight.qos) # 0
  PROVE  SubFits(cc, nn, k, b)
BY DEF SubFits, Begun, Matters, Settling

\* Nothing that matters is added to the wires.
LEMMA AskedKept ==
  ASSUME NEW cc, NEW nn, NEW mm, NEW k, NEW b, NEW e, Asked(cc, nn, k, b),
         Less(nn.up, mm.up, {CONNECT, SUBSCRIBE, UNSUBSCRIBE}),
         Less(nn.down, mm.down, {SUBACK, UNSUBACK}),
         e.subs \subseteq b.subs,
         Settling(k) /\ Forgets(nn, b) => Forgets(mm, e)
  PROVE  Asked(cc, mm, k, e)
<1>1. /\ Lacks(nn.up, Of({SUBSCRIBE})) => Lacks(mm.up, Of({SUBSCRIBE}))
      /\ Once(nn.up, Of({SUBSCRIBE})) => Once(mm.up, Of({SUBSCRIBE}))
      /\ Lacks(nn.up, Without(SUBSCRIBE, k.topic)) =>
           Lacks(mm.up, Without(SUBSCRIBE, k.topic))
  BY LessOf
<1>2. /\ Lacks(nn.up, Of({UNSUBSCRIBE})) => Lacks(mm.up, Of({UNSUBSCRIBE}))
      /\ Once(nn.up, Of({UNSUBSCRIBE})) => Once(mm.up, Of({UNSUBSCRIBE}))
      /\ Lacks(nn.up, Without(UNSUBSCRIBE, k.topic)) =>
           Lacks(mm.up, Without(UNSUBSCRIBE, k.topic))
  BY LessOf
<1>3. /\ Lacks(nn.down, Of({SUBACK})) => Lacks(mm.down, Of({SUBACK}))
      /\ Once(nn.down, Of({SUBACK})) => Once(mm.down, Of({SUBACK}))
      /\ Lacks(nn.down, With(SUBACK, 128)) =>
           Lacks(mm.down, With(SUBACK, 128))
  BY LessOf
<1>4. /\ Lacks(nn.down, Of({UNSUBACK})) => Lacks(mm.down, Of({UNSUBACK}))
      /\ Once(nn.down, Of({UNSUBACK})) => Once(mm.down, Of({UNSUBACK}))
  BY LessOf
<1>5. NotAsking(nn, SUBSCRIBE, SUBACK) => NotAsking(mm, SUBSCRIBE, SUBACK)
  BY <1>1, <1>3 DEF NotAsking
<1>6. NotAsking(nn, UNSUBSCRIBE, UNSUBACK) =>
        NotAsking(mm, UNSUBSCRIBE, UNSUBACK)
  BY <1>2, <1>4 DEF NotAsking
<1>7. Subscribes(cc, nn, k, b) => Subscribes(cc, mm, k, e)
  BY <1>1, <1>3 DEF Subscribes, Asking
<1>8. Unsubscribes(cc, nn, k, b) => Unsubscribes(cc, mm, k, e)
  BY <1>2, <1>4 DEF Unsubscribes, Asking
<1> QED
  BY <1>5, <1>6, <1>7, <1>8 DEF Asked

\* What is sent or read while connect() waits does not undo what it rests on.
LEMMA ForgetsKept ==
  ASSUME NEW nn, NEW mm, NEW b, Forgets(nn, b),
         Less(nn.up, mm.up, {CONNECT}),
         \/ mm.down \in {nn.down, <<>>}
         \/ /\ nn.down \in Seq(Packets) /\ nn.down # <<>>
            /\ mm.down = Tail(nn.down)
  PROVE  Forgets(mm, b)
<1>1. Lacks(mm.up, Without(CONNECT, 1))
  <2>1. \A w : Lacks(nn.up, Without(CONNECT, w)) =>
                 Lacks(mm.up, Without(CONNECT, w))
    <3>1. CONNECT \in {CONNECT}
      OBVIOUS
    <3> QED
      BY <3>1, LessOf
  <2>2. Lacks(nn.up, Without(CONNECT, 1))
    BY DEF Forgets
  <2> QED
    BY <2>1, <2>2
<1>2. ASSUME NEW Q, Lacks(nn.down, Q) PROVE Lacks(mm.down, Q)
  <2>1. Lacks(<<>>, Q)
    BY DEF Lacks
  <2> QED
    BY <1>2, <2>1, LacksLess
<1> QED
  BY <1>1, <1>2 DEF Forgets

\* The part of a connection that the client and the readers see.
LEMMA WiresAre ==
  ASSUME NEW n \in Nets
  PROVE  n.up \in Seq(Packets) /\ n.down \in Seq(Packets)
BY DEF Nets

\* A packet is sent that asks for nothing.
LEMMA SubSent ==
  ASSUME NEW cc, NEW nn \in Nets, NEW mm \in Nets, NEW k, NEW b,
         SubFits(cc, nn, k, b), ~nn.fresh, ~mm.fresh,
         NEW p \in Packets, p.type \notin {CONNECT, SUBSCRIBE, UNSUBSCRIBE},
         mm.up \in {nn.up, Append(nn.up, p)}, mm.down = nn.down
  PROVE  SubFits(cc, mm, k, b)
<1>1. nn.up \in Seq(Packets) /\ p.type \notin {CONNECT}
  BY WiresAre
<1>2. /\ Less(nn.up, mm.up, {CONNECT, SUBSCRIBE, UNSUBSCRIBE})
      /\ Less(nn.up, mm.up, {CONNECT})
  BY <1>1, LessMore, LessEmpty
<1>3. Forgets(nn, b) => Forgets(mm, b)
  BY <1>2, ForgetsKept
<1>4. Asked(cc, nn, k, b) => Asked(cc, mm, k, b)
  BY <1>2, <1>3, LessEmpty, AskedKept
<1> QED
  BY <1>4 DEF SubFits, Begun

\* One turn of the loop: less on the wire, or the session is closed.
LEMMA CycleSub ==
  ASSUME TypeInv, SubInv, call.op # "idle", NEW r \in readPacket,
         NEW s, s = cycle(r)
  PROVE  /\ SubFits(s.c, s.net, call, broker) /\ ~s.net.fresh
         /\ s.c.inflight.id > 0 => AckOf(s.c.inflight.qos) # 0
         /\ s.c.isconnected => c.isconnected /\ s.c.handlers = c.handlers
         /\ Less(net.up, s.net.up, {CONNECT, SUBSCRIBE, UNSUBSCRIBE})
<1>1. use \in DOMAIN Uses /\ Good(S) /\ net \in Nets
  BY StateParts DEF TypeInv, ClientFits
<1>2. /\ Good(s) /\ Turned(r, s)
      /\ s.c.cleansession = c.cleansession
      /\ s.net.fresh = net.fresh /\ s.net.down = r.net.down
      /\ Adds(net.up, s.net.up, r.p)
  BY <1>1, CycleGood
<1>3. \/ s.net.down \in {net.down, <<>>}
      \/ net.down # <<>> /\ s.net.down = Tail(net.down)
  BY <1>1, <1>2, ReadGood
<1>4. Begun(c, net, call, broker) /\ ~net.fresh
  BY DEF SubInv, SubFits, Begun
<1>5. s.net \in Nets
  BY <1>2 DEF Good, States
<1>6. /\ s.c.isconnected => c.isconnected
      /\ s.c.isconnected => s.c.handlers = c.handlers
      /\ s.c.inflight \in {c.inflight, NoInflight}
  BY <1>2 DEF Turned
<1>7. s.c.inflight.id > 0 => AckOf(s.c.inflight.qos) # 0
  BY <1>4, <1>6 DEF Begun, NoInflight
<1>8. Begun(s.c, s.net, call, broker)
  BY <1>2, <1>4, <1>6, <1>7 DEF Begun
<1>9. net.up \in Seq(Packets) /\ s.net.up \in Seq(Packets)
      /\ net.down \in Seq(Packets)
  BY <1>1, <1>5, WiresAre
<1>10. /\ Less(net.up, s.net.up, {CONNECT, SUBSCRIBE, UNSUBSCRIBE})
       /\ Less(net.up, s.net.up, {CONNECT})
       /\ Less(net.down, s.net.down, {SUBACK, UNSUBACK})
  <2>1. Less(net.up, s.net.up, {CONNECT, PUBLISH, SUBSCRIBE, UNSUBSCRIBE})
    BY <1>2, <1>9, LessAdds
  <2>2. Less(net.down, s.net.down, {SUBACK, UNSUBACK})
    BY <1>3, <1>9, LessEmpty, LessFewer
  <2> QED
    BY <2>1, <2>2 DEF Less
<1>11. ASSUME Matters(s.c, call) PROVE Asked(s.c, s.net, call, broker)
  <2>1. Matters(c, call)
    BY <1>2, <1>6, <1>11 DEF Matters
  <2>2. Asked(c, net, call, broker)
    BY <2>1 DEF SubInv, SubFits
  <2>3. Forgets(net, broker) => Forgets(s.net, broker)
    BY <1>3, <1>9, <1>10, ForgetsKept
  <2>4. Asked(c, s.net, call, broker)
    BY <1>10, <2>2, <2>3, AskedKept
  <2>5. Settling(call) \/ s.c.handlers = c.handlers
    BY <1>6, <1>11 DEF Matters
  <2> QED
    BY <2>4, <2>5 DEF Asked, Subscribes, Unsubscribes, Settling
<1> QED
  BY <1>2, <1>4, <1>6, <1>7, <1>8, <1>10, <1>11 DEF SubFits

\* connect() ends, with the session or without it.
LEMMA EndConnectSub ==
  ASSUME UNCHANGED <<use, broker>>, use \in DOMAIN Uses, Settling(call),
         NEW rc, NEW s, Good(s), EndConnect(rc, s), ~s.net.fresh,
         SubFits(s.c, s.net, call, broker),
         rc = SUCCESS /\ s.c.cleansession => broker.subs = {}
  PROVE  SubInv'
<1> DEFINE x == connected(s)
<1>1. /\ x.net = s.net /\ x.c.inflight = s.c.inflight
      /\ x.c.cleansession = s.c.cleansession
  BY ConnectedGood
<1>2. CASE rc = SUCCESS
  <2>1. Return("connect", rc, x)
    BY <1>2 DEF EndConnect
  <2> HIDE DEF x
  <2>2. SubFits(x.c, x.net, Idle, broker)
    BY <1>1, <1>2 DEF SubFits, Begun, Matters, Asked, Settling, Idle
  <2> QED
    BY <2>1, <2>2, SubReturn
<1>3. CASE rc # SUCCESS
  <2>1. Return("connect", rc, s)
    BY <1>3 DEF EndConnect
  <2>2. SubFits(s.c, s.net, Idle, broker)
    BY DEF SubFits, Begun, Matters, Settling, Idle
  <2> QED
    BY <2>1, <2>2, SubReturn
<1> QED
  BY <1>2, <1>3

\* What publish() and connect() send.
LEMMA PublishTypes ==
  ASSUME NEW id \in Nat, NEW qos \in 0..2, NEW msg \in Nat,
         NEW p, p = PublishPacket(id, qos, 0, msg)
  PROVE  /\ p \in Packets /\ p.type = PUBLISH /\ p.id = id /\ p.qos = qos
         /\ p.msg = msg
         /\ p.type \notin {CONNECT, SUBSCRIBE, UNSUBSCRIBE}
<1>1. 0 \in 0..15 /\ qos \in 0..3 /\ 0 \in Topics \cup {0, 1, 5, 128}
  OBVIOUS
<1>2. PublishPacket(id, qos, 0, msg) =
        [type |-> PUBLISH, id |-> id, qos |-> qos, what |-> 0, msg |-> msg]
  BY DEF PublishPacket, Packet
<1> QED
  BY <1>1, <1>2
  DEF Packets, PacketFields, PUBLISH, CONNACK, CONNECT, SUBSCRIBE, UNSUBSCRIBE

\* connect() sends the publish in flight again, which always has an ack.
LEMMA ResendSub ==
  ASSUME UNCHANGED <<use, broker>>, use \in DOMAIN Uses, Settling(call),
         NEW rc, NEW s, Good(s), NEW expired, resend(s, rc, expired),
         ~s.net.fresh, SubFits(s.c, s.net, call, broker),
         rc = SUCCESS /\ s.c.cleansession => broker.subs = {}
  PROVE  SubInv'
<1> DEFINE i == s.c.inflight
           p == PublishPacket(i.id, i.qos, 0, i.msg)
           d == sendPacket(s, p)
<1>1. i.id \in Nat /\ i.qos \in 0..2 /\ i.msg \in Nat
  BY UseTypes DEF Good, States, Sessions
<1>0. p \in Packets /\ p.type \notin {CONNECT, SUBSCRIBE, UNSUBSCRIBE}
  <2> HIDE DEF i
  <2> QED
    BY <1>1, PublishTypes
<1>2. ~s.c.isconnected /\ (i.id > 0 => AckOf(i.qos) # 0)
  BY DEF SubFits, Begun
<1>3. CASE i.id = 0
  <2>1. EndConnect(rc, s)
    BY <1>3 DEF resend
  <2> QED
    BY <2>1, EndConnectSub
<1>4. /\ Good(d) /\ Same(s, d) /\ d.c = s.c
      /\ d.net.up \in {s.net.up, Append(s.net.up, p)}
  <2>0. d = sendPacket(s, p)
    OBVIOUS
  <2> HIDE DEF d, p
  <2>1. /\ Good(d) /\ Same(s, d) /\ d.c = s.c
        /\ d.net.up = IF s.net.link = "up" THEN Append(s.net.up, p)
                                           ELSE s.net.up
    BY <1>0, <2>0, AskGood
  <2> QED
    BY <2>1
<1>5. CASE i.id # 0 /\ (d.rc = FAILURE \/ (expired /\ AckOf(i.qos) # 0))
  <2> DEFINE e == closeSession(d)
  <2>1. EndConnect(FAILURE, e)
    BY <1>5 DEF resend
  <2> HIDE DEF d
  <2>2. /\ Good(e) /\ ~e.c.isconnected /\ e.net = d.net
        /\ e.c.inflight \in {d.c.inflight, NoInflight}
    BY <1>4, CloseSessionGood DEF Good, States, Sessions
  <2> HIDE DEF e
  <2>3. Return("connect", FAILURE, e)
    BY <2>1 DEF EndConnect, FAILURE, SUCCESS
  <2>4. ~e.net.fresh /\ (e.c.inflight.id > 0 => AckOf(e.c.inflight.qos) # 0)
    BY <1>2, <1>4, <2>2 DEF Same, NoInflight
  <2>5. SubFits(e.c, e.net, Idle, broker)
    BY <2>2, <2>4, SubClosed DEF Settling, Idle
  <2> QED
    BY <2>3, <2>5, SubReturn
<1>6. CASE /\ i.id # 0 /\ ~(d.rc = FAILURE \/ (expired /\ AckOf(i.qos) # 0))
           /\ AckOf(i.qos) = 0
  BY <1>1, <1>2, <1>6
<1>7. CASE /\ i.id # 0 /\ ~(d.rc = FAILURE \/ (expired /\ AckOf(i.qos) # 0))
           /\ AckOf(i.qos) # 0
  <2> DEFINE k == [Waiting("resend", AckOf(i.qos)) EXCEPT !.msg = i.msg]
  <2>1. Wait(k, d)
    BY <1>7 DEF resend
  <2>2. k.op = "resend"
    BY DEF Waiting, Idle
  <2> HIDE DEF k, d, p
  <2>4. s.net \in Nets /\ d.net \in Nets /\ ~d.net.fresh
        /\ d.net.down = s.net.down
    BY <1>4 DEF Good, States, Same
  <2>5. SubFits(d.c, d.net, call, broker)
    BY <1>0, <1>4, <2>4, SubSent
  <2>6. SubFits(d.c, d.net, k, broker)
    BY <2>2, <2>4, <2>5
    DEF SubFits, Begun, Matters, Asked, Settling
  <2> QED
    BY <2>1, <2>6, SubWait
<1> QED
  BY <1>3, <1>5, <1>6, <1>7

\* A call other than connect() ends with the session closed.
LEMMA ClosedSub ==
  ASSUME UNCHANGED <<use, broker>>, use \in DOMAIN Uses,
         NEW s, Good(s), NEW op, NEW rc, Return(op, rc, closeSession(s)),
         s.net.fresh => /\ s.net.up = <<>> /\ s.net.down = <<>>
                        /\ ~broker.conn,
         s.c.inflight.id > 0 => AckOf(s.c.inflight.qos) # 0
  PROVE  SubInv'
<1> DEFINE e == closeSession(s)
<1>1. /\ ~e.c.isconnected /\ e.net = s.net
      /\ e.c.inflight \in {s.c.inflight, NoInflight}
  BY CloseSessionGood DEF Good, States, Sessions
<1> HIDE DEF e
<1>2. e.c.inflight.id > 0 => AckOf(e.c.inflight.qos) # 0
  BY <1>1 DEF NoInflight
<1>3. SubFits(e.c, e.net, Idle, broker)
  BY <1>1, <1>2, SubClosed DEF Settling, Idle
<1> QED
  BY <1>3, SubReturn DEF e

\* The packet waited for has not come.
LEMMA MissedSub ==
  ASSUME UNCHANGED <<use, broker>>, use \in DOMAIN Uses,
         NEW s, Good(s), NEW expired, Missed(s, expired), ~s.net.fresh,
         SubFits(s.c, s.net, call, broker),
         s.c.inflight.id > 0 => AckOf(s.c.inflight.qos) # 0
  PROVE  SubInv'
<1>1. CASE call.op = "connect"
  <2>1. resend(s, FAILURE, expired) /\ Settling(call) /\ FAILURE # SUCCESS
    BY <1>1 DEF Missed, Settling, FAILURE, SUCCESS
  <2> QED
    BY <2>1, ResendSub
<1>2. CASE call.op = "resend"
  <2>1. Return("connect", FAILURE, closeSession(s))
    BY <1>2 DEF Missed, EndConnect, FAILURE, SUCCESS
  <2> QED
    BY <2>1, ClosedSub
<1>3. CASE call.op \notin {"connect", "resend"}
  <2>1. Return(call.op, FAILURE, closeSession(s))
    BY <1>3 DEF Missed
  <2> QED
    BY <2>1, ClosedSub
<1> QED
  BY <1>1, <1>2, <1>3

\* What the packet waited for says, when it comes.
LEMMA FirstIs ==
  ASSUME NEW nn \in Nets, nn.down # <<>>, NEW P, Head(nn.down) \in P
  PROVE  ~Lacks(nn.down, P)
<1>1. Len(nn.down) > 0 /\ Head(nn.down) = nn.down[1] /\ Len(nn.down) \in Nat
  BY WiresAre
<1> QED
  BY <1>1 DEF Lacks
LEMMA FirstGoes ==
  ASSUME NEW nn \in Nets, nn.down # <<>>, NEW type, Head(nn.down).type = type,
         Once(nn.down, Of({type}))
  PROVE  Lacks(Tail(nn.down), Of({type}))
<1>1. nn.down \in Seq(Packets) /\ Head(nn.down) \in Packets
  BY WiresAre
<1>2. Head(nn.down) \in Of({type})
  BY <1>1 DEF Of
<1> QED
  BY <1>1, <1>2, OnceLess

\* CONNACK or the ack of what was sent again: there are no subscriptions.
LEMMA SettledSub ==
  ASSUME TypeInv, SubInv, Settling(call), c.cleansession, net.down # <<>>,
         NEW p, p = Head(net.down), p.type # CONNACK \/ p.what # 5
  PROVE  broker.subs = {}
<1>1. net \in Nets
  BY StateParts DEF TypeInv, ClientFits
<1>2. Forgets(net, broker)
  BY DEF SubInv, SubFits, Matters, Asked
<1>3. p \in Packets \ With(CONNACK, 5)
  BY <1>1, WiresAre DEF With, Of
<1> QED
  BY <1>1, <1>2, <1>3, FirstIs DEF Forgets

\* SUBACK: the subscription it stands for is the one that is asked for.
LEMMA SubackSub ==
  ASSUME TypeInv, UNCHANGED <<use, broker>>, SubInv, call.op = "subscribe",
         net.down # <<>>, NEW p, p = Head(net.down), p.type = SUBACK,
         NEW s, Good(s), SubFits(s.c, s.net, call, broker), ~s.net.fresh,
         s.c.isconnected => c.isconnected,
         s.c.cleansession = c.cleansession,
         s.c.isconnected => s.c.handlers = c.handlers,
         s.c.inflight.id > 0 => AckOf(s.c.inflight.qos) # 0,
         Less(net.up, s.net.up, {CONNECT, SUBSCRIBE, UNSUBSCRIBE}),
         s.net.down = Tail(net.down), GotSuback(s, p)
  PROVE  SubInv'
<1> DEFINE d == IF p.what = 128 THEN [s EXCEPT !.rc = SUCCESS]
                ELSE setHandler(s, call.topic)
<1>1. use \in DOMAIN Uses /\ call.topic \in Topics /\ net \in Nets
  BY StateParts DEF TypeInv, ClientFits, CallFits
<1>2. Return("subscribe", d.rc, IF d.rc = FAILURE THEN closeSession(d) ELSE d)
  BY DEF GotSuback
<1>3. /\ Good(d) /\ d.net = s.net /\ d.rc \in {SUCCESS, FAILURE}
      /\ d.c.isconnected = s.c.isconnected
      /\ d.c.cleansession = s.c.cleansession
      /\ s.c.handlers \subseteq d.c.handlers
      /\ d.rc = SUCCESS /\ p.what # 128 => call.topic \in d.c.handlers
      /\ d.c.inflight = s.c.inflight
  <2>1. CASE p.what = 128
    <3>1. d = [s EXCEPT !.rc = SUCCESS]
      BY <2>1
    <3>2. s \in States /\ SUCCESS \in -2..15
      BY DEF Good, SUCCESS
    <3> HIDE DEF d
    <3>3. /\ d \in States /\ d.rc = SUCCESS /\ d.c = s.c /\ d.t = s.t
          /\ d.net = s.net /\ d.seen = s.seen /\ d.closed = s.closed
      BY <3>1, <3>2, SetRc
    <3> QED
      BY <2>1, <3>3 DEF Good, TablesFit, PingFits
  <2>2. CASE p.what # 128
    <3>1. d = setHandler(s, call.topic)
      BY <2>2
    <3> HIDE DEF d
    <3> QED
      BY <1>1, <2>2, <3>1, SetHandlerGood
  <2> QED
    BY <2>1, <2>2
<1> HIDE DEF d
<1>4. CASE d.rc = FAILURE
  <2>1. Return("subscribe", d.rc, closeSession(d))
    BY <1>2, <1>4
  <2> QED
    BY <1>1, <1>3, <2>1, ClosedSub
<1>5. CASE d.rc # FAILURE
  <2>1. Return("subscribe", d.rc, d)
    BY <1>2, <1>5
  <2>2. Begun(d.c, d.net, Idle, broker)
    BY <1>3 DEF Begun, Settling, Idle
  <2>3. ASSUME Matters(d.c, Idle) PROVE Asked(d.c, d.net, Idle, broker)
    <3>1. Matters(c, call) /\ Matters(s.c, call) /\ s.c.handlers = c.handlers
      BY <1>3, <2>3 DEF Matters, Settling, Idle
    <3>2. Asked(c, net, call, broker) /\ Asked(s.c, s.net, call, broker)
      BY <3>1 DEF SubInv, SubFits
    <3>3. Subscribes(c, net, call, broker)
      BY <3>2 DEF Asked
    <3>4. p \in Of({SUBACK})
      BY <1>1, WiresAre DEF Of
    <3>5. ~Lacks(net.down, Of({SUBACK}))
      BY <1>1, <3>4, FirstIs
    <3>6. Lacks(net.up, Of({SUBSCRIBE}))
      BY <3>3, <3>5 DEF Subscribes, Asking
    <3>7. Lacks(s.net.up, Of({SUBSCRIBE}))
      <4>1. SUBSCRIBE \in {CONNECT, SUBSCRIBE, UNSUBSCRIBE}
        OBVIOUS
      <4>2. Lacks(net.up, Of({SUBSCRIBE})) => Lacks(s.net.up, Of({SUBSCRIBE}))
        BY <4>1, LessOf
      <4> QED
        BY <3>6, <4>2
    <3>8. Lacks(s.net.down, Of({SUBACK}))
      BY <1>1, <3>3, FirstGoes DEF Subscribes, Asking
    <3>9. broker.subs \subseteq d.c.handlers
      <4>1. CASE p.what = 128
        <5>1. p \in With(SUBACK, 128)
          BY <3>4, <4>1 DEF With
        <5>2. ~Lacks(net.down, With(SUBACK, 128))
          BY <1>1, <5>1, FirstIs
        <5> QED
          BY <1>3, <3>1, <3>3, <5>2 DEF Subscribes
      <4>2. CASE p.what # 128
        BY <1>3, <1>5, <3>1, <3>3, <4>2 DEF Subscribes
      <4> QED
        BY <4>1, <4>2
    <3> QED
      BY <1>3, <3>2, <3>7, <3>8, <3>9
      DEF Asked, NotAsking, Settling, Idle
  <2>4. SubFits(d.c, d.net, Idle, broker)
    BY <2>2, <2>3 DEF SubFits
  <2> QED
    BY <2>1, <2>4, SubReturn
<1> QED
  BY <1>4, <1>5

\* UNSUBACK: the broker has forgotten the topic.
LEMMA UnsubackSub ==
  ASSUME TypeInv, UNCHANGED <<use, broker>>, SubInv, call.op = "unsubscribe",
         net.down # <<>>, NEW p, p = Head(net.down), p.type = UNSUBACK,
         NEW s, Good(s), SubFits(s.c, s.net, call, broker), ~s.net.fresh,
         s.c.isconnected => c.isconnected,
         s.c.cleansession = c.cleansession,
         s.c.inflight.id > 0 => AckOf(s.c.inflight.qos) # 0,
         Less(net.up, s.net.up, {CONNECT, SUBSCRIBE, UNSUBSCRIBE}),
         s.net.down = Tail(net.down),
         Return("unsubscribe", SUCCESS, removeHandler(s, call.topic))
  PROVE  SubInv'
<1> DEFINE d == removeHandler(s, call.topic)
<1>1. use \in DOMAIN Uses /\ net \in Nets
  BY StateParts DEF TypeInv, ClientFits
<1>2. /\ Good(d) /\ d.net = s.net
      /\ d.c.isconnected = s.c.isconnected
      /\ d.c.cleansession = s.c.cleansession
      /\ d.c.handlers = s.c.handlers \ {call.topic}
      /\ d.c.inflight = s.c.inflight
  BY <1>1, RemoveHandlerGood
<1> HIDE DEF d
<1>3. Begun(d.c, d.net, Idle, broker)
  BY <1>2 DEF Begun, Settling, Idle
<1>4. ASSUME Matters(d.c, Idle) PROVE Asked(d.c, d.net, Idle, broker)
  <2>1. Matters(c, call) /\ Matters(s.c, call)
    BY <1>2, <1>4 DEF Matters, Settling, Idle
  <2>2. Asked(c, net, call, broker) /\ Asked(s.c, s.net, call, broker)
    BY <2>1 DEF SubInv, SubFits
  <2>3. Unsubscribes(c, net, call, broker)
    BY <2>2 DEF Asked
  <2>4. p \in Of({UNSUBACK})
    BY <1>1, WiresAre DEF Of
  <2>5. ~Lacks(net.down, Of({UNSUBACK}))
    BY <1>1, <2>4, FirstIs
  <2>6. Lacks(net.up, Of({UNSUBSCRIBE})) /\ call.topic \notin broker.subs
    BY <2>3, <2>5 DEF Unsubscribes, Asking
  <2>7. Lacks(s.net.up, Of({UNSUBSCRIBE}))
    <3>1. UNSUBSCRIBE \in {CONNECT, SUBSCRIBE, UNSUBSCRIBE}
      OBVIOUS
    <3>2. Lacks(net.up, Of({UNSUBSCRIBE})) => Lacks(s.net.up, Of({UNSUBSCRIBE}))
      BY <3>1, LessOf
    <3> QED
      BY <2>6, <3>2
  <2>8. Lacks(s.net.down, Of({UNSUBACK}))
    BY <1>1, <2>3, FirstGoes DEF Unsubscribes, Asking
  <2>9. broker.subs \subseteq d.c.handlers
    BY <1>2, <2>2, <2>6 DEF Asked, Settling
  <2> QED
    BY <1>2, <2>2, <2>7, <2>8, <2>9
    DEF Asked, NotAsking, Settling, Idle
<1>5. SubFits(d.c, d.net, Idle, broker)
  BY <1>3, <1>4 DEF SubFits
<1> QED
  BY <1>5, SubReturn DEF d

\* One turn of the loop, and its end.
LEMMA GotSub ==
  ASSUME TypeInv, UNCHANGED <<use, broker>>, SubInv, call.op # "idle",
         call.op # "yield", NEW r \in readPacket, NEW s, s = cycle(r),
         s.rc = call.want, Got(s, r.p)
  PROVE  SubInv'
<1>1. use \in DOMAIN Uses /\ Good(S) /\ net \in Nets /\ CallFits(call)
  BY StateParts DEF TypeInv, ClientFits
<1>2. /\ Good(s) /\ Turned(r, s) /\ s.c.cleansession = c.cleansession
      /\ s.net.down = r.net.down
  BY <1>1, CycleGood
<1>3. call.want \in 2..14
  BY <1>1 DEF CallFits, Calls, CONNACK, PUBACK, PUBCOMP, SUBACK, UNSUBACK
<1>4. r.type = call.want
  BY <1>2, <1>3 DEF Turned, FAILURE
<1>5. /\ net.down # <<>> /\ r.p = Head(net.down) /\ r.p \in Packets
      /\ r.p.type = call.want /\ s.net.down = Tail(net.down)
  BY <1>1, <1>2, <1>3, <1>4, ReadGood
<1>6. /\ SubFits(s.c, s.net, call, broker) /\ ~s.net.fresh
      /\ s.c.inflight.id > 0 => AckOf(s.c.inflight.qos) # 0
      /\ s.c.isconnected => c.isconnected /\ s.c.handlers = c.handlers
      /\ Less(net.up, s.net.up, {CONNECT, SUBSCRIBE, UNSUBSCRIBE})
  BY CycleSub
<1>7. CASE call.op = "connect"
  <2>1. resend(s, r.p.what, FALSE) /\ Settling(call)
    BY <1>7 DEF Got, Settling
  <2>2. r.p.what = SUCCESS /\ s.c.cleansession => broker.subs = {}
    BY <1>2, <1>5, <2>1, SettledSub DEF SUCCESS
  <2> QED
    BY <1>1, <1>2, <1>6, <2>1, <2>2, ResendSub
<1>8. ASSUME NEW d, d = acked(s, r.p)
      PROVE  /\ Good(d) /\ SubFits(d.c, d.net, call, broker) /\ ~d.net.fresh
             /\ d.c.cleansession = s.c.cleansession
  <2>1. /\ Good(d) /\ d.net = s.net
        /\ d.c.isconnected = s.c.isconnected
        /\ d.c.cleansession = s.c.cleansession
        /\ d.c.handlers = s.c.handlers
        /\ d.c.inflight.qos = s.c.inflight.qos
        /\ d.c.inflight.id \in {0, s.c.inflight.id}
    BY <1>1, <1>2, <1>8, AckedGood
  <2>2. Begun(d.c, d.net, call, broker)
    BY <1>6, <2>1 DEF SubFits, Begun
  <2>3. Matters(d.c, call) => Asked(d.c, d.net, call, broker)
    BY <1>6, <2>1
    DEF SubFits, Matters, Asked, Subscribes, Unsubscribes
  <2> QED
    BY <1>6, <2>1, <2>2, <2>3 DEF SubFits
<1>9. CASE call.op = "resend"
  <2> DEFINE d == acked(s, r.p)
  <2>1. EndConnect(SUCCESS, d) /\ Settling(call)
    BY <1>9 DEF Got, Settling
  <2>2. r.p.type # CONNACK
    BY <1>1, <1>5, <1>9 DEF CallFits, CONNACK, PUBACK, PUBCOMP
  <2>3. s.c.cleansession => broker.subs = {}
    BY <1>2, <1>5, <2>1, <2>2, SettledSub
  <2> HIDE DEF d
  <2>4. /\ Good(d) /\ SubFits(d.c, d.net, call, broker) /\ ~d.net.fresh
        /\ d.c.cleansession = s.c.cleansession
    BY <1>8 DEF d
  <2> QED
    BY <1>1, <2>1, <2>3, <2>4, EndConnectSub
<1>10. CASE call.op = "publish"
  <2> DEFINE d == acked(s, r.p)
  <2>1. Return("publish", SUCCESS, d)
    BY <1>10 DEF Got
  <2> HIDE DEF d
  <2>2. SubFits(d.c, d.net, call, broker) /\ ~d.net.fresh
    BY <1>8 DEF d
  <2>3. SubFits(d.c, d.net, Idle, broker)
    BY <1>10, <2>2, SubAlike DEF Idle
  <2> QED
    BY <2>1, <2>3, SubReturn
<1>11. CASE call.op = "subscribe"
  <2>1. GotSuback(s, r.p) /\ r.p.type = SUBACK
    BY <1>1, <1>5, <1>11 DEF Got, CallFits
  <2> QED
    BY <1>2, <1>5, <1>6, <1>11, <2>1, SubackSub
<1>12. CASE call.op = "unsubscribe"
  <2>1. /\ Return("unsubscribe", SUCCESS, removeHandler(s, call.topic))
        /\ r.p.type = UNSUBACK
    BY <1>1, <1>5, <1>12 DEF Got, CallFits
  <2> QED
    BY <1>2, <1>5, <1>6, <1>12, <2>1, UnsubackSub
<1> QED
  BY <1>1, <1>7, <1>9, <1>10, <1>11, <1>12 DEF CallFits, Calls
LEMMA CycleSubs ==
  ASSUME TypeInv, UNCHANGED use, SubInv, Cycle PROVE SubInv'
<1>1. use \in DOMAIN Uses /\ Good(S) /\ call.op # "idle" /\ UNCHANGED broker
  BY DEF TypeInv, ClientFits, Cycle
<1>2. PICK r \in readPacket :
        LET s == cycle(r) IN
        IF call.op = "yield"
        THEN IF s.rc < 0 THEN Return("yield", FAILURE, s)
             ELSE IF r.type = 0 THEN Return("yield", SUCCESS, s)
             ELSE Wait([call EXCEPT !.cycled = TRUE], s)
        ELSE IF s.rc = call.want THEN Got(s, r.p)
             ELSE IF s.rc < 0 THEN Missed(s, FALSE)
             ELSE IF r.type = 0 THEN Missed(s, TRUE)
             ELSE Wait([call EXCEPT !.cycled = TRUE], s)
  BY DEF Cycle
<1>3. PICK s : s = cycle(r)
  OBVIOUS
<1>4. /\ SubFits(s.c, s.net, call, broker) /\ ~s.net.fresh
      /\ s.c.inflight.id > 0 => AckOf(s.c.inflight.qos) # 0
  BY <1>1, <1>3, CycleSub
<1>5. Good(s)
  BY <1>1, <1>3, CycleGood
<1>6. CASE Wait([call EXCEPT !.cycled = TRUE], s)
  <2> DEFINE k == [call EXCEPT !.cycled = TRUE]
  <2>1. k.op = call.op /\ k.topic = call.topic
    BY DEF TypeInv, ClientFits, CallFits, Calls
  <2> HIDE DEF k
  <2>2. SubFits(s.c, s.net, k, broker)
    BY <1>4, <2>1, SubAlike
  <2> QED
    BY <1>1, <1>6, <2>2, SubWait DEF k
<1>7. CASE call.op = "yield" /\ \E rc : Return("yield", rc, s)
  <2>1. SubFits(s.c, s.net, Idle, broker)
    BY <1>4, <1>7, SubAlike DEF Idle
  <2> QED
    BY <1>1, <1>7, <2>1, SubReturn
<1>8. CASE call.op # "yield" /\ s.rc = call.want /\ Got(s, r.p)
  BY <1>1, <1>3, <1>8, GotSub
<1>9. CASE Missed(s, FALSE) \/ Missed(s, TRUE)
  BY <1>1, <1>4, <1>5, <1>9, MissedSub
<1> QED
  BY <1>2, <1>3, <1>6, <1>7, <1>8, <1>9
LEMMA ExpireSub ==
  ASSUME TypeInv, UNCHANGED use, SubInv, Expire PROVE SubInv'
<1>1. /\ use \in DOMAIN Uses /\ Good(S) /\ S.c = c /\ S.net = net
      /\ UNCHANGED broker /\ ~net.fresh
      /\ c.inflight.id > 0 => AckOf(c.inflight.qos) # 0
  BY DEF TypeInv, ClientFits, Expire, S, SubInv, SubFits, Begun
<1>2. SubFits(S.c, S.net, call, broker)
  BY <1>1 DEF SubInv
<1>3. CASE call.op = "yield"
  <2>1. Return("yield", SUCCESS, S)
    BY <1>3 DEF Expire
  <2>2. SubFits(S.c, S.net, Idle, broker)
    BY <1>1, <1>2, <1>3, SubAlike DEF Idle
  <2> QED
    BY <1>1, <2>1, <2>2, SubReturn
<1>4. CASE call.op # "yield"
  <2>1. Missed(S, TRUE)
    BY <1>4 DEF Expire
  <2> QED
    BY <1>1, <1>2, <2>1, MissedSub
<1> QED
  BY <1>3, <1>4

\* The application's calls.
LEMMA AskSent ==
  ASSUME use \in DOMAIN Uses, NEW s, Good(s), NEW p \in Packets,
         NEW d, d = sendPacket(s, p)
  PROVE  /\ Good(d) /\ Same(s, d) /\ d.c = s.c
         /\ d.net.up \in {s.net.up, Append(s.net.up, p)}
<1>1. /\ Good(d) /\ Same(s, d) /\ d.c = s.c
      /\ d.net.up = IF s.net.link = "up" THEN Append(s.net.up, p)
                                         ELSE s.net.up
  BY AskGood
<1> QED
  BY <1>1
LEMMA OpenNetworkSub ==
  ASSUME TypeInv, UNCHANGED use, SubInv, OpenNetwork PROVE SubInv'
<1>1. /\ c' = c /\ call' = call /\ call.op = "idle" /\ ~c.isconnected
      /\ net' = NewNet /\ broker' = [broker EXCEPT !.conn = FALSE]
      /\ c.inflight.id > 0 => AckOf(c.inflight.qos) # 0
  BY DEF OpenNetwork, SubInv, SubFits, Begun
<1>2. net'.up = <<>> /\ net'.down = <<>>
  BY <1>1 DEF NewNet
<1>3. ~broker'.conn
  BY <1>1 DEF TypeInv, BrokerFits, Brokers
<1>4. SubFits(c', net', call', broker')
  BY <1>1, <1>2, <1>3, SubClosed DEF Settling
<1> QED
  BY <1>4, SubNext
LEMMA YieldSub ==
  ASSUME UNCHANGED use, SubInv, Yield PROVE SubInv'
<1> DEFINE k == Waiting("yield", 0)
<1>1. /\ call.op = "idle" /\ ~net.fresh /\ Wait(k, S) /\ k.op = "yield"
      /\ S.c = c /\ S.net = net /\ UNCHANGED broker
  BY DEF Yield, S, Waiting, Idle
<1> HIDE DEF k
<1>2. SubFits(S.c, S.net, k, broker)
  BY <1>1, SubAlike DEF SubInv
<1> QED
  BY <1>1, <1>2, SubWait
LEMMA DisconnectSub ==
  ASSUME TypeInv, UNCHANGED use, SubInv, Disconnect PROVE SubInv'
<1> DEFINE p == Packet(DISCONNECT, 0, 0, 0)
           d == sendPacket(S, p)
<1>1. use \in DOMAIN Uses /\ Good(S) /\ S.c = c /\ S.net = net
  BY DEF TypeInv, ClientFits, S
<1>2. p \in Packets
  BY DEF Packet, Packets, PacketFields, DISCONNECT, CONNACK
<1>3. Return("disconnect", d.rc, closeSession(d)) /\ ~net.fresh
      /\ UNCHANGED broker
  BY DEF Disconnect
<1> HIDE DEF p
<1>4. Good(d) /\ Same(S, d) /\ d.c = c
  BY <1>1, <1>2, AskGood
<1> HIDE DEF d
<1>5. c.inflight.id > 0 => AckOf(c.inflight.qos) # 0
  BY DEF SubInv, SubFits, Begun
<1> QED
  BY <1>1, <1>3, <1>4, <1>5, ClosedSub DEF Same

\* CONNECT is the first packet on a new connection.
LEMMA ConnectSub ==
  ASSUME TypeInv, UNCHANGED use, SubInv, NEW clean \in CleanOptions,
         MqttConnect(clean)
  PROVE  SubInv'
<1>1. /\ use \in DOMAIN Uses /\ Good(S) /\ clean \in BOOLEAN
      /\ S.c = c /\ S.net = net /\ UNCHANGED broker
      /\ call.op = "idle" /\ (c.isconnected \/ net.fresh)
  BY UseTypes DEF TypeInv, ClientFits, MqttConnect, S
<1>2. CASE c.isconnected
  <2>1. Return("connect", FAILURE, S)
    BY <1>2 DEF MqttConnect
  <2>2. SubFits(S.c, S.net, Idle, broker)
    BY <1>1, SubAlike DEF SubInv, Idle
  <2> QED
    BY <1>1, <2>1, <2>2, SubReturn
<1>3. CASE ~c.isconnected
  <2> DEFINE p == Packet(CONNECT, 0, 0, IF clean THEN 1 ELSE 0)
             b == Begins(clean)
             d == sendPacket(b, p)
             e == [d EXCEPT !.t.received = KeepAlive]
             k == Waiting("connect", CONNACK)
  <2>1. IF d.rc = FAILURE THEN EndConnect(FAILURE, d) ELSE Wait(k, e)
    BY <1>3 DEF MqttConnect, Begins
  <2>2. /\ p \in Packets /\ p.type = CONNECT
        /\ p.what = (IF clean THEN 1 ELSE 0)
    BY DEF Packet, Packets, PacketFields, CONNECT, CONNACK
  <2>3. /\ Good(b) /\ b.c.cleansession = clean /\ ~b.c.isconnected
        /\ b.c.inflight = c.inflight
        /\ b.net.up = net.up /\ b.net.down = net.down /\ ~b.net.fresh
    BY <1>1, <1>3, BeginsGood
  <2> HIDE DEF p, b
  <2>4. /\ Good(d) /\ Same(b, d)
        /\ d.net.up \in {b.net.up, Append(b.net.up, p)}
    BY <1>1, <2>2, <2>3, AskSent
  <2>5. e.c = d.c /\ e.net = d.net
    BY <2>4 DEF Good, States
  <2>6. k.op = "connect"
    BY DEF Waiting, Idle
  <2> HIDE DEF d, e, k
  <2>7. /\ net.up = <<>> /\ net.down = <<>> /\ ~broker.conn
        /\ c.inflight.id > 0 => AckOf(c.inflight.qos) # 0
    BY <1>1, <1>3 DEF SubInv, SubFits, Begun
  <2>8. /\ ~d.c.isconnected /\ ~d.net.fresh /\ d.net.down = <<>>
        /\ d.c.inflight = c.inflight /\ d.c.cleansession = clean
        /\ d.net.up \in {<<>>, Append(<<>>, p)}
    BY <2>3, <2>4, <2>7 DEF Same
  <2>9. CASE d.rc = FAILURE
    <3>1. Return("connect", FAILURE, d)
      BY <2>1, <2>9 DEF EndConnect, FAILURE, SUCCESS
    <3>2. SubFits(d.c, d.net, Idle, broker)
      BY <2>7, <2>8, SubClosed DEF Settling, Idle
    <3> QED
      BY <1>1, <3>1, <3>2, SubReturn
  <2>10. CASE d.rc # FAILURE
    <3>1. <<>> \in Seq(Packets) /\ \A P : Lacks(<<>>, P)
      BY DEF Lacks
    <3>2. ASSUME NEW P, p \notin P PROVE Lacks(d.net.up, P)
      BY <2>2, <2>8, <3>1, <3>2, LacksMore
    <3>3. /\ p \notin Of({SUBSCRIBE}) /\ p \notin Of({UNSUBSCRIBE})
          /\ clean => p \notin Without(CONNECT, 1)
      BY <2>2 DEF Of, Without, CONNECT, SUBSCRIBE, UNSUBSCRIBE
    <3>4. /\ NotAsking(d.net, SUBSCRIBE, SUBACK)
          /\ NotAsking(d.net, UNSUBSCRIBE, UNSUBACK)
      BY <2>8, <3>1, <3>2, <3>3 DEF NotAsking
    <3>5. clean => Forgets(d.net, broker)
      BY <2>7, <2>8, <3>1, <3>2, <3>3 DEF Forgets
    <3>6. SubFits(d.c, d.net, k, broker)
      BY <2>6, <2>7, <2>8, <3>4, <3>5
      DEF SubFits, Begun, Matters, Asked, Settling
    <3> QED
      BY <1>1, <2>1, <2>5, <2>10, <3>6, SubWait
  <2> QED
    BY <2>9, <2>10
<1> QED
  BY <1>2, <1>3

\* publish() leaves a message in flight only if it waits for its ack.
LEMMA PublishSub ==
  ASSUME AcksAreAwaited, TypeInv, UNCHANGED use, SubInv, NEW qos \in OutQoS,
         NEW long \in BOOLEAN, Publish(qos, long)
  PROVE  SubInv'
<1> DEFINE msg == used.calls + 1
           s == Publishes(qos, long)
           p == PublishPacket(PublishId(qos), qos, 0, msg)
           d == sendPacket(s, p)
           k == [Waiting("publish", AckOf(qos)) EXCEPT !.msg = msg, !.qos = qos]
<1>1. /\ use \in DOMAIN Uses /\ Good(S) /\ qos \in 0..2
      /\ used.calls \in Nat /\ S.c = c /\ S.net = net /\ UNCHANGED broker
      /\ call.op = "idle" /\ c.next \in 0..MAX_PACKET_ID
  BY StateParts, UseTypes
  DEF TypeInv, ClientFits, UsedFits, Publish, S, Sessions
<1>2. IF ~c.isconnected THEN Return("publish", FAILURE, S)
      ELSE IF long THEN Return("publish", FAILURE, s)
      ELSE IF d.rc = FAILURE THEN Return("publish", FAILURE, closeSession(d))
      ELSE IF AckOf(qos) = 0 THEN Return("publish", SUCCESS, d)
      ELSE Wait(k, d)
  BY DEF Publish, PublishId, Publishes
<1>3. k.op = "publish"
  BY DEF Waiting, Idle
<1>4. qos # 0 => AckOf(qos) # 0
  <2>1. qos = 2 => QOS2Build
    BY <1>1 DEF AcksAreAwaited, OutQoS, QOS2Build
  <2> QED
    BY <1>1, <2>1 DEF AckOf, PUBACK, PUBCOMP
<1>5. /\ Good(s) /\ s.net = net /\ s.c.isconnected = c.isconnected
      /\ s.c.cleansession = c.cleansession /\ s.c.handlers = c.handlers
      /\ \/ s.c.inflight = c.inflight
         \/ s.c.inflight = [id |-> PublishId(qos), qos |-> qos, msg |-> msg]
  BY <1>1, PublishesGood
<1>6. PublishId(qos) \in Nat /\ msg \in Nat /\ (PublishId(qos) > 0 => qos # 0)
  BY <1>1, NextId, UseTypes DEF PublishId
<1>7. p \in Packets /\ p.type \notin {CONNECT, SUBSCRIBE, UNSUBSCRIBE}
  <2> HIDE DEF msg
  <2> QED
    BY <1>1, <1>6, PublishTypes
<1> HIDE DEF s, msg, p, k
<1>8. /\ Good(d) /\ Same(s, d) /\ d.c = s.c
      /\ d.net.up \in {net.up, Append(net.up, p)}
  BY <1>1, <1>5, <1>7, AskSent
<1> HIDE DEF d
<1>9. s.c.inflight.id > 0 => AckOf(s.c.inflight.qos) # 0
  BY <1>4, <1>5, <1>6 DEF SubInv, SubFits, Begun
<1>10. CASE ~c.isconnected
  <2>1. SubFits(S.c, S.net, Idle, broker)
    BY <1>1, SubAlike DEF SubInv, Idle
  <2> QED
    BY <1>1, <1>2, <1>10, <2>1, SubReturn
<1>11. CASE c.isconnected
  <2>1. ~net.fresh
    BY <1>11 DEF SubInv, SubFits, Begun
  <2>2. SubFits(s.c, net, Idle, broker) /\ SubFits(s.c, net, k, broker)
    BY <1>1, <1>3, <1>5, <1>9, <2>1
    DEF SubInv, SubFits, Begun, Matters, Asked, Settling, Idle
  <2>3. CASE long
    BY <1>1, <1>2, <1>5, <1>11, <2>2, <2>3, SubReturn
  <2>4. net \in Nets /\ d.net \in Nets /\ ~d.net.fresh
        /\ d.net.down = net.down
    BY <1>1, <1>5, <1>8, <2>1, StateParts DEF Good, States, Same
  <2>5. SubFits(d.c, d.net, Idle, broker) /\ SubFits(d.c, d.net, k, broker)
    BY <1>7, <1>8, <2>1, <2>2, <2>4, SubSent
  <2>6. CASE ~long /\ d.rc = FAILURE
    <3>1. Return("publish", FAILURE, closeSession(d))
      BY <1>2, <1>11, <2>6
    <3> QED
      BY <1>1, <1>8, <1>9, <2>4, <3>1, ClosedSub
  <2>7. CASE ~long /\ d.rc # FAILURE /\ AckOf(qos) = 0
    BY <1>1, <1>2, <1>11, <2>5, <2>7, SubReturn
  <2>8. CASE ~long /\ d.rc # FAILURE /\ AckOf(qos) # 0
    BY <1>1, <1>2, <1>11, <2>5, <2>8, SubWait
  <2> QED
    BY <2>3, <2>6, <2>7, <2>8
<1> QED
  BY <1>10, <1>11

\* subscribe() and unsubscribe() begin when nothing is asked for.
LEMMA AskSub ==
  ASSUME TypeInv, UNCHANGED use, SubInv, NEW topic \in Topics,
         Subscribe(topic) \/ Unsubscribe(topic)
  PROVE  SubInv'
<1>1. PICK op, type, want :
        /\ \/ op = "subscribe" /\ type = SUBSCRIBE /\ want = SUBACK
           \/ op = "unsubscribe" /\ type = UNSUBSCRIBE /\ want = UNSUBACK
        /\ Ask(op, type, want, topic)
  BY DEF Subscribe, Unsubscribe
<1> DEFINE p == Packet(type, getNext(c.next), 0, topic)
           d == sendPacket(Asks, p)
           k == [Waiting(op, want) EXCEPT !.topic = topic]
<1>2. /\ use \in DOMAIN Uses /\ Good(S) /\ S.c = c /\ S.net = net
      /\ UNCHANGED broker /\ call.op = "idle" /\ c.next \in 0..MAX_PACKET_ID
      /\ net \in Nets
  BY <1>1, StateParts DEF TypeInv, ClientFits, Ask, S, Sessions
<1>3. IF ~c.isconnected THEN Return(op, FAILURE, closeSession(S))
      ELSE IF d.rc = FAILURE THEN Return(op, FAILURE, closeSession(d))
      ELSE Wait(k, d)
  BY <1>1 DEF Ask, Asks
<1>4. p \in Packets /\ p.type = type /\ p.what = topic
  <2>1. getNext(c.next) \in Nat
    BY <1>2, NextId, UseTypes
  <2>2. type \in 0..15 /\ type # CONNACK
    BY <1>1 DEF SUBSCRIBE, UNSUBSCRIBE, CONNACK
  <2> QED
    BY <2>1, <2>2 DEF Packet, Packets, PacketFields
<1>5. k.op = op /\ k.topic = topic
  BY DEF Waiting, Idle
<1> HIDE DEF p, k
<1>6. /\ Good(Asks) /\ Asks.net = net /\ Asks.c.isconnected = c.isconnected
      /\ Asks.c.cleansession = c.cleansession
      /\ Asks.c.handlers = c.handlers /\ Asks.c.inflight = c.inflight
  BY <1>2, AsksGood
<1>7. /\ Good(d) /\ Same(Asks, d) /\ d.c = Asks.c
      /\ d.net.up \in {net.up, Append(net.up, p)}
  BY <1>2, <1>4, <1>6, AskSent
<1> HIDE DEF d
<1>8. c.inflight.id > 0 => AckOf(c.inflight.qos) # 0
  BY DEF SubInv, SubFits, Begun
<1>9. CASE ~c.isconnected
  <2>1. Return(op, FAILURE, closeSession(S))
    BY <1>3, <1>9
  <2>2. S.net.fresh => S.net.up = <<>> /\ S.net.down = <<>> /\ ~broker.conn
    BY <1>2 DEF SubInv, SubFits, Begun
  <2> QED
    BY <1>2, <1>8, <2>1, <2>2, ClosedSub
<1>10. CASE c.isconnected
  <2>1. ~net.fresh
    BY <1>10 DEF SubInv, SubFits, Begun
  <2>2. d.net \in Nets /\ ~d.net.fresh /\ d.net.down = net.down
    BY <1>6, <1>7, <2>1 DEF Good, States, Same
  <2>3. CASE d.rc = FAILURE
    <3>1. Return(op, FAILURE, closeSession(d))
      BY <1>3, <1>10, <2>3
    <3> QED
      BY <1>2, <1>6, <1>7, <1>8, <2>2, <3>1, ClosedSub
  <2>4. CASE d.rc # FAILURE
    <3>1. Wait(k, d)
      BY <1>3, <1>10, <2>4
    <3>2. Begun(d.c, d.net, k, broker)
      BY <1>1, <1>5, <1>6, <1>7, <1>8, <2>2 DEF Begun, Settling
    <3>3. ASSUME Matters(d.c, k) PROVE Asked(d.c, d.net, k, broker)
      <4>1. Matters(c, call)
        BY <1>6, <1>7, <1>10, <3>3 DEF Matters
      <4>2. /\ NotAsking(net, SUBSCRIBE, SUBACK)
            /\ NotAsking(net, UNSUBSCRIBE, UNSUBACK)
            /\ broker.subs \subseteq c.handlers
        BY <1>2, <4>1 DEF SubInv, SubFits, Asked, Settling
      <4>3. net.up \in Seq(Packets) /\ net.down \in Seq(Packets)
        BY <1>2, WiresAre
      <4>4. \A P : Lacks(net.down, P) =>
                    Lacks(d.net.down, P) /\ Once(d.net.down, P)
        BY <2>2 DEF Lacks, Once
      <4>5. \A P : Lacks(net.up, P) =>
                     /\ Once(d.net.up, P)
                     /\ p \notin P => Lacks(d.net.up, P)
        BY <1>4, <1>7, <4>3, LacksMore DEF Lacks, Once
      <4>6. CASE op = "subscribe"
        <5>1. type = SUBSCRIBE
          BY <1>1, <4>6
        <5>2. p \notin Of({UNSUBSCRIBE}) /\ p \notin Without(SUBSCRIBE, topic)
          BY <1>4, <5>1 DEF Of, Without, SUBSCRIBE, UNSUBSCRIBE
        <5>3. /\ Lacks(net.up, Of({SUBSCRIBE}))
              /\ Lacks(net.up, Of({UNSUBSCRIBE}))
              /\ Lacks(net.down, Of({SUBACK}))
              /\ Lacks(net.down, Of({UNSUBACK}))
          BY <4>2 DEF NotAsking
        <5>4. Lacks(net.up, Without(SUBSCRIBE, topic))
          BY <5>3 DEF Lacks, Without
        <5>5. NotAsking(d.net, UNSUBSCRIBE, UNSUBACK)
          BY <4>4, <4>5, <5>2, <5>3 DEF NotAsking
        <5>6. Asking(d.net, SUBSCRIBE, SUBACK)
          BY <4>4, <4>5, <5>3 DEF Asking
        <5>7. Lacks(d.net.up, Without(SUBSCRIBE, topic))
          BY <4>5, <5>2, <5>4
        <5>8. Subscribes(d.c, d.net, k, broker)
          BY <1>5, <1>6, <1>7, <4>2, <5>6, <5>7 DEF Subscribes
        <5> QED
          BY <1>5, <4>6, <5>5, <5>8 DEF Asked, Settling
      <4>7. CASE op = "unsubscribe"
        <5>1. type = UNSUBSCRIBE
          BY <1>1, <4>7
        <5>2. p \notin Of({SUBSCRIBE}) /\ p \notin Without(UNSUBSCRIBE, topic)
          BY <1>4, <5>1 DEF Of, Without, SUBSCRIBE, UNSUBSCRIBE
        <5>3. /\ Lacks(net.up, Of({SUBSCRIBE}))
              /\ Lacks(net.up, Of({UNSUBSCRIBE}))
              /\ Lacks(net.down, Of({SUBACK}))
              /\ Lacks(net.down, Of({UNSUBACK}))
          BY <4>2 DEF NotAsking
        <5>4. Lacks(net.up, Without(UNSUBSCRIBE, topic))
          BY <5>3 DEF Lacks, Without
        <5>5. NotAsking(d.net, SUBSCRIBE, SUBACK)
          BY <4>4, <4>5, <5>2, <5>3 DEF NotAsking
        <5>6. Asking(d.net, UNSUBSCRIBE, UNSUBACK)
          BY <4>4, <4>5, <5>3 DEF Asking
        <5>7. Lacks(d.net.up, Without(UNSUBSCRIBE, topic))
          BY <4>5, <5>2, <5>4
        <5>8. Lacks(d.net.down, Of({UNSUBACK}))
          BY <4>4, <5>3
        <5>9. Unsubscribes(d.c, d.net, k, broker)
          BY <1>5, <5>6, <5>7, <5>8 DEF Unsubscribes
        <5> QED
          BY <1>5, <1>6, <1>7, <4>2, <4>7, <5>5, <5>9 DEF Asked, Settling
      <4> QED
        BY <1>1, <4>6, <4>7
    <3>4. SubFits(d.c, d.net, k, broker)
      BY <3>2, <3>3 DEF SubFits
    <3> QED
      BY <1>2, <3>1, <3>4, SubWait
  <2> QED
    BY <2>3, <2>4
<1> QED
  BY <1>9, <1>10

\* Time passes, and the connection fails.
LEMMA TickSub == ASSUME UNCHANGED use, SubInv, Tick PROVE SubInv'
<1>1. SubFits(c', net', call', broker')
  BY DEF Tick, SubInv
<1> QED
  BY <1>1, SubNext

\* The broker and the network: what they leave alone.
LEMMA WiresSub ==
  ASSUME UNCHANGED <<use, c, call>>, SubInv, ~net.fresh, ~net'.fresh,
         Asked(c, net, call, broker) => Asked(c, net', call, broker')
  PROVE  SubInv'
<1>1. SubFits(c', net', call', broker')
  BY DEF SubInv, SubFits, Begun
<1> QED
  BY <1>1, SubNext
LEMMA FailsSub ==
  ASSUME TypeInv, UNCHANGED use, SubInv, NEW how \in {"cut", "closed"},
         Fails(how)
  PROVE  SubInv'
<1>1. net \in Nets /\ net.down \in Seq(Packets)
  BY StateParts, WiresAre DEF TypeInv, ClientFits
<1>2. PICK n \in 0..Len(net.down) :
        net' = [net EXCEPT !.link = how, !.up = <<>>,
                           !.down = SubSeq(@, 1, n)]
  BY DEF Fails, Break
<1>3. /\ net'.up = <<>> /\ net'.down = SubSeq(net.down, 1, n)
      /\ net'.fresh = net.fresh
  BY <1>1, <1>2 DEF Nets
<1>4. /\ Less(net.up, net'.up, {CONNECT, SUBSCRIBE, UNSUBSCRIBE})
      /\ Less(net.down, net'.down, {SUBACK, UNSUBACK})
  BY <1>1, <1>3, LessEmpty, LessFewer
<1>5. /\ \A P : Lacks(net'.up, P)
      /\ \A P : Lacks(net.down, P) => Lacks(net'.down, P)
  BY <1>1, <1>3, LacksLess DEF Lacks
<1>6. Forgets(net, broker) => Forgets(net', broker)
  BY <1>5 DEF Forgets
<1>7. Asked(c, net, call, broker) => Asked(c, net', call, broker)
  BY <1>4, <1>6, AskedKept
<1> QED
  BY <1>3, <1>7, WiresSub DEF Fails, Break, Others
LEMMA ArrivesSub ==
  ASSUME TypeInv, UNCHANGED use, SubInv, NEW topic \in Topics,
         NEW qos \in 0..2, NEW long \in BOOLEAN, Arrives(topic, qos, long)
  PROVE  SubInv'
<1>1. /\ net \in Nets /\ net.down \in Seq(Packets) /\ broker \in Brokers
  BY StateParts, WiresAre DEF TypeInv, ClientFits, BrokerFits
<1>2. BrokerPublishes(topic, qos, long) /\ broker.conn
  BY DEF Arrives, BrokerPublishes
<1>3. /\ net'.fresh = net.fresh /\ net'.up = net.up
      /\ broker'.subs = broker.subs /\ broker'.conn = broker.conn
      /\ \E p \in Packets : /\ p.type \in {PUBLISH, PUBREL}
                            /\ net'.down = Append(net.down, p)
  BY <1>1, <1>2, PublishesNets
<1>4. /\ Less(net.up, net'.up, {CONNECT, SUBSCRIBE, UNSUBSCRIBE})
      /\ Less(net.down, net'.down, {SUBACK, UNSUBACK})
  <2>1. PUBLISH \notin {SUBACK, UNSUBACK} /\ PUBREL \notin {SUBACK, UNSUBACK}
    BY DEF PUBLISH, PUBREL, SUBACK, UNSUBACK
  <2> QED
    BY <1>1, <1>3, <2>1, LessEmpty, LessMore
<1>5. Forgets(net, broker) => Forgets(net', broker')
  BY <1>2, <1>3 DEF Forgets
<1>6. Asked(c, net, call, broker) => Asked(c, net', call, broker')
  BY <1>3, <1>4, <1>5, AskedKept
<1>7. ~net.fresh
  BY <1>2 DEF SubInv, SubFits, Begun
<1> QED
  BY <1>3, <1>6, <1>7, WiresSub DEF Arrives, Others

-----------------------------------------------------------------------------
(* What the broker does with the packets it finds.                         *)

\* An answer that is neither SUBACK nor UNSUBACK, and no new subscription.
LEMMA AnsweredSub ==
  ASSUME net \in Nets, net.up # <<>>, NEW b, NEW packets \in Seq(Packets),
         Answer(b, packets), b.subs \subseteq broker.subs,
         \A i \in 1..Len(packets) : packets[i].type \notin {SUBACK, UNSUBACK},
         Forgets(net, broker) => b.subs = {}
  PROVE  Asked(c, net, call, broker) => Asked(c, net', call, broker')
<1>1. net.up \in Seq(Packets) /\ net.down \in Seq(Packets)
  BY WiresAre
<1>2. /\ broker' = b /\ net'.up = Tail(net.up)
      /\ net'.down = net.down \o packets
  BY AnswerNets
<1>3. /\ Less(net.up, net'.up, {CONNECT, SUBSCRIBE, UNSUBSCRIBE})
      /\ Less(net.down, net'.down, {SUBACK, UNSUBACK})
  BY <1>1, <1>2, LessFewer, LessConcat
<1>4. Forgets(net, broker) => Forgets(net', b)
  BY <1>1, <1>2, LacksLess DEF Forgets
<1> QED
  BY <1>2, <1>3, <1>4, AskedKept

\* CONNECT: a clean session begins without subscriptions.
LEMMA AcceptsSub ==
  ASSUME net \in Nets, net.up # <<>>, broker \in Brokers,
         NEW p, p = Head(net.up), p.type = CONNECT, BrokerAccepts(p)
  PROVE  Asked(c, net, call, broker) => Asked(c, net', call, broker')
<1> DEFINE b == IF p.what = 1 \/ broker.clean
                THEN [NoSession EXCEPT !.acked = broker.acked,
                                       !.sent = broker.sent]
                ELSE broker
           e == [b EXCEPT !.conn = TRUE, !.clean = (p.what = 1)]
           packets == Ack(CONNACK, 0) \o Resent(b.out)
<1>1. b \in Brokers /\ b.subs = IF p.what = 1 \/ broker.clean THEN {}
                                ELSE broker.subs
  <2>1. NoSession \in Brokers /\ NoSession.subs = {}
    BY DEF NoSession, Brokers
  <2>2. broker.acked \in SUBSET Nat /\ broker.sent \in Nat
    BY DEF Brokers
  <2> QED
    BY <2>1, <2>2 DEF Brokers
<1>2. Answer(e, packets)
  BY DEF BrokerAccepts
<1> HIDE DEF b
<1>3. e.subs = b.subs
  BY <1>1 DEF Brokers
<1>4. /\ packets \in Seq(Packets)
      /\ \A i \in 1..Len(packets) : packets[i].type \notin {SUBACK, UNSUBACK}
  <2> DEFINE u == Ack(CONNACK, 0)
             v == Resent(b.out)
  <2>1. u \in Seq(Packets) /\ Len(u) = 1 /\ u[1].type = CONNACK
    BY AckPackets
  <2>2. /\ v \in Seq(Packets)
        /\ \A i \in 1..Len(v) : v[i].type \in {PUBLISH, PUBREL}
    BY <1>1, ResentPackets DEF Brokers
  <2> HIDE DEF u, v
  <2>3. /\ Len(u \o v) = Len(u) + Len(v)
        /\ \A i \in 1..Len(u) : (u \o v)[i] = u[i]
        /\ \A i \in 1..(Len(u) + Len(v)) :
             i \in 1..Len(u) \/ (i - Len(u) \in 1..Len(v)
                                 /\ (u \o v)[i] = v[i - Len(u)])
    BY <2>1, <2>2, ConcatParts
  <2>4. \A i \in 1..Len(u) : i = 1
    BY <2>1
  <2>5. \A i \in 1..Len(u \o v) :
          (u \o v)[i].type \in {CONNACK, PUBLISH, PUBREL}
    BY <2>1, <2>2, <2>3, <2>4
  <2>6. u \o v \in Seq(Packets)
    BY <2>1, <2>2
  <2>7. \A i \in 1..Len(u \o v) :
          (u \o v)[i].type \notin {SUBACK, UNSUBACK}
    <3>1. \A x \in {CONNACK, PUBLISH, PUBREL} : x \notin {SUBACK, UNSUBACK}
      BY DEF CONNACK, PUBLISH, PUBREL, SUBACK, UNSUBACK
    <3> QED
      BY <2>5, <3>1
  <2>8. packets = u \o v
    BY DEF u, v
  <2> QED
    BY <2>6, <2>7, <2>8
<1>5. Forgets(net, broker) => e.subs = {}
  <2> SUFFICES ASSUME Forgets(net, broker) PROVE e.subs = {}
    OBVIOUS
  <2>1. Len(net.up) \in Nat /\ Len(net.up) > 0 /\ p = net.up[1]
        /\ p \in Packets
    BY WiresAre
  <2>2. p \notin Without(CONNECT, 1)
    BY <2>1 DEF Forgets, Lacks
  <2>3. p.what = 1
    BY <2>1, <2>2 DEF Without, Of
  <2> QED
    BY <1>1, <1>3, <2>3
<1> HIDE DEF e, packets
<1> QED
  BY <1>1, <1>2, <1>3, <1>4, <1>5, AnsweredSub

\* SUBSCRIBE: the one the client waits for, which its SUBACK tells of.
LEMMA SubscribeSub ==
  ASSUME net \in Nets, net.up # <<>>, broker \in Brokers, broker.conn,
         NEW p, p = Head(net.up), p.type = SUBSCRIBE, NEW b,
         NEW what \in {0, 128}, NEW e, e = Packet(SUBACK, p.id, 0, what),
         Answer(b, <<e>>),
         b.subs = IF what = 0 THEN broker.subs \cup {p.what} ELSE broker.subs
  PROVE  Asked(c, net, call, broker) => Asked(c, net', call, broker')
<1> SUFFICES ASSUME Asked(c, net, call, broker)
             PROVE  Asked(c, net', call, broker')
  OBVIOUS
<1>1. /\ net.up \in Seq(Packets) /\ net.down \in Seq(Packets)
      /\ Len(net.up) \in Nat /\ Len(net.up) > 0 /\ p = net.up[1]
      /\ p \in Packets
  BY WiresAre
<1>2. /\ e \in Packets /\ e.type = SUBACK /\ e.what = what
      /\ e \notin Of({UNSUBACK}) /\ e.type \notin {UNSUBACK}
  BY SMTT(30), <1>1
  DEF Packet, Packets, PacketFields, SUBACK, UNSUBACK, CONNACK, Of
<1> DEFINE packets == <<e>>
<1>3. packets \in Seq(Packets) /\ Len(packets) = 1 /\ packets[1] = e
  BY <1>2
<1>4. Answer(b, packets)
  OBVIOUS
<1> HIDE DEF packets
<1>5. /\ broker' = b /\ net'.up = Tail(net.up)
      /\ net'.down = net.down \o packets
  BY <1>3, <1>4, AnswerNets
<1>6. p \in Of({SUBSCRIBE})
  BY <1>1 DEF Of
<1>7. ~Lacks(net.up, Of({SUBSCRIBE}))
  BY <1>1, <1>6 DEF Lacks
<1>8. call.op = "subscribe" /\ Subscribes(c, net, call, broker)
  BY <1>7 DEF Asked, NotAsking
<1>9. /\ Once(net.up, Of({SUBSCRIBE})) /\ Lacks(net.down, Of({SUBACK}))
      /\ Lacks(net.up, Without(SUBSCRIBE, call.topic))
      /\ broker.subs \subseteq c.handlers
  BY <1>7, <1>8 DEF Subscribes, Asking
<1>10. p.what = call.topic
  <2>1. p \notin Without(SUBSCRIBE, call.topic)
    BY <1>1, <1>9 DEF Lacks
  <2> QED
    BY <1>6, <2>1 DEF Without
<1>11. /\ Lacks(net'.up, Of({SUBSCRIBE})) /\ Once(net'.up, Of({SUBSCRIBE}))
       /\ Lacks(net'.up, Without(SUBSCRIBE, call.topic))
  <2>1. /\ Lacks(Tail(net.up), Of({SUBSCRIBE}))
        /\ Once(Tail(net.up), Of({SUBSCRIBE}))
    BY <1>1, <1>6, <1>9, OnceLess
  <2>2. Lacks(Tail(net.up), Without(SUBSCRIBE, call.topic))
    BY <1>1, <1>9, LacksLess
  <2> QED
    BY <1>5, <2>1, <2>2
<1>12. Once(net'.down, Of({SUBACK}))
  <2>1. Once(packets, Of({SUBACK}))
    BY <1>3 DEF Once
  <2> QED
    BY <1>1, <1>3, <1>5, <1>9, <2>1, OnceConcat
<1>13. what = 0 => Lacks(net'.down, With(SUBACK, 128))
  <2>1. Lacks(net.down, With(SUBACK, 128))
    BY <1>9 DEF Lacks, With
  <2>2. what = 0 => Lacks(packets, With(SUBACK, 128))
    BY <1>2, <1>3 DEF Lacks, With
  <2> QED
    BY <1>1, <1>3, <1>5, <2>1, <2>2, LacksConcat
<1>14. Subscribes(c, net', call, broker')
  BY <1>5, <1>9, <1>10, <1>11, <1>12, <1>13 DEF Subscribes, Asking
<1>15. NotAsking(net', UNSUBSCRIBE, UNSUBACK)
  <2>1. NotAsking(net, UNSUBSCRIBE, UNSUBACK)
    BY <1>8 DEF Asked
  <2>2. Lacks(Tail(net.up), Of({UNSUBSCRIBE}))
    BY <1>1, <2>1, LacksLess DEF NotAsking
  <2>3. Lacks(packets, Of({UNSUBACK}))
    BY <1>2, <1>3 DEF Lacks
  <2>4. Lacks(net.down \o packets, Of({UNSUBACK}))
    BY <1>1, <1>3, <2>1, <2>3, LacksConcat DEF NotAsking
  <2> QED
    BY <1>5, <2>2, <2>4 DEF NotAsking
<1> QED
  BY <1>8, <1>14, <1>15 DEF Asked, Settling

\* UNSUBSCRIBE: what it is about is forgotten when its UNSUBACK is sent.
LEMMA UnsubscribeSub ==
  ASSUME net \in Nets, net.up # <<>>, broker \in Brokers, broker.conn,
         NEW p, p = Head(net.up), p.type = UNSUBSCRIBE, NEW b,
         Answer(b, Ack(UNSUBACK, p.id)), b.subs = broker.subs \ {p.what}
  PROVE  Asked(c, net, call, broker) => Asked(c, net', call, broker')
<1> SUFFICES ASSUME Asked(c, net, call, broker)
             PROVE  Asked(c, net', call, broker')
  OBVIOUS
<1>1. /\ net.up \in Seq(Packets) /\ net.down \in Seq(Packets)
      /\ Len(net.up) \in Nat /\ Len(net.up) > 0 /\ p = net.up[1]
      /\ p \in Packets /\ p.id \in Nat
  <2>1. /\ net.up \in Seq(Packets) /\ net.down \in Seq(Packets)
        /\ Len(net.up) \in Nat /\ Len(net.up) > 0 /\ p = net.up[1]
        /\ p \in Packets
    BY WiresAre
  <2>2. p.id \in Nat
    BY <2>1 DEF Packets, PacketFields
  <2> QED
    BY <2>1, <2>2
<1> DEFINE packets == Ack(UNSUBACK, p.id)
<1>2. /\ packets \in Seq(Packets) /\ Len(packets) = 1
      /\ packets[1].type = UNSUBACK
  BY <1>1, AckPackets
<1>3. Answer(b, packets)
  OBVIOUS
<1> HIDE DEF packets
<1>4. /\ broker' = b /\ net'.up = Tail(net.up)
      /\ net'.down = net.down \o packets
  BY <1>2, <1>3, AnswerNets
<1>5. p \in Of({UNSUBSCRIBE})
  BY <1>1 DEF Of
<1>6. ~Lacks(net.up, Of({UNSUBSCRIBE}))
  BY <1>1, <1>5 DEF Lacks
<1>7. /\ call.op = "unsubscribe" /\ Unsubscribes(c, net, call, broker)
      /\ broker.subs \subseteq c.handlers
  BY <1>6 DEF Asked, NotAsking, Settling
<1>8. /\ Once(net.up, Of({UNSUBSCRIBE})) /\ Lacks(net.down, Of({UNSUBACK}))
      /\ Lacks(net.up, Without(UNSUBSCRIBE, call.topic))
  BY <1>6, <1>7 DEF Unsubscribes, Asking
<1>9. p.what = call.topic
  <2>1. p \notin Without(UNSUBSCRIBE, call.topic)
    BY <1>1, <1>8 DEF Lacks
  <2> QED
    BY <1>5, <2>1 DEF Without
<1>10. /\ Lacks(net'.up, Of({UNSUBSCRIBE})) /\ Once(net'.up, Of({UNSUBSCRIBE}))
       /\ Lacks(net'.up, Without(UNSUBSCRIBE, call.topic))
  <2>1. /\ Lacks(Tail(net.up), Of({UNSUBSCRIBE}))
        /\ Once(Tail(net.up), Of({UNSUBSCRIBE}))
    BY <1>1, <1>5, <1>8, OnceLess
  <2>2. Lacks(Tail(net.up), Without(UNSUBSCRIBE, call.topic))
    BY <1>1, <1>8, LacksLess
  <2> QED
    BY <1>4, <2>1, <2>2
<1>11. Once(net'.down, Of({UNSUBACK}))
  <2>1. Once(packets, Of({UNSUBACK}))
    BY <1>2 DEF Once
  <2> QED
    BY <1>1, <1>2, <1>4, <1>8, <2>1, OnceConcat
<1>12. Unsubscribes(c, net', call, broker')
  BY <1>4, <1>9, <1>10, <1>11 DEF Unsubscribes, Asking
<1>13. NotAsking(net', SUBSCRIBE, SUBACK)
  <2>1. NotAsking(net, SUBSCRIBE, SUBACK)
    BY <1>7 DEF Asked
  <2>2. Lacks(Tail(net.up), Of({SUBSCRIBE}))
    BY <1>1, <2>1, LacksLess DEF NotAsking
  <2>3. Lacks(packets, Of({SUBACK}))
    BY <1>2 DEF Lacks, Of, SUBACK, UNSUBACK
  <2>4. Lacks(net.down \o packets, Of({SUBACK}))
    BY <1>1, <1>2, <2>1, <2>3, LacksConcat DEF NotAsking
  <2> QED
    BY <1>4, <2>2, <2>4 DEF NotAsking
<1> QED
  BY <1>4, <1>7, <1>12, <1>13 DEF Asked, Settling

LEMMA BrokerSub ==
  ASSUME TypeInv, UNCHANGED use, SubInv, Broker PROVE SubInv'
<1> DEFINE p == Head(net.up)
<1>1. PICK refuse : BrokerStep(refuse)
  BY DEF Broker
<1>2. net \in Nets /\ broker \in Brokers /\ net.up # <<>>
  BY <1>1, StateParts DEF TypeInv, ClientFits, BrokerFits, BrokerStep
<1>3. /\ net.up \in Seq(Packets) /\ net.down \in Seq(Packets)
      /\ p \in Packets
  BY <1>2, WiresAre
<1>4. p.id \in Nat
  BY <1>3 DEF Packets, PacketFields
<1>5. ~net.fresh
  BY <1>2 DEF SubInv, SubFits, Begun
<1>6. \/ p.type = CONNECT /\ BrokerAccepts(p)
      \/ BrokerRefuses
      \/ broker.conn /\ BrokerConnected(p)
      \/ BrokerCloses
  BY <1>1 DEF BrokerStep
<1>7. net'.fresh = net.fresh
  <2>1. \/ net'.fresh = net.fresh
        \/ \E b, packets : Answer(b, packets)
    BY <1>2, <1>6
    DEF BrokerAccepts, BrokerRefuses, BrokerConnected, BrokerCloses,
        BrokerTakesPublish, BrokerTakesAck, Nets
  <2> QED
    BY <1>2, <2>1 DEF Answer, Nets
<1> HIDE DEF p
<1>8. /\ \A q \in Seq(Packets) : q = <<>> => \A P : Lacks(q, P)
      /\ \A u, types : Less(u, u, types) /\ Less(u, <<>>, types)
  BY LessEmpty DEF Lacks
<1>9. ASSUME p.type = CONNECT, BrokerAccepts(p)
      PROVE  Asked(c, net, call, broker) => Asked(c, net', call, broker')
  BY <1>2, <1>9, AcceptsSub DEF p
<1>10. ASSUME BrokerRefuses \/ BrokerCloses
       PROVE  Asked(c, net, call, broker) => Asked(c, net', call, broker')
  <2> DEFINE e == Packet(CONNACK, 0, 0, 5)
             packets == <<e>>
  <2>1. /\ e \in Packets /\ e \in With(CONNACK, 5)
        /\ e.type \notin {SUBACK, UNSUBACK}
    BY DEF Packet, Packets, PacketFields, CONNACK, SUBACK, UNSUBACK, With, Of
  <2> HIDE DEF e
  <2>2. /\ packets \in Seq(Packets) /\ Len(packets) = 1 /\ packets[1] = e
        /\ <<>> \in Seq(Packets)
    BY <2>1
  <2>3. /\ broker' = broker /\ net'.up = <<>>
        /\ net'.down \in {net.down, net.down \o packets}
    BY <1>2, <1>10 DEF BrokerRefuses, BrokerCloses, Nets, e
  <2> HIDE DEF packets
  <2>4. Lacks(packets, Packets \ With(CONNACK, 5))
    BY <2>1, <2>2 DEF Lacks
  <2>5. Forgets(net, broker) => Forgets(net', broker')
    <3> DEFINE Q == Packets \ With(CONNACK, 5)
    <3>1. Lacks(net'.up, Without(CONNECT, 1))
      BY <2>3 DEF Lacks
    <3>2. Lacks(packets, Q)
      BY <2>4
    <3> HIDE DEF Q
    <3>3. Lacks(net.down, Q) => Lacks(net.down \o packets, Q)
      BY <1>3, <2>2, <3>2, LacksConcat
    <3>4. Lacks(net.down, Q) => Lacks(net'.down, Q)
      BY <2>3, <3>3
    <3> QED
      BY <2>3, <3>1, <3>4 DEF Forgets, Q
  <2>6. \A i \in 1..Len(packets) : packets[i].type \notin {SUBACK, UNSUBACK}
    BY <2>1, <2>2
  <2>7. /\ Less(net.up, net'.up, {CONNECT, SUBSCRIBE, UNSUBSCRIBE})
        /\ Less(net.down, net'.down, {SUBACK, UNSUBACK})
    BY <1>3, <1>8, <2>2, <2>3, <2>6, LessConcat
  <2> QED
    BY <2>3, <2>5, <2>7, AskedKept
<1> DEFINE Unasked(packets) ==
      /\ packets \in Seq(Packets)
      /\ \A i \in 1..Len(packets) : packets[i].type \notin {SUBACK, UNSUBACK}
<1>11. ASSUME NEW b, NEW packets, Unasked(packets), Answer(b, packets),
              b.subs = broker.subs, broker.conn
       PROVE  Asked(c, net, call, broker) => Asked(c, net', call, broker')
  <2>1. Forgets(net, broker) => b.subs = {}
    BY <1>11 DEF Forgets
  <2> QED
    BY <1>2, <1>11, <2>1, AnsweredSub
<1>12. ASSUME NEW type \in {PUBACK, PUBREC, PUBREL, PUBCOMP, PINGRESP},
              NEW id \in Nat
       PROVE  Unasked(Ack(type, id))
  <2>1. /\ Ack(type, id) \in Seq(Packets) /\ Len(Ack(type, id)) = 1
        /\ Ack(type, id)[1].type = type
    BY <1>12, AckPackets
  <2>2. type \notin {SUBACK, UNSUBACK}
    BY DEF PUBACK, PUBREC, PUBREL, PUBCOMP, PINGRESP, SUBACK, UNSUBACK
  <2>3. \A i \in 1..1 : i = 1
    OBVIOUS
  <2> QED
    BY <2>1, <2>2, <2>3
<1>13. Unasked(<<>>)
  <2>1. <<>> \in Seq(Packets) /\ Len(<<>>) = 0 /\ 1..0 = {}
    OBVIOUS
  <2> QED
    BY <2>1
<1> HIDE DEF Unasked
<1>14. ASSUME broker.conn, BrokerConnected(p)
       PROVE  Asked(c, net, call, broker) => Asked(c, net', call, broker')
  <2>1. CASE BrokerTakesPublish(p)
    <3>1. PICK b, packets :
            /\ Answer(b, packets)
            /\ b \in {broker, [broker EXCEPT !.taken = @ \cup {p.id}]}
            /\ packets \in {<<>>, Ack(PUBACK, p.id), Ack(PUBREC, p.id)}
      BY <2>1 DEF BrokerTakesPublish
    <3>2. b.subs = broker.subs
      BY <1>2, <3>1 DEF Brokers
    <3>3. Unasked(packets)
      BY <1>4, <1>12, <1>13, <3>1
    <3> QED
      BY <1>11, <1>14, <3>1, <3>2, <3>3
  <2>2. CASE BrokerTakesAck(p)
    <3>1. PICK b, packets :
            Answer(b, packets) /\ packets \in {<<>>, Ack(PUBREL, p.id)}
      BY <2>2 DEF BrokerTakesAck
    <3>2. b.subs = broker.subs
      BY <1>2, <1>3, <2>2, <3>1, TakesAckFits DEF Answer
    <3>3. Unasked(packets)
      BY <1>4, <1>12, <1>13, <3>1
    <3> QED
      BY <1>11, <1>14, <3>1, <3>2, <3>3
  <2>3. CASE Answer([broker EXCEPT !.taken = @ \ {p.id}], Ack(PUBCOMP, p.id))
    <3> DEFINE b == [broker EXCEPT !.taken = @ \ {p.id}]
    <3>1. b.subs = broker.subs
      BY <1>2 DEF Brokers
    <3> HIDE DEF b
    <3>2. Answer(b, Ack(PUBCOMP, p.id))
      BY <2>3 DEF b
    <3> QED
      BY <1>4, <1>11, <1>12, <1>14, <3>1, <3>2
  <2>4. CASE Answer(broker, Ack(PINGRESP, 0))
    BY <1>11, <1>12, <1>14, <2>4
  <2>5. CASE /\ p.type = SUBSCRIBE
             /\ Answer([broker EXCEPT !.subs = @ \cup {p.what}],
                       Ack(SUBACK, p.id))
    <3> DEFINE b == [broker EXCEPT !.subs = @ \cup {p.what}]
               e == Packet(SUBACK, p.id, 0, 0)
    <3>1. b.subs = broker.subs \cup {p.what}
      BY <1>2 DEF Brokers
    <3>2. Answer(b, <<e>>)
      BY <2>5 DEF Ack
    <3> HIDE DEF b
    <3> QED
      BY <1>2, <1>14, <2>5, <3>1, <3>2, SubscribeSub DEF p
  <2>6. CASE /\ p.type = SUBSCRIBE
             /\ Answer(broker, <<Packet(SUBACK, p.id, 0, 128)>>)
    BY <1>2, <1>14, <2>6, SubscribeSub DEF p
  <2>7. CASE /\ p.type = UNSUBSCRIBE
             /\ Answer([broker EXCEPT !.subs = @ \ {p.what}],
                       Ack(UNSUBACK, p.id))
    <3> DEFINE b == [broker EXCEPT !.subs = @ \ {p.what}]
    <3>1. b.subs = broker.subs \ {p.what}
      BY <1>2 DEF Brokers
    <3>2. Answer(b, Ack(UNSUBACK, p.id))
      BY <2>7
    <3> HIDE DEF b
    <3> QED
      BY <1>2, <1>14, <2>7, <3>1, <3>2, UnsubscribeSub DEF p
  <2> QED
    BY <1>14, <2>1, <2>2, <2>3, <2>4, <2>5, <2>6, <2>7 DEF BrokerConnected
<1>15. Asked(c, net, call, broker) => Asked(c, net', call, broker')
  BY <1>6, <1>9, <1>10, <1>14 DEF p
<1> QED
  BY <1>5, <1>7, <1>15, WiresSub DEF Broker, Others

\* Every step keeps it, and it holds before the first.
LEMMA SubInit == ASSUME MqttInit PROVE SubInv
BY DEF MqttInit, SubInv, SubFits, Begun, Matters, Settling, NewNet, Idle,
       NoInflight, NoSession
LEMMA SubKept ==
  ASSUME AcksAreAwaited, TypeInv, SubInv, [MqttNext]_<<mqttVars, use>>
  PROVE  SubInv'
<1>1. CASE UNCHANGED <<mqttVars, use>>
  <2>1. SubFits(c', net', call', broker') /\ UNCHANGED use
    BY <1>1 DEF mqttVars, SubInv
  <2> QED
    BY <2>1, SubNext
<1>2. CASE MqttNext
  <2>1. UNCHANGED use /\ InQoS \subseteq 0..2
    BY <1>2, UseTypes DEF MqttNext, TypeInv
  <2>2. CASE Cycle \/ Expire
    BY <2>1, <2>2, CycleSubs, ExpireSub
  <2>3. CASE OpenNetwork \/ Yield \/ Disconnect \/ Tick
    BY <2>1, <2>3, OpenNetworkSub, YieldSub, DisconnectSub, TickSub
  <2>4. CASE Broker
    BY <2>1, <2>4, BrokerSub
  <2>5. CASE \E clean \in CleanOptions : MqttConnect(clean)
    BY <2>1, <2>5, ConnectSub
  <2>6. CASE \E qos \in OutQoS, long \in BOOLEAN : Publish(qos, long)
    BY <2>1, <2>6, PublishSub
  <2>7. CASE \E topic \in Topics : Subscribe(topic) \/ Unsubscribe(topic)
    BY <2>1, <2>7, AskSub
  <2>8. CASE \E topic \in Topics, qos \in InQoS : Arrives(topic, qos, FALSE)
    BY <2>1, <2>8, ArrivesSub
  <2>9. CASE \E topic \in Topics : 0 \in InQoS /\ Arrives(topic, 0, TRUE)
    BY <2>1, <2>9, ArrivesSub
  <2>10. CASE \E how \in {"cut", "closed"} : Fails(how)
    BY <2>1, <2>10, FailsSub
  <2> QED
    BY <1>2, <2>2, <2>3, <2>4, <2>5, <2>6, <2>7, <2>8, <2>9, <2>10
    DEF MqttNext, MqttStep
<1> QED
  BY <1>1, <1>2

\* The client's tables agree with the broker's, whatever is lost and however
\* long the answers take: SUBACK and UNSUBACK never speak of another call.
THEOREM TablesAreRight ==
  ASSUME AcksAreAwaited PROVE MqttSpec => []TablesAgree
<1>1. TypeInv => MqttTypeOK
  <2> SUFFICES ASSUME TypeInv PROVE MqttTypeOK
    OBVIOUS
  <2>1. /\ c \in Sessions /\ t \in Timers /\ seen \in [Incoming -> 0..2]
        /\ TablesFit(S) /\ S.c = c
    BY StateParts DEF TypeInv, ClientFits, Good, S
  <2> QED
    BY <2>1 DEF MqttTypeOK, TypeInv, ClientFits, BrokerFits, TablesFit,
                Sessions, Timers
<1>2. SubInv => SubscribedHasHandler
  BY DEF SubInv, SubFits, Matters, Asked, Settling, SubscribedHasHandler
<1>3. MqttInit => SubInv
  BY SubInit
<1>4. TypeInv /\ SubInv /\ [MqttNext]_<<mqttVars, use>> => SubInv'
  BY SubKept
<1>5. TypeInv /\ SubInv => TablesAgree
  BY <1>1, <1>2 DEF TablesAgree
<1> QED
  BY <1>3, <1>4, <1>5, TypesHold, PTL DEF MqttSpec
=============================================================================
