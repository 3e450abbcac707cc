----------------------------- MODULE TaskProofs -----------------------------
(***************************************************************************)
(* The C client of MQTTClient-C with its background task, for every number *)
(* of topics, calls and faults: its tables keep their bounds, and the two  *)
(* threads take nothing from each other.  The invariant is about states;   *)
(* Good() and Opening() say of a state an operation passes on what it says *)
(* of the client's own.                                                    *)
(***************************************************************************)
EXTENDS MqttTask, FiniteSetTheorems, SequenceTheorems, TLAPS

Sessions ==
  [isconnected : BOOLEAN, ping_outstanding : BOOLEAN, cleansession : BOOLEAN,
   handlers : SUBSET Topics, next : 1..MAX_PACKET_ID,
   interval : {StaleInterval, KeepAlive}]
Timers == [{"sent", "received"} -> 0..Longest]
Calls ==
  [op : {"idle", "connect", "publish", "subscribe", "unsubscribe",
         "disconnect"},
   pc : {"out", "lock", "wait"}, want : 0..15, what : Topics \cup {0, 1, 2}]

\* The connection after a packet was written to it.
Written(nn, p) ==
  [[nn EXCEPT !.up = IF nn.link = "up" THEN Append(@, p) ELSE @]
     EXCEPT !.fresh = FALSE]

\* What the functions pass on: a session, timers and the rest of the client.
Whole(s) ==
  s = [c |-> s.c, t |-> s.t, net |-> s.net, seen |-> s.seen, rc |-> s.rc]
TableFits(s) ==
  /\ IsFiniteSet(s.c.handlers)
  /\ Cardinality(s.c.handlers) <= MAX_MESSAGE_HANDLERS
Good(s) ==
  /\ Whole(s) /\ s.c \in Sessions /\ s.t \in Timers /\ TableFits(s)

\* A connection before the broker has taken CONNECT: the client may have sent
\* CONNECT, DISCONNECT and pings, with an interval of 0 only behind one of the
\* others.
Refusal == Packet(CONNACK, 0, 0, 5)
EarlyPackets ==
  {Packet(CONNECT, 0, 0, 0), Packet(CONNECT, 0, 0, 1),
   Packet(DISCONNECT, 0, 0, 0), Packet(PINGREQ, 0, 0, 0)}
EarlyNets ==
  [link : {"up", "cut", "closed"}, up : Seq(EarlyPackets),
   down : Seq({Refusal}), junk : BOOLEAN, fresh : BOOLEAN]
Opens(p) == p.type \in {CONNECT, DISCONNECT}
Unconnected(cc, nn) ==
  /\ nn \in EarlyNets /\ cc.isconnected = FALSE
  /\ nn.link # "up" => nn.up = <<>>
  /\ IntervalIsZero /\ nn.up # <<>> => Opens(Head(nn.up))
Opening(cc, nn) ==
  /\ Unconnected(cc, nn)
  /\ IntervalIsZero /\ nn.link = "up" /\ nn.up = <<>> => cc.interval = 0

BrokerWhole ==
  /\ broker.conn \in BOOLEAN
  /\ broker = [conn |-> broker.conn, clean |-> broker.clean,
               subs |-> broker.subs, out |-> broker.out,
               taken |-> broker.taken, acked |-> broker.acked,
               sent |-> broker.sent]
Early == ~broker.conn

\* Who holds the mutex, and for which call.
Locked ==
  /\ mutex \in {"free", "app", "task"} /\ task \in {"in", "out"}
  /\ call.pc = "wait" <=> mutex = "app"
  /\ task = "in" <=> mutex = "task"
  /\ stolen = FALSE
CallFits ==
  /\ call \in Calls
  /\ call.op = "idle" => call.pc = "out"
  /\ call.op = "connect" => call.what \in {0, 1}
  /\ call.op = "connect" /\ call.pc = "wait" => call.want = CONNACK
  /\ call.op = "subscribe" => call.what \in Topics

TaskInv ==
  /\ use \in DOMAIN Uses
  /\ used \in [connections : Nat \ {0}, calls : Nat, faults : Nat]
  /\ Good(S) /\ CallFits /\ Locked /\ BrokerWhole
  /\ Early => Opening(c, net)

-----------------------------------------------------------------------------
(* Helpers                                                                 *)
LEMMA UseFits ==
  ASSUME use \in DOMAIN Uses
  PROVE  /\ KeepAlive \in Nat /\ OutQoS \subseteq 0..2
         /\ StaleInterval \in 0..Longest /\ KeepAlive \in 0..Longest
         /\ Longest \in Nat
         /\ MAX_PACKET_ID \in Nat \ {0} /\ MAX_MESSAGE_HANDLERS \in Nat
BY TaskAssumption DEF StaleInterval, KeepAlive, OutQoS, Longest

\* Whether the interval is 0 before CONNECT is a matter of the connection.
LEMMA ZeroKept ==
  ASSUME use' = use, used'.connections = used.connections
  PROVE  IntervalIsZero' = IntervalIsZero
BY DEF IntervalIsZero, StaleInterval, KeepAlive

\* The next id stays within its range.
LEMMA NextFits ==
  ASSUME use \in DOMAIN Uses, NEW n \in 1..MAX_PACKET_ID
  PROVE  getNextPacketId(n) \in 1..MAX_PACKET_ID
BY UseFits DEF getNextPacketId

\* The first packet stays first.
LEMMA AppendHead ==
  ASSUME NEW P, NEW u \in Seq(P), NEW p \in P
  PROVE  /\ Append(u, p) \in Seq(P) /\ Append(u, p) # <<>>
         /\ Head(Append(u, p)) = IF u = <<>> THEN p ELSE Head(u)
<1> DEFINE v == Append(u, p)
<1>1. /\ v \in Seq(P) /\ Len(v) = Len(u) + 1 /\ Len(u) \in Nat
      /\ v[Len(u) + 1] = p /\ \A i \in 1..Len(u) : v[i] = u[i]
  BY AppendProperties
<1> HIDE DEF v
<1>2. v # <<>> /\ Head(v) = v[1]
  BY <1>1
<1>3. u # <<>> => Head(u) = u[1] /\ 1 \in 1..Len(u)
  OBVIOUS
<1>4. u = <<>> => v[1] = p
  BY <1>1
<1> QED
  BY <1>1, <1>2, <1>3, <1>4 DEF v

\* A function that touches neither the session nor the timers.
LEMMA SetSession ==
  ASSUME NEW s, Whole(s), NEW b, NEW d, d = [s EXCEPT !.c = b]
  PROVE  /\ Whole(d) /\ d.c = b /\ d.t = s.t /\ d.net = s.net
         /\ d.seen = s.seen /\ d.rc = s.rc
BY DEF Whole
\* The same for the timers,
LEMMA SetTimers ==
  ASSUME NEW s, Whole(s), NEW b, NEW d, d = [s EXCEPT !.t = b]
  PROVE  /\ Whole(d) /\ d.t = b /\ d.c = s.c /\ d.net = s.net
         /\ d.seen = s.seen /\ d.rc = s.rc
BY DEF Whole
\* the connection,
LEMMA SetNet ==
  ASSUME NEW s, Whole(s), NEW b, NEW d, d = [s EXCEPT !.net = b]
  PROVE  /\ Whole(d) /\ d.net = b /\ d.c = s.c /\ d.t = s.t
         /\ d.seen = s.seen /\ d.rc = s.rc
BY DEF Whole
\* what was handed on
LEMMA SetSeen ==
  ASSUME NEW s, Whole(s), NEW b, NEW d, d = [s EXCEPT !.seen = b]
  PROVE  /\ Whole(d) /\ d.seen = b /\ d.c = s.c /\ d.t = s.t
         /\ d.net = s.net /\ d.rc = s.rc
BY DEF Whole
\* and the return code.
LEMMA SetRc ==
  ASSUME NEW s, Whole(s), NEW b, NEW d, d = [s EXCEPT !.rc = b]
  PROVE  /\ Whole(d) /\ d.rc = b /\ d.c = s.c /\ d.t = s.t
         /\ d.net = s.net /\ d.seen = s.seen
BY DEF Whole

\* Sending restarts its timer and leaves the session alone.
LEMMA SendGood ==
  ASSUME use \in DOMAIN Uses, NEW s, Good(s), NEW p,
         NEW d, d = sendPacket(s, p)
  PROVE  /\ Good(d) /\ d.c = s.c /\ d.rc \in {SUCCESS, FAILURE}
         /\ d.rc = FAILURE => d.net = s.net
         /\ s.net.link = "closed" => d.net = s.net /\ d.rc = FAILURE
         /\ s.net.link # "closed" =>
              d.net = Written(s.net, p)
<1>1. s.c.interval \in 0..Longest
  BY UseFits DEF Good, Sessions
<1> DEFINE n == [s.net EXCEPT !.up = IF s.net.link = "up"
                                     THEN Append(@, p) ELSE @]
           m == [n EXCEPT !.fresh = FALSE]
           b == [s.t EXCEPT !["sent"] = s.c.interval]
<1>3. CASE s.net.link # "closed"
  <2> DEFINE x == [s EXCEPT !.t = b]
             y == [x EXCEPT !.rc = SUCCESS]
             z == [y EXCEPT !.net = n]
  <2>2. b \in Timers
    BY <1>1 DEF Good, Timers
  <2>3. d = [z EXCEPT !.net = m]
    BY <1>3 DEF sendPacket
  <2> HIDE DEF b, n, m
  <2>1. Whole(x) /\ x.t = b /\ x.c = s.c /\ x.net = s.net
    BY SetTimers DEF Good
  <2> HIDE DEF x
  <2>4. Whole(y) /\ y.t = b /\ y.c = s.c /\ y.rc = SUCCESS
    BY ONLY <2>1, SetRc
  <2> HIDE DEF y
  <2>5. Whole(z) /\ z.t = b /\ z.c = s.c /\ z.rc = SUCCESS
    BY ONLY <2>4, SetNet
  <2> HIDE DEF z
  <2>6. Whole(d) /\ d.t = b /\ d.c = s.c /\ d.rc = SUCCESS /\ d.net = m
    BY <2>3, <2>5, SetNet
  <2>7. Good(d) /\ SUCCESS # FAILURE
    BY <2>2, <2>6 DEF Good, TableFits, SUCCESS, FAILURE
  <2> QED
    BY <1>3, <2>6, <2>7 DEF n, m, Written
<1>4. CASE s.net.link = "closed"
  <2>1. d = [s EXCEPT !.rc = FAILURE]
    BY <1>4 DEF sendPacket
  <2> QED
    BY <1>4, <2>1, SetRc DEF Good, TableFits
<1> QED
  BY <1>3, <1>4

\* The first packet that is sent opens the connection.
LEMMA SendOpens ==
  ASSUME use \in DOMAIN Uses, NEW s, Good(s),
         Unconnected(s.c, s.net), NEW p \in EarlyPackets,
         Opens(p) \/ (Opening(s.c, s.net) /\ s.c.interval # 0),
         NEW d, d = sendPacket(s, p)
  PROVE  Opening(d.c, d.net)
<1>1. /\ d.c = s.c
      /\ s.net.link = "closed" => d.net = s.net
      /\ s.net.link # "closed" =>
           d.net = Written(s.net, p)
  BY SendGood
<1>2. /\ s.net \in EarlyNets /\ s.net.link \in {"up", "cut", "closed"}
      /\ s.net.up \in Seq(EarlyPackets)
  BY DEF Unconnected, EarlyNets
<1>3. CASE s.net.link = "closed"
  BY <1>1, <1>3 DEF Unconnected, Opening
<1>4. CASE s.net.link = "cut"
  <2>1. d.net = [[s.net EXCEPT !.up = s.net.up] EXCEPT !.fresh = FALSE]
    BY <1>1, <1>4 DEF Written
  <2>2. d.net \in EarlyNets /\ d.net.link = "cut" /\ d.net.up = s.net.up
    BY <1>2, <1>4, <2>1 DEF EarlyNets
  <2> QED
    BY <1>1, <1>4, <2>2 DEF Unconnected, Opening
<1>5. CASE s.net.link = "up"
  <2> DEFINE v == Append(s.net.up, p)
  <2>1. d.net = [[s.net EXCEPT !.up = v] EXCEPT !.fresh = FALSE]
    BY <1>1, <1>5 DEF Written
  <2>2. /\ v \in Seq(EarlyPackets) /\ v # <<>>
        /\ Head(v) = IF s.net.up = <<>> THEN p ELSE Head(s.net.up)
    BY <1>2, AppendHead
  <2>3. IntervalIsZero => Opens(Head(v))
    BY <1>5, <2>2 DEF Unconnected, Opening
  <2> HIDE DEF v
  <2>4. d.net \in EarlyNets /\ d.net.link = "up" /\ d.net.up = v
    BY <1>2, <1>5, <2>1, <2>2 DEF EarlyNets
  <2> QED
    BY <1>1, <2>2, <2>3, <2>4 DEF Unconnected, Opening
<1> QED
  BY <1>2, <1>3, <1>4, <1>5

\* Handing a message on touches nothing else.
LEMMA DeliverGood ==
  ASSUME NEW s, Good(s), NEW p, NEW d, d = deliverMessage(s, p)
  PROVE  Good(d) /\ d.c = s.c /\ d.net = s.net /\ d.rc = s.rc
<1>1. CASE p.what \in s.c.handlers
  <2> DEFINE f == [s.seen EXCEPT ![p.msg] = IF @ = 2 THEN 2 ELSE @ + 1]
  <2>1. d = [s EXCEPT !.seen = f]
    BY <1>1 DEF deliverMessage
  <2> HIDE DEF f
  <2> QED
    BY <2>1, SetSeen DEF Good, TableFits
<1>2. CASE p.what \notin s.c.handlers
  BY <1>2 DEF deliverMessage
<1> QED
  BY <1>1, <1>2

\* Closing a session drops the handlers of a clean one.
LEMMA CloseGood ==
  ASSUME use \in DOMAIN Uses, NEW s, Good(s),
         NEW d, d = MQTTCloseSession(s)
  PROVE  /\ Good(d) /\ d.net = s.net /\ d.rc = s.rc
         /\ d.c.isconnected = FALSE /\ d.c.interval = s.c.interval
<1> DEFINE h == IF s.c.cleansession THEN {} ELSE s.c.handlers
           b == [[[s.c EXCEPT !.ping_outstanding = FALSE]
                       EXCEPT !.isconnected = FALSE]
                       EXCEPT !.handlers = h]
<1>1. d = [s EXCEPT !.c = b]
  BY DEF MQTTCloseSession
<1>2. h \in SUBSET Topics /\ s.c \in Sessions
  BY DEF Good, Sessions
<1>3. IsFiniteSet(h) /\ Cardinality(h) <= MAX_MESSAGE_HANDLERS
  <2>1. IsFiniteSet({}) /\ Cardinality({}) = 0
    BY FS_EmptySet
  <2> QED
    BY <2>1, UseFits DEF Good, TableFits
<1> HIDE DEF h
<1>4. /\ b \in Sessions /\ b.isconnected = FALSE /\ b.handlers = h
      /\ b.interval = s.c.interval
  BY <1>2 DEF Sessions
<1> HIDE DEF b
<1>5. /\ Whole(d) /\ d.c = b /\ d.t = s.t /\ d.net = s.net /\ d.rc = s.rc
  BY <1>1, SetSession DEF Good
<1> QED
  BY <1>3, <1>4, <1>5 DEF Good, TableFits

\* Closing writes nothing.
LEMMA CloseOpens ==
  ASSUME use \in DOMAIN Uses, NEW s, Good(s), Opening(s.c, s.net),
         NEW d, d = MQTTCloseSession(s)
  PROVE  Opening(d.c, d.net)
BY CloseGood DEF Opening, Unconnected

\* A ping is noted when it was sent.
LEMMA KeepaliveGood ==
  ASSUME use \in DOMAIN Uses, NEW s, Good(s),
         NEW d, d = keepalive(s)
  PROVE  /\ Good(d) /\ d.c.isconnected = s.c.isconnected
         /\ d.rc \in {s.rc, SUCCESS, FAILURE}
         /\ Opening(s.c, s.net) => Opening(d.c, d.net)
<1> DEFINE q == Packet(PINGREQ, 0, 0, 0)
           x == sendPacket(s, q)
<1>1. /\ Good(x) /\ x.c = s.c
      /\ x.rc \in {SUCCESS, FAILURE}
  BY SendGood
<1>2. q \in EarlyPackets
  BY DEF EarlyPackets
<1>3. Opening(s.c, s.net) /\ s.c.interval # 0 => Opening(x.c, x.net)
  BY <1>2, SendOpens DEF Opening
<1>4. s.c.interval \in Nat
  BY UseFits DEF Good, Sessions
<1>5. CASE d = s
  BY <1>5
<1>6. CASE d = [s EXCEPT !.rc = FAILURE]
  BY <1>6, SetRc DEF Good, TableFits
<1>7. CASE s.c.interval > 0
           /\ d = [x EXCEPT !.c.ping_outstanding = (x.rc = SUCCESS)]
  <2> DEFINE v == x.rc = SUCCESS
             b == [x.c EXCEPT !.ping_outstanding = v]
  <2>0. v \in BOOLEAN
    OBVIOUS
  <2> HIDE DEF v, q, x
  <2>1. d = [x EXCEPT !.c = b]
    BY <1>7 DEF v
  <2>2. /\ b \in Sessions /\ b.isconnected = x.c.isconnected
        /\ b.interval = x.c.interval /\ b.handlers = x.c.handlers
    BY <1>1, <2>0 DEF Good, Sessions
  <2> HIDE DEF b
  <2>3. Whole(d) /\ d.c = b /\ d.t = x.t /\ d.net = x.net /\ d.rc = x.rc
    BY <1>1, <2>1, SetSession DEF Good
  <2>4. Good(d) /\ d.c.isconnected = s.c.isconnected
    BY <1>1, <2>2, <2>3 DEF Good, TableFits
  <2>5. Opening(s.c, s.net) => Opening(x.c, x.net)
    BY <1>3, <1>4, <1>7
  <2> QED
    BY <1>1, <2>2, <2>3, <2>4, <2>5 DEF Opening, Unconnected
<1>8. CASE s.c.interval = 0 \/ (s.t.sent > 0 /\ s.t.received > 0)
  BY <1>5, <1>8 DEF keepalive
<1>9. CASE ~(s.c.interval = 0 \/ (s.t.sent > 0 /\ s.t.received > 0))
  <2>1. s.t["sent"] \in Nat /\ s.t["received"] \in Nat
    BY UseFits DEF Good, Timers
  <2>2. s.c.interval > 0 /\ (s.t.sent = 0 \/ s.t.received = 0)
    BY <1>4, <1>9, <2>1
  <2>3. d = IF s.c.ping_outstanding THEN [s EXCEPT !.rc = FAILURE]
            ELSE [x EXCEPT !.c.ping_outstanding = (x.rc = SUCCESS)]
    BY <1>9, <2>2 DEF keepalive
  <2> HIDE DEF x, q
  <2> QED
    BY <1>6, <1>7, <2>2, <2>3
<1> QED
  BY <1>8, <1>9

-----------------------------------------------------------------------------
(* cycle()                                                                 *)

\* What readPacket() finds before the broker has taken CONNECT.
LEMMA EarlyRead ==
  ASSUME Opening(c, net), NEW r \in readPacket
  PROVE  /\ r.type \in {0, 15, FAILURE, CONNACK}
         /\ r.type = CONNACK => r.p = Refusal
         /\ Opening(c, r.net)
<1>1. net \in EarlyNets /\ net.down \in Seq({Refusal})
  BY DEF Opening, Unconnected, EarlyNets
<1>2. /\ Refusal.type = CONNACK /\ Refusal.qos = 0 /\ TooLong = 3
  BY DEF Refusal, Packet, TooLong
<1> DEFINE n == [[net EXCEPT !.down = <<>>] EXCEPT !.junk = TRUE]
           m == [net EXCEPT !.down = Tail(net.down)]
<1>3. Opening(c, n)
  <2>1. <<>> \in Seq({Refusal})
    OBVIOUS
  <2>2. n \in EarlyNets /\ n.link = net.link /\ n.up = net.up
    BY <1>1, <2>1 DEF EarlyNets
  <2> QED
    BY <2>2 DEF Opening, Unconnected
<1>4. CASE net.junk \/ net.down = <<>>
  <2>1. r.net = net /\ r.type \in {0, 15, FAILURE}
    BY <1>4 DEF readPacket
  <2>2. 0 # CONNACK /\ 15 # CONNACK /\ FAILURE # CONNACK
    BY DEF CONNACK, FAILURE
  <2> QED
    BY <2>1, <2>2
<1>5. CASE ~net.junk /\ net.down # <<>>
  <2>1. Head(net.down) = Refusal /\ Tail(net.down) \in Seq({Refusal})
    BY <1>1, <1>5
  <2>2. Opening(c, m)
    <3>1. m \in EarlyNets /\ m.link = net.link /\ m.up = net.up
      BY <1>1, <2>1 DEF EarlyNets
    <3> QED
      BY <3>1 DEF Opening, Unconnected
  <2>3. \/ r.type = CONNACK /\ r.p = Refusal /\ r.net = m
        \/ r.type = 0 /\ r.net = n
    <3> DEFINE h == Head(net.down)
               n0 == [net EXCEPT !.down = <<>>, !.junk = TRUE]
               m0 == [net EXCEPT !.down = Tail(@)]
               late == IF used.faults < MaxFaults
                       THEN {[type |-> 0, p |-> h, net |-> n0]} ELSE {}
    <3>1. r \in {IF h.qos = TooLong
                 THEN [type |-> BUFFER_OVERFLOW, p |-> h, net |-> n0]
                 ELSE [type |-> h.type, p |-> h, net |-> m0]}
                \cup late
      BY <1>5, Zenon DEF readPacket
    <3>2. n0 = n /\ m0 = m
      OBVIOUS
    <3>3. r \in late => r = [type |-> 0, p |-> h, net |-> n0]
      OBVIOUS
    <3> HIDE DEF h, n, m, n0, m0, late
    <3> QED
      BY <1>2, <2>1, <3>1, <3>2, <3>3 DEF h
  <2>4. 0 # CONNACK
    BY DEF CONNACK
  <2> QED
    BY <1>3, <2>2, <2>3, <2>4
<1> QED
  BY <1>4, <1>5

\* A cycle keeps the session and the tables in order, sends only pings on a
\* connection not yet opened, and returns the type of what it has read.
LEMMA CycleGood ==
  ASSUME use \in DOMAIN Uses, Good(S), NEW r,
         NEW d, d = cycle(r)
  PROVE  /\ Good(d)
         /\ d.rc = CONNACK => r.type = CONNACK
         /\ Opening(c, r.net) /\ r.type \in {0, 15, FAILURE, CONNACK}
              => Opening(d.c, d.net)
<1> DEFINE v == IF r.type > 0 /\ r.p.type # 0 /\ c.interval > 0
                THEN c.interval ELSE t["received"]
           b == [t EXCEPT !["received"] = v]
           x == [S EXCEPT !.net = r.net]
           s0 == [S EXCEPT !.net = r.net,
                    !.t.received = IF r.type > 0 /\ r.p.type # 0
                                      /\ c.interval > 0
                                   THEN c.interval ELSE @]
           s1 == IF r.type = PUBLISH THEN deliverMessage(s0, r.p) ELSE s0
           sends == r.type \in {PUBREC, PUBREL}
                      \/ (r.type = PUBLISH /\ r.p.qos > 0)
           s2 == IF sends THEN sendPacket(s1, cycleAck(s1, r.p)) ELSE s1
           s3 == IF r.type = PINGRESP
                 THEN [s2 EXCEPT !.c.ping_outstanding = FALSE] ELSE s2
           broken == r.type < 0 \/ r.type = 15
           s4 == CASE broken -> [s0 EXCEPT !.rc = r.type]
                   [] s3.rc = FAILURE -> s3
                   [] OTHER -> keepalive(s3)
<1>0. /\ S.c = c /\ S.t = t /\ S.net = net /\ S.seen = seen
      /\ S.rc = SUCCESS /\ Whole(S)
  BY DEF S, Whole
<1>1. v \in 0..Longest
  BY <1>0, UseFits DEF Good, Sessions, Timers
<1>2. d = IF s4.rc = SUCCESS THEN [s4 EXCEPT !.rc = r.type]
          ELSE IF s4.c.isconnected THEN MQTTCloseSession(s4) ELSE s4
  BY Zenon DEF cycle
<1>2a. s0 = [x EXCEPT !.t = b]
  BY <1>0 DEF Whole
<1> HIDE DEF v, s0
<1>3. b \in Timers
  BY <1>0, <1>1 DEF Good, Timers
<1> HIDE DEF b
<1>4. Whole(x) /\ x.net = r.net /\ x.c = c /\ x.rc = SUCCESS
  BY ONLY <1>0 DEF Whole
<1> HIDE DEF x
<1>5. Whole(s0) /\ s0.t = b /\ s0.c = c /\ s0.net = r.net /\ s0.rc = SUCCESS
  BY <1>2a, <1>4, SetTimers
<1>6. Good(s0)
  BY <1>0, <1>3, <1>5 DEF Good, TableFits
<1> HIDE DEF s0
<1>7. /\ Good(s1) /\ s1.c = c /\ s1.net = r.net /\ s1.rc = SUCCESS
      /\ r.type # PUBLISH => s1 = s0
  BY <1>5, <1>6, DeliverGood
<1> HIDE DEF s1
<1>8. /\ Good(s2) /\ s2.c = c /\ s2.rc \in {SUCCESS, FAILURE}
      /\ ~sends => s2 = s1
  BY <1>7, SendGood
<1> HIDE DEF s2
<1>9. /\ Good(s3) /\ s3.rc \in {SUCCESS, FAILURE}
      /\ r.type # PINGRESP => s3 = s2
  <2>1. CASE r.type # PINGRESP
    BY <1>8, <2>1
  <2>2. CASE r.type = PINGRESP
    <3> DEFINE e == [s2.c EXCEPT !.ping_outstanding = FALSE]
    <3>1. s3 = [s2 EXCEPT !.c = e]
      BY <2>2
    <3>2. e \in Sessions /\ e.handlers = s2.c.handlers
      BY <1>8 DEF Good, Sessions
    <3> HIDE DEF e, s3
    <3>3. Whole(s3) /\ s3.c = e /\ s3.t = s2.t /\ s3.rc = s2.rc
      BY <1>8, <3>1, SetSession DEF Good
    <3> QED
      BY <1>8, <2>2, <3>2, <3>3 DEF Good, TableFits
  <2> QED
    BY <2>1, <2>2
<1> HIDE DEF s3
<1> DEFINE early == /\ Opening(c, r.net)
                    /\ r.type \in {0, 15, FAILURE, CONNACK}
<1>10. early => (s3 = s0 /\ Opening(s0.c, s0.net))
  <2>1. {0, 15, FAILURE, CONNACK} \cap {PUBREC, PUBREL, PUBLISH, PINGRESP} = {}
    BY DEF FAILURE, CONNACK, PUBREC, PUBREL, PUBLISH, PINGRESP
  <2> QED
    BY <1>5, <1>7, <1>8, <1>9, <2>1
<1>10a. broken => s3.rc # FAILURE
  <2>1. \A k \in {PUBREC, PUBREL, PUBLISH, PINGRESP} : ~(k < 0 \/ k = 15)
    BY DEF PUBREC, PUBREL, PUBLISH, PINGRESP
  <2>2. SUCCESS # FAILURE
    BY DEF SUCCESS, FAILURE
  <2> QED
    BY <1>5, <1>7, <1>8, <1>9, <2>1, <2>2
<1> HIDE DEF sends
<1>11. /\ Good(s4)
       /\ early => Opening(s4.c, s4.net)
       /\ s4.rc \in {SUCCESS, FAILURE} \/ s4.rc = r.type
  <2>1. CASE broken
    <3>1. s4 = [s0 EXCEPT !.rc = r.type]
      BY <1>10a, <2>1
    <3> HIDE DEF s4
    <3>2. Whole(s4) /\ s4.rc = r.type /\ s4.c = s0.c /\ s4.t = s0.t
          /\ s4.net = s0.net
      BY <1>6, <3>1, SetRc DEF Good
    <3> QED
      BY <1>6, <1>10, <3>2 DEF Good, TableFits
  <2>2. CASE ~broken /\ s3.rc = FAILURE
    <3>1. s4 = s3
      BY <2>2
    <3> HIDE DEF s4
    <3> QED
      BY <1>9, <1>10, <3>1
  <2>3. CASE ~broken /\ s3.rc # FAILURE
    <3>1. s4 = keepalive(s3)
      BY <2>3
    <3> HIDE DEF s4, early
    <3>2. /\ Good(s4) /\ s4.rc \in {SUCCESS, FAILURE}
          /\ Opening(s3.c, s3.net) => Opening(s4.c, s4.net)
      BY <1>9, <3>1, KeepaliveGood
    <3> QED
      BY <1>10, <3>2
  <2> QED
    BY <2>1, <2>2, <2>3
<1> HIDE DEF s4, early
<1>12. /\ Good(d)
       /\ early => Opening(d.c, d.net)
       /\ d.rc \in {FAILURE, r.type}
  <2>1. CASE s4.rc = SUCCESS
    <3>1. d = [s4 EXCEPT !.rc = r.type]
      BY <1>2, <2>1
    <3>2. Whole(d) /\ d.rc = r.type /\ d.c = s4.c /\ d.t = s4.t
          /\ d.net = s4.net
      BY <1>11, <3>1, SetRc DEF Good
    <3> QED
      BY <1>11, <3>2 DEF Good, TableFits
  <2>2. CASE s4.rc # SUCCESS /\ s4.c.isconnected
    <3>1. d = MQTTCloseSession(s4)
      BY <1>2, <2>2
    <3> QED
      BY <1>11, <2>2, <3>1, CloseGood, CloseOpens
  <2>3. CASE s4.rc # SUCCESS /\ ~s4.c.isconnected
    <3>1. d = s4
      BY <1>2, <2>3
    <3> QED
      BY <1>11, <2>3, <3>1
  <2> QED
    BY <2>1, <2>2, <2>3
<1> QED
  BY <1>12 DEF early, CONNACK, FAILURE

-----------------------------------------------------------------------------
(* The calls                                                               *)

\* What an operation has left becomes the client's state.
LEMMA ApplyGood ==
  ASSUME Good(S), NEW s, Good(s), Apply(s), use' = use
  PROVE  Good(S)'
<1>1. S' = [c |-> s.c, t |-> s.t, net |-> s.net, seen |-> s.seen,
            rc |-> SUCCESS]
  BY DEF S, Apply
<1>2. /\ (S').c = s.c /\ (S').t = s.t
      /\ S' = [c |-> (S').c, t |-> (S').t, net |-> (S').net,
               seen |-> (S').seen, rc |-> (S').rc]
  BY <1>1
<1>3. Sessions' = Sessions /\ Timers' = Timers
  BY DEF Sessions, Timers, Topics, StaleInterval, KeepAlive, Longest
<1> QED
  BY <1>2, <1>3 DEF Good, Whole, TableFits

\* A call returns or goes on waiting with a state in order.
LEMMA CallStep ==
  ASSUME TaskInv, use' = use, NEW s, Good(s), Apply(s),
         Early => Opening(s.c, s.net),
         UNCHANGED <<broker, stolen>>,
         used' \in [connections : Nat \ {0}, calls : Nat, faults : Nat],
         used'.connections = used.connections,
         CallFits', Locked'
  PROVE  TaskInv'
<1>1. Good(S)'
  BY ApplyGood DEF TaskInv
<1>2. c' = s.c /\ net' = s.net
  BY DEF Apply
<1>3. Early' = Early
  BY DEF Early
<1>4. BrokerWhole'
  BY DEF TaskInv, BrokerWhole
<1>5. Opening(s.c, s.net) => Opening(c, net)'
  BY <1>2, ZeroKept DEF Opening, Unconnected, EarlyNets
<1> QED
  BY <1>1, <1>3, <1>4, <1>5 DEF TaskInv

\* A call returns and gives the mutex back.
LEMMA ReturnStep ==
  ASSUME TaskInv, use' = use, NEW s, Good(s),
         Early => Opening(s.c, s.net), NEW rc, Return(rc, s),
         UNCHANGED <<broker, stolen, task>>, mutex # "task",
         used' \in [connections : Nat \ {0}, calls : Nat, faults : Nat],
         used'.connections = used.connections
  PROVE  TaskInv'
<1>1. Apply(s) /\ call' = Idle /\ mutex' = "free"
  BY DEF Return
<1>2. CallFits'
  BY <1>1 DEF CallFits, Calls, Idle
<1>3. Locked'
  BY <1>1 DEF Locked, Idle, TaskInv
<1> QED
  BY <1>1, <1>2, <1>3, CallStep

\* A call has sent its packet and keeps the mutex while it waits.
LEMMA WaitStep ==
  ASSUME TaskInv, use' = use, NEW s, Good(s),
         Early => Opening(s.c, s.net), NEW want \in 0..15, WaitFor(want, s),
         call.op # "idle", call.op = "connect" => want = CONNACK,
         UNCHANGED <<broker, stolen, task, used>>, mutex # "task"
  PROVE  TaskInv'
<1>1. /\ Apply(s) /\ mutex' = "app"
      /\ call' = [call EXCEPT !.pc = "wait", !.want = want]
  BY DEF WaitFor
<1>2. call \in Calls
  BY DEF TaskInv, CallFits
<1>3. /\ call' \in Calls /\ call'.pc = "wait" /\ call'.want = want
      /\ call'.op = call.op /\ call'.what = call.what
  BY <1>1, <1>2 DEF Calls
<1>4. CallFits'
  <2>1. Calls' = Calls /\ Topics' = Topics
    BY DEF Calls, Topics
  <2> QED
    BY <1>3, <2>1 DEF CallFits, TaskInv
<1>5. Locked'
  BY <1>1, <1>3 DEF Locked, TaskInv
<1>6. /\ used' \in [connections : Nat \ {0}, calls : Nat, faults : Nat]
      /\ used'.connections = used.connections
  BY DEF TaskInv
<1> QED
  BY <1>1, <1>4, <1>5, <1>6, CallStep

\* A call fails: the session is closed.
LEMMA FailStep ==
  ASSUME TaskInv, use' = use, NEW s, Good(s),
         Early => Opening(s.c, s.net), Fail(s),
         UNCHANGED <<broker, stolen, task>>, mutex # "task",
         used' \in [connections : Nat \ {0}, calls : Nat, faults : Nat],
         used'.connections = used.connections
  PROVE  TaskInv'
<1> DEFINE d == MQTTCloseSession(s)
<1>1. use \in DOMAIN Uses
  BY DEF TaskInv
<1>2. Good(d)
  BY <1>1, CloseGood
<1>3. Early => Opening(d.c, d.net)
  BY <1>1, CloseOpens
<1>4. Return(FAILURE, d)
  BY DEF Fail
<1> HIDE DEF d
<1> QED
  BY <1>2, <1>3, <1>4, ReturnStep

\* CONNECT may come first; the interval is set before it is sent.
LEMMA ConnectStep ==
  ASSUME TaskInv, use' = use, call.op = "connect",
         MQTTConnect, mutex = "free", UNCHANGED App, UNCHANGED used
  PROVE  TaskInv'
<1> DEFINE v == call.what = 1
           e == [[c EXCEPT !.interval = KeepAlive] EXCEPT !.cleansession = v]
           b == [t EXCEPT !["received"] = KeepAlive]
           p == Packet(CONNECT, 0, 0, call.what)
           s == [S EXCEPT !.c.interval = KeepAlive,
                          !.c.cleansession = (call.what = 1),
                          !.t.received = KeepAlive]
           d == sendPacket(s, p)
           x == [S EXCEPT !.c = e]
<1>0. /\ S.c = c /\ S.t = t /\ S.net = net /\ S.seen = seen /\ Whole(S)
  BY DEF S, Whole
<1>1. /\ use \in DOMAIN Uses /\ c \in Sessions /\ t \in Timers
      /\ TableFits(S) /\ Good(S) /\ KeepAlive \in 0..Longest
      /\ call.what \in {0, 1}
  BY <1>0, UseFits DEF TaskInv, Good, CallFits
<1>2. CASE c.isconnected
  <2>1. Return(FAILURE, S)
    BY <1>2 DEF MQTTConnect
  <2>2. Early => Opening(S.c, S.net)
    BY <1>0 DEF TaskInv
  <2> QED
    BY <1>1, <2>1, <2>2, ReturnStep DEF App, TaskInv
<1>3. CASE ~c.isconnected
  <2>1. Return(FAILURE, d) \/ WaitFor(CONNACK, d)
    BY <1>3, Zenon DEF MQTTConnect
  <2>2. s = [x EXCEPT !.t = b]
    BY <1>0 DEF S
  <2>3a. v \in BOOLEAN
    OBVIOUS
  <2> HIDE DEF v, s, d, p
  <2>3b. KeepAlive \in {StaleInterval, KeepAlive}
    OBVIOUS
  <2>3. e \in Sessions /\ e.handlers = c.handlers
        /\ e.isconnected = c.isconnected
    BY ONLY <1>1, <2>3a, <2>3b DEF Sessions
  <2>3c. b \in Timers
    BY ONLY <1>1 DEF Timers
  <2> HIDE DEF e, b
  <2>4. Whole(x) /\ x.c = e /\ x.t = t /\ x.net = net
    BY <1>0, SetSession
  <2> HIDE DEF x
  <2>5. Whole(s) /\ s.c = e /\ s.t = b /\ s.net = net
    BY <2>2, <2>4, SetTimers
  <2>6. Good(s)
    BY <1>0, <1>1, <2>3, <2>3c, <2>5 DEF Good, TableFits
  <2>7. p \in EarlyPackets /\ Opens(p)
    BY <1>1 DEF p, EarlyPackets, Opens, Packet
  <2>8. Good(d)
    BY <1>1, <2>6, SendGood DEF d
  <2>9. Early => Opening(d.c, d.net)
    <3>1. SUFFICES ASSUME Early PROVE Opening(d.c, d.net)
      OBVIOUS
    <3>2. Unconnected(s.c, s.net)
      BY <1>3, <2>3, <2>5, <3>1 DEF Opening, Unconnected, TaskInv
    <3> QED
      BY <1>1, <2>6, <2>7, <3>2, SendOpens DEF d
  <2>10. CONNACK \in 0..15
    BY DEF CONNACK
  <2> QED
    BY <1>1, <2>1, <2>8, <2>9, <2>10, ReturnStep, WaitStep DEF App, TaskInv
<1> QED
  BY <1>2, <1>3

\* A call that sends the client's own packets: only on a session, with the
\* next id.
LEMMA NewId ==
  ASSUME use \in DOMAIN Uses, Good(S), NEW n \in 1..MAX_PACKET_ID,
         NEW d, d = [S EXCEPT !.c.next = n]
  PROVE  Good(d) /\ d.c.isconnected = c.isconnected /\ d.net = net
<1> DEFINE e == [c EXCEPT !.next = n]
<1>0. /\ S.c = c /\ S.t = t /\ S.net = net /\ S.seen = seen /\ Whole(S)
  BY DEF S, Whole
<1>1. d = [S EXCEPT !.c = e]
  BY <1>0
<1>2. e \in Sessions /\ e.handlers = c.handlers
      /\ e.isconnected = c.isconnected
  BY <1>0 DEF Good, Sessions
<1> HIDE DEF e
<1>3. Whole(d) /\ d.c = e /\ d.t = t /\ d.net = net
  BY ONLY <1>0, <1>1, SetSession
<1> QED
  BY <1>0, <1>2, <1>3 DEF Good, TableFits

\* MQTTPublish(), which sends only on a session.
LEMMA PublishStep ==
  ASSUME TaskInv, use' = use, call.op = "publish",
         MQTTPublish, mutex = "free", UNCHANGED App, UNCHANGED used
  PROVE  TaskInv'
<1> DEFINE qos == call.what
           id == getNextPacketId(c.next)
           n == IF qos = 0 THEN c.next ELSE id
           p == PublishPacket(IF qos = 0 THEN 0 ELSE id, qos, 0, used.calls)
           s == [S EXCEPT !.c.next = IF qos = 0 THEN @ ELSE id]
           d == sendPacket(s, p)
<1>0. S.c = c /\ S.net = net
  BY DEF S
<1>1. /\ use \in DOMAIN Uses /\ c \in Sessions /\ Good(S)
      /\ c.next \in 1..MAX_PACKET_ID
  BY <1>0 DEF TaskInv, Good, Sessions
<1>2. CASE ~c.isconnected
  <2>1. Fail(S)
    BY <1>2 DEF MQTTPublish
  <2>2. Early => Opening(S.c, S.net)
    BY <1>0 DEF TaskInv
  <2> QED
    BY <1>1, <2>1, <2>2, FailStep DEF App, TaskInv
<1>3. CASE c.isconnected
  <2>1. \/ Fail(d) \/ Return(SUCCESS, d)
        \/ WaitFor(IF qos = 1 THEN PUBACK ELSE PUBCOMP, d)
    BY <1>3, Zenon DEF MQTTPublish
  <2>2. s = [S EXCEPT !.c.next = n]
    BY <1>0
  <2>3. n \in 1..MAX_PACKET_ID
    BY <1>1, NextFits
  <2> HIDE DEF n, p, s
  <2>4. Good(s)
    BY <1>1, <2>2, <2>3, NewId
  <2>5. Good(d)
    BY <1>1, <2>4, SendGood
  <2>6. ~Early
    BY <1>3 DEF TaskInv, Opening, Unconnected
  <2> HIDE DEF d
  <2>7. (IF qos = 1 THEN PUBACK ELSE PUBCOMP) \in 0..15
    BY DEF PUBACK, PUBCOMP
  <2> QED
    BY <1>1, <2>1, <2>5, <2>6, <2>7, ReturnStep, WaitStep, FailStep
       DEF App, TaskInv
<1> QED
  BY <1>2, <1>3

\* MQTTSubscribe() and MQTTUnsubscribe(), likewise.
LEMMA SubscribeStep ==
  ASSUME TaskInv, use' = use, call.op # "idle",
         call.op # "connect", NEW type, NEW want \in 0..15,
         MQTTSubscribe(type, want), mutex = "free",
         UNCHANGED App, UNCHANGED used
  PROVE  TaskInv'
<1> DEFINE id == getNextPacketId(c.next)
           p == Packet(type, id, 0, call.what)
           s == [S EXCEPT !.c.next = id]
           d == sendPacket(s, p)
<1>0. S.c = c /\ S.net = net
  BY DEF S
<1>1. /\ use \in DOMAIN Uses /\ c \in Sessions /\ Good(S)
      /\ c.next \in 1..MAX_PACKET_ID
  BY <1>0 DEF TaskInv, Good, Sessions
<1>2. CASE ~c.isconnected
  <2>1. Fail(S)
    BY <1>2 DEF MQTTSubscribe
  <2>2. Early => Opening(S.c, S.net)
    BY <1>0 DEF TaskInv
  <2> QED
    BY <1>1, <2>1, <2>2, FailStep DEF App, TaskInv
<1>3. CASE c.isconnected
  <2>1. Fail(d) \/ WaitFor(want, d)
    BY <1>3, Zenon DEF MQTTSubscribe
  <2>3. id \in 1..MAX_PACKET_ID
    BY <1>1, NextFits
  <2> HIDE DEF id, p
  <2>4. Good(s)
    BY <1>1, <2>3, NewId
  <2> HIDE DEF s
  <2>5. Good(d)
    BY <1>1, <2>4, SendGood
  <2>6. ~Early
    BY <1>3 DEF TaskInv, Opening, Unconnected
  <2> HIDE DEF d
  <2> QED
    BY <1>1, <2>1, <2>5, <2>6, WaitStep, FailStep DEF App, TaskInv
<1> QED
  BY <1>2, <1>3

\* DISCONNECT goes out whether or not there is a session.
LEMMA DisconnectStep ==
  ASSUME TaskInv, use' = use, MQTTDisconnect, mutex = "free",
         UNCHANGED App, UNCHANGED used
  PROVE  TaskInv'
<1> DEFINE p == Packet(DISCONNECT, 0, 0, 0)
           d == sendPacket(S, p)
           e == MQTTCloseSession(d)
<1>0. S.c = c /\ S.net = net
  BY DEF S
<1>1. use \in DOMAIN Uses /\ Good(S)
  BY DEF TaskInv
<1>2. p \in EarlyPackets /\ Opens(p)
  BY DEF EarlyPackets, Opens, Packet
<1>3. Return(d.rc, e)
  BY DEF MQTTDisconnect
<1> HIDE DEF p
<1>4. Good(d)
  BY <1>1, SendGood
<1>5. Early => Opening(d.c, d.net)
  BY <1>0, <1>1, <1>2, SendOpens DEF TaskInv, Opening
<1> HIDE DEF d
<1>6. Good(e) /\ (Early => Opening(e.c, e.net))
  BY <1>1, <1>4, <1>5, CloseGood, CloseOpens
<1> HIDE DEF e
<1> QED
  BY <1>1, <1>3, <1>6, ReturnStep DEF App, TaskInv

\* A call gets the mutex.
LEMMA EnterStep ==
  ASSUME TaskInv, use' = use, Enter
  PROVE  TaskInv'
<1>1. /\ call.pc = "lock" /\ mutex = "free" /\ call \in Calls
      /\ UNCHANGED App /\ UNCHANGED used /\ call.op # "idle"
  BY DEF Enter, TaskInv, CallFits
<1>2. SUBACK \in 0..15 /\ UNSUBACK \in 0..15
  BY DEF SUBACK, UNSUBACK
<1>3. CASE call.op = "connect"
  BY <1>1, <1>3, ConnectStep DEF Enter
<1>4. CASE call.op = "publish"
  BY <1>1, <1>4, PublishStep DEF Enter
<1>5. CASE call.op = "subscribe"
  BY <1>1, <1>2, <1>5, SubscribeStep DEF Enter
<1>6. CASE call.op = "unsubscribe"
  BY <1>1, <1>2, <1>6, SubscribeStep DEF Enter
<1>7. CASE call.op = "disconnect"
  BY <1>1, <1>7, DisconnectStep DEF Enter
<1> QED
  BY <1>1, <1>3, <1>4, <1>5, <1>6, <1>7 DEF Calls

\* The packet a call waits for has come.  Before the broker has taken
\* CONNECT it can only be a refusal.
LEMMA GotStep ==
  ASSUME TaskInv, use' = use, NEW s, Good(s), NEW p,
         Early => Opening(s.c, s.net), Got(s, p), call.pc = "wait",
         Early => (call.op = "connect" => p = Refusal),
         UNCHANGED <<broker, stolen, task>>,
         used' \in [connections : Nat \ {0}, calls : Nat, faults : Nat],
         used'.connections = used.connections
  PROVE  TaskInv'
<1>0. /\ use \in DOMAIN Uses /\ mutex # "task" /\ call \in Calls
      /\ Refusal.what = 5
  BY DEF TaskInv, Locked, CallFits, Refusal, Packet
<1>1. ASSUME NEW rc, Return(rc, s) PROVE TaskInv'
  BY <1>0, <1>1, ReturnStep
<1>2. ASSUME Fail(s) PROVE TaskInv'
  BY <1>0, <1>2, FailStep
<1>3. ASSUME NEW h \in SUBSET Topics, IsFiniteSet(h),
             Cardinality(h) <= MAX_MESSAGE_HANDLERS,
             Return(SUCCESS, [s EXCEPT !.c.handlers = h])
      PROVE  TaskInv'
  <2> DEFINE e == [s.c EXCEPT !.handlers = h]
             d == [s EXCEPT !.c = e]
  <2>1. Return(SUCCESS, d)
    BY <1>3
  <2>0. /\ Good(s) /\ h \in SUBSET Topics /\ IsFiniteSet(h)
        /\ Cardinality(h) <= MAX_MESSAGE_HANDLERS
    BY Zenon, <1>3
  <2>2. Good(d) /\ (Opening(s.c, s.net) => Opening(d.c, d.net))
    <3>1. /\ e \in Sessions /\ e.handlers = h
          /\ e.isconnected = s.c.isconnected
          /\ e.interval = s.c.interval
      BY ONLY <2>0 DEF Good, Sessions
    <3> HIDE DEF e
    <3>2. Whole(d) /\ d.c = e /\ d.t = s.t /\ d.net = s.net
      BY ONLY <2>0, SetSession DEF Good
    <3> HIDE DEF d
    <3> QED
      BY ONLY <2>0, <3>1, <3>2 DEF Good, TableFits, Opening, Unconnected
  <2> HIDE DEF e
  <2> HIDE DEF d
  <2> QED
    BY <1>0, <2>1, <2>2, ReturnStep
<1>4. /\ IsFiniteSet(s.c.handlers) /\ s.c.handlers \in SUBSET Topics
      /\ Cardinality(s.c.handlers) <= MAX_MESSAGE_HANDLERS
      /\ MAX_MESSAGE_HANDLERS \in Nat /\ Cardinality(s.c.handlers) \in Nat
  BY <1>0, UseFits, FS_CardinalityType DEF Good, TableFits, Sessions
<1>5. CASE call.op = "connect" /\ p.what = SUCCESS
  <2> DEFINE e == [[s.c EXCEPT !.isconnected = TRUE]
                        EXCEPT !.ping_outstanding = FALSE]
             d == [s EXCEPT !.c = e]
  <2>1. Return(SUCCESS, d)
    BY <1>5 DEF Got
  <2>2. ~Early
    BY <1>0, <1>5 DEF SUCCESS
  <2>3. e \in Sessions /\ e.handlers = s.c.handlers
    BY DEF Good, Sessions
  <2> HIDE DEF e
  <2>4. Whole(d) /\ d.c = e /\ d.t = s.t
    BY SetSession DEF Good
  <2>5. Good(d)
    BY <2>3, <2>4 DEF Good, TableFits
  <2> HIDE DEF d
  <2> QED
    BY <1>0, <2>1, <2>2, <2>5, ReturnStep
<1>6. CASE call.op = "connect" /\ p.what # SUCCESS
  <2>1. Return(p.what, s)
    BY <1>6 DEF Got
  <2> QED
    BY <2>1, <1>1
<1>7. CASE call.op = "subscribe" /\ p.what # 128
  <2>1. IF MQTTSetMessageHandler(s) = FAILURE THEN Fail(s)
        ELSE Return(SUCCESS, [s EXCEPT !.c.handlers = @ \cup {call.what}])
    BY <1>7 DEF Got
  <2>2. CASE MQTTSetMessageHandler(s) = FAILURE
    BY <2>1, <2>2, <1>2
  <2>3. CASE MQTTSetMessageHandler(s) # FAILURE
    <3> DEFINE h == s.c.handlers \cup {call.what}
    <3>1. call.what \in s.c.handlers
            \/ Cardinality(s.c.handlers) < MAX_MESSAGE_HANDLERS
      BY <2>3 DEF MQTTSetMessageHandler
    <3>2. h \in SUBSET Topics
      BY <1>4, <1>7 DEF TaskInv, CallFits
    <3>3. IsFiniteSet(h) /\ Cardinality(h) <= MAX_MESSAGE_HANDLERS
      <4> DEFINE k == s.c.handlers
      <4>1. IsFiniteSet(k) /\ Cardinality(k) \in Nat
        BY <1>4
      <4>2. /\ IsFiniteSet(k \cup {call.what})
            /\ Cardinality(k \cup {call.what}) =
                 IF call.what \in k THEN Cardinality(k)
                 ELSE Cardinality(k) + 1
        <5> HIDE DEF k
        <5> QED
          BY ONLY <4>1, FS_AddElement
      <4> QED
        BY <1>4, <3>1, <4>2
    <3>4. Return(SUCCESS, [s EXCEPT !.c.handlers = h])
      BY <2>1, <2>3
    <3> HIDE DEF h
    <3> QED
      BY ONLY <1>3, <3>2, <3>3, <3>4
  <2> QED
    BY <2>2, <2>3
<1>8. CASE call.op = "unsubscribe"
  <2> DEFINE h == s.c.handlers \ {call.what}
  <2>1. Return(SUCCESS, [s EXCEPT !.c.handlers = h])
    BY <1>8 DEF Got
  <2>2. h \in SUBSET Topics
    BY <1>4
  <2>3. IsFiniteSet(h) /\ Cardinality(h) <= MAX_MESSAGE_HANDLERS
    <3> DEFINE k == s.c.handlers
    <3>1. IsFiniteSet(k) /\ h \subseteq k
      BY <1>4
    <3>2. IsFiniteSet(h) /\ Cardinality(h) <= Cardinality(k)
      <4> HIDE DEF k, h
      <4> QED
        BY ONLY <3>1, FS_Subset
    <3>3. Cardinality(h) \in Nat
      BY <3>2, FS_CardinalityType
    <3> QED
      BY <1>4, <3>2, <3>3
  <2> HIDE DEF h
  <2> QED
    BY ONLY <1>3, <2>1, <2>2, <2>3
<1>9. CASE /\ call.op # "connect" /\ call.op # "unsubscribe"
           /\ ~(call.op = "subscribe" /\ p.what # 128)
  <2>1. Return(SUCCESS, s)
    BY <1>9 DEF Got
  <2> QED
    BY <2>1, <1>1
<1> QED
  BY <1>5, <1>6, <1>7, <1>8, <1>9

\* The packet has not come in time.
LEMMA MissedStep ==
  ASSUME TaskInv, use' = use, NEW s, Good(s),
         Early => Opening(s.c, s.net), Missed(s), call.pc = "wait",
         UNCHANGED <<broker, stolen, task>>,
         used' \in [connections : Nat \ {0}, calls : Nat, faults : Nat],
         used'.connections = used.connections
  PROVE  TaskInv'
<1>1. mutex # "task"
  BY DEF TaskInv, Locked
<1> QED
  BY <1>1, ReturnStep, FailStep DEF Missed

\* What a cycle leaves, whoever runs it.
LEMMA ReadStep ==
  ASSUME TaskInv, NEW r \in readPacket, Short(r)
  PROVE  /\ Good(cycle(r))
         /\ Early => Opening(cycle(r).c, cycle(r).net)
         /\ Early /\ cycle(r).rc = CONNACK => r.p = Refusal
         /\ used' \in [connections : Nat \ {0}, calls : Nat, faults : Nat]
         /\ used'.connections = used.connections
<1> DEFINE d == cycle(r)
           f == IF r.type = 0 /\ r.p.type # 0 THEN used.faults + 1
                ELSE used.faults
<1>1. use \in DOMAIN Uses /\ Good(S) /\ (Early => Opening(c, net))
  BY DEF TaskInv
<1>2. used' = [used EXCEPT !.faults = f]
  BY DEF Short
<1>3. used \in [connections : Nat \ {0}, calls : Nat, faults : Nat]
  BY DEF TaskInv
<1>4. f \in Nat
  BY <1>3
<1> HIDE DEF f
<1>5. /\ used' \in [connections : Nat \ {0}, calls : Nat, faults : Nat]
      /\ used'.connections = used.connections
  BY <1>2, <1>3, <1>4
<1> HIDE DEF d
<1>6. /\ Good(d)
      /\ d.rc = CONNACK => r.type = CONNACK
      /\ Opening(c, r.net) /\ r.type \in {0, 15, FAILURE, CONNACK}
           => Opening(d.c, d.net)
  BY <1>1, CycleGood DEF d
<1>7. Early => /\ r.type \in {0, 15, FAILURE, CONNACK}
               /\ r.type = CONNACK => r.p = Refusal
               /\ Opening(c, r.net)
  BY <1>1, EarlyRead
<1> QED
  BY <1>5, <1>6, <1>7 DEF d

\* waitfor() reads one packet.
LEMMA CallCycleStep ==
  ASSUME TaskInv, use' = use, CallCycle
  PROVE  TaskInv'
<1>1. PICK r \in readPacket :
        /\ Short(r)
        /\ CASE cycle(r).rc = call.want -> Got(cycle(r), r.p)
             [] cycle(r).rc # call.want /\ (cycle(r).rc < 0 \/ r.type = 0)
                  -> Missed(cycle(r))
             [] OTHER -> Apply(cycle(r)) /\ UNCHANGED <<call, ret, mutex>>
  BY DEF CallCycle
<1> DEFINE s == cycle(r)
<1>2. /\ Good(s) /\ (Early => Opening(s.c, s.net))
      /\ Early /\ s.rc = CONNACK => r.p = Refusal
  BY <1>1, ReadStep
<1>3. /\ used' \in [connections : Nat \ {0}, calls : Nat, faults : Nat]
      /\ used'.connections = used.connections
  BY <1>1, ReadStep
<1>4. call.pc = "wait" /\ UNCHANGED <<broker, stolen, task>>
  BY DEF CallCycle, App
<1>5. \/ s.rc = call.want /\ Got(s, r.p)
      \/ Missed(s)
      \/ Apply(s) /\ UNCHANGED <<call, ret, mutex>>
  BY <1>1
<1> HIDE DEF s
<1>6. CASE s.rc = call.want /\ Got(s, r.p)
  <2>1. Early => (call.op = "connect" => r.p = Refusal)
    BY <1>2, <1>4, <1>6 DEF TaskInv, CallFits
  <2> QED
    BY <1>2, <1>3, <1>4, <1>6, <2>1, GotStep
<1>7. CASE Missed(s)
  BY <1>2, <1>3, <1>4, <1>7, MissedStep
<1>8. CASE Apply(s) /\ UNCHANGED <<call, ret, mutex>>
  <2>1. CallFits' /\ Locked'
    BY <1>4, <1>8 DEF TaskInv, CallFits, Locked, Calls, Topics
  <2> QED
    BY <1>2, <1>3, <1>4, <1>8, <2>1, CallStep
<1> QED
  BY <1>5, <1>6, <1>7, <1>8

\* waitfor() gives up.
LEMMA CallExpiresStep ==
  ASSUME TaskInv, use' = use, CallExpires
  PROVE  TaskInv'
<1>1. S.c = c /\ S.net = net
  BY DEF S
<1> QED
  BY <1>1, MissedStep DEF CallExpires, App, TaskInv

-----------------------------------------------------------------------------
(* The background task                                                     *)
LEMMA RunStep ==
  ASSUME TaskInv, use' = use, RunEnters \/ RunCycles
  PROVE  TaskInv'
<1>1. CASE RunEnters
  <2>1. S' = S /\ BrokerWhole' /\ Early' = Early
    BY <1>1 DEF RunEnters, S, TaskInv, BrokerWhole, Early
  <2>2. Good(S)' /\ CallFits'
    BY <1>1, <2>1 DEF RunEnters, TaskInv, Good, TableFits, Sessions, Timers,
                      CallFits, Calls, Topics, StaleInterval, KeepAlive,
                      Longest,
                      Whole
  <2>3. Locked'
    BY <1>1 DEF RunEnters, TaskInv, Locked
  <2>4. Opening(c, net)' = Opening(c, net)
    BY <1>1, ZeroKept DEF RunEnters, Opening, Unconnected, EarlyNets
  <2> QED
    BY <1>1, <2>1, <2>2, <2>3, <2>4 DEF RunEnters, TaskInv
<1>2. CASE RunCycles
  <2>1. PICK r \in readPacket :
          /\ Apply(cycle(r)) /\ Short(r)
          /\ stolen' = (stolen \/ (call.pc = "wait" /\ r.type = call.want))
    BY <1>2 DEF RunCycles
  <2> DEFINE s == cycle(r)
  <2>2. Good(s) /\ (Early => Opening(s.c, s.net))
    BY <2>1, ReadStep
  <2>3. /\ used' \in [connections : Nat \ {0}, calls : Nat, faults : Nat]
        /\ used'.connections = used.connections
    BY <2>1, ReadStep
  <2>4. task = "in" /\ mutex = "task" /\ call.pc # "wait" /\ stolen = FALSE
    BY <1>2 DEF RunCycles, TaskInv, Locked
  <2>5. /\ task' = "out" /\ mutex' = "free" /\ UNCHANGED <<broker, call>>
        /\ stolen' = FALSE /\ Apply(s)
    BY <1>2, <2>1, <2>4 DEF RunCycles
  <2> HIDE DEF s
  <2>6. Locked'
    BY <2>4, <2>5 DEF Locked
  <2>7. CallFits'
    BY <2>5 DEF TaskInv, CallFits, Calls, Topics
  <2>8. Good(S)'
    BY <2>2, <2>5, ApplyGood DEF TaskInv
  <2>9. BrokerWhole' /\ Early' = Early
    BY <2>3, <2>5 DEF TaskInv, BrokerWhole, Early
  <2>10. Opening(s.c, s.net) => Opening(c, net)'
    BY <2>3, <2>5, ZeroKept DEF Apply, Opening, Unconnected, EarlyNets
  <2> QED
    BY <2>2, <2>3, <2>6, <2>7, <2>8, <2>9, <2>10 DEF TaskInv
<1> QED
  BY <1>1, <1>2

-----------------------------------------------------------------------------
(* Steps outside the client                                                *)

\* Nothing the client holds has changed.
LEMMA ClientStays ==
  ASSUME TaskInv, use' = use, UNCHANGED <<c, t, seen>>
  PROVE  Good(S)'
<1>1. S' = [c |-> c, t |-> t, net |-> net', seen |-> seen, rc |-> SUCCESS]
  BY DEF S
<1>2. /\ S.c = c /\ S.t = t /\ (S').c = c /\ (S').t = t
      /\ S' = [c |-> (S').c, t |-> (S').t, net |-> (S').net,
               seen |-> (S').seen, rc |-> (S').rc]
  BY <1>1 DEF S
<1>3. Sessions' = Sessions /\ Timers' = Timers
  BY DEF Sessions, Timers, Topics, StaleInterval, KeepAlive, Longest
<1> QED
  BY <1>2, <1>3 DEF TaskInv, Good, Whole, TableFits

\* The other thread makes a call.
LEMMA StartStep ==
  ASSUME TaskInv, use' = use,
         NEW op \in {"connect", "publish", "subscribe", "unsubscribe",
                     "disconnect"},
         NEW what \in Topics \cup {0, 1, 2}, Start(op, what),
         op = "connect" => what \in {0, 1}, op = "subscribe" => what \in Topics
  PROVE  TaskInv'
<1>1. /\ call.op = "idle" /\ UNCHANGED <<net, broker, c, t, seen>>
      /\ UNCHANGED <<mutex, task, stolen>>
      /\ call' = [op |-> op, pc |-> "lock", want |-> 0, what |-> what]
  BY DEF Start, Idle
<1>2. CallFits'
  <2>1. Calls' = Calls /\ Topics' = Topics
    BY DEF Calls, Topics
  <2>2. call' \in Calls
    BY <1>1 DEF Calls
  <2> QED
    BY <1>1, <2>1, <2>2 DEF CallFits
<1>3. Locked'
  BY <1>1 DEF Locked, TaskInv, CallFits
<1> DEFINE n == IF op = "connect" THEN used.calls ELSE used.calls + 1
<1>4. used' = [used EXCEPT !.calls = n] /\ n \in Nat
  BY DEF Start, TaskInv
<1> HIDE DEF n
<1>5. /\ used' \in [connections : Nat \ {0}, calls : Nat, faults : Nat]
      /\ used'.connections = used.connections
  BY <1>4 DEF TaskInv
<1>6. BrokerWhole' /\ Early' = Early
  BY <1>1, <1>5 DEF TaskInv, BrokerWhole, Early
<1>7. Opening(c, net)' = Opening(c, net)
  BY <1>1, <1>5, ZeroKept DEF Opening, Unconnected, EarlyNets
<1>8. Good(S)'
  BY <1>1, ClientStays
<1> QED
  BY <1>2, <1>3, <1>5, <1>6, <1>7, <1>8 DEF TaskInv

\* A step of the network or the broker: what the client does not see
\* happening.
LEMMA OutsideStep ==
  ASSUME TaskInv, use' = use, UNCHANGED Client, BrokerWhole',
         used' \in [connections : Nat \ {0}, calls : Nat, faults : Nat],
         Early' => Opening(c, net)'
  PROVE  TaskInv'
<1>1. Good(S)'
  BY ClientStays DEF Client
<1>2. CallFits' /\ Locked'
  BY DEF Client, TaskInv, CallFits, Calls, Topics, Locked
<1> QED
  BY <1>1, <1>2 DEF TaskInv

\* One on the same connection.
LEMMA OutsideKept ==
  ASSUME TaskInv, use' = use, UNCHANGED Client, BrokerWhole',
         used' \in [connections : Nat \ {0}, calls : Nat, faults : Nat],
         used'.connections = used.connections, Early' => Opening(c, net')
  PROVE  TaskInv'
<1>1. Opening(c, net') => Opening(c, net)'
  BY ZeroKept DEF Client, Opening, Unconnected, EarlyNets
<1> QED
  BY <1>1, OutsideStep

\* A new connection starts with what the last one left as interval.
LEMMA OpenNetworkStep ==
  ASSUME TaskInv, use' = use, OpenNetwork
  PROVE  TaskInv'
<1> DEFINE n == used.connections + 1
<1>1. /\ used' = [used EXCEPT !.connections = n] /\ UNCHANGED Client
      /\ broker' = [broker EXCEPT !.conn = FALSE]
  BY DEF OpenNetwork
<1>2. /\ used' \in [connections : Nat \ {0}, calls : Nat, faults : Nat]
      /\ used'.connections # 1
  BY <1>1 DEF TaskInv
<1>3. BrokerWhole'
  BY <1>1 DEF TaskInv, BrokerWhole
<1>4. c' = c /\ net' = NewNet /\ ~c.isconnected
  BY DEF OpenNetwork, Client
<1>5. IntervalIsZero' => StaleInterval = 0 /\ KeepAlive = 0
  BY <1>2 DEF IntervalIsZero, StaleInterval, KeepAlive
<1>6. c.interval \in {StaleInterval, KeepAlive} /\ c.isconnected \in BOOLEAN
  BY DEF TaskInv, Good, Sessions, S
<1>7. Opening(c, net)'
  <2>1. <<>> \in Seq(EarlyPackets) /\ <<>> \in Seq({Refusal})
    OBVIOUS
  <2>2. NewNet \in EarlyNets /\ NewNet.up = <<>> /\ NewNet.link = "up"
    BY <2>1 DEF NewNet, EarlyNets
  <2>3. EarlyNets' = EarlyNets
    BY DEF EarlyNets
  <2> QED
    BY <1>4, <1>5, <1>6, <2>2, <2>3 DEF Opening, Unconnected
<1> QED
  BY <1>1, <1>2, <1>3, <1>7, OutsideStep

\* A broker that has taken CONNECT stays connected.
LEMMA AnswerStep ==
  ASSUME TaskInv, use' = use, UNCHANGED Client, UNCHANGED used,
         BrokerWhole', broker'.conn = TRUE
  PROVE  TaskInv'
BY OutsideStep DEF Early, TaskInv

\* A connected broker stays connected whatever it takes.
LEMMA BrokerKeeps ==
  ASSUME BrokerWhole, NEW p, BrokerConnected(p)
  PROVE  BrokerWhole' /\ broker'.conn = broker.conn
<1>1. ASSUME BrokerTakesPublish(p)
      PROVE  BrokerWhole' /\ broker'.conn = broker.conn
  <2> DEFINE k == broker.taken \cup {p.id}
  <2>1. broker' = [broker EXCEPT !.taken = k] \/ broker' = broker
    BY <1>1 DEF BrokerTakesPublish, Answer
  <2> HIDE DEF k
  <2> QED
    BY <2>1 DEF BrokerWhole
<1>2. ASSUME BrokerTakesAck(p)
      PROVE  BrokerWhole' /\ broker'.conn = broker.conn
  <2>1. PICK k, a : \/ broker' = [broker EXCEPT !.out = k]
                    \/ broker' = [broker EXCEPT !.out = k, !.acked = a]
    BY <1>2, Zenon DEF BrokerTakesAck, Answer
  <2> QED
    BY <2>1 DEF BrokerWhole
<1>3. \/ BrokerTakesPublish(p) \/ BrokerTakesAck(p) \/ broker' = broker
      \/ \E k : broker' = [broker EXCEPT !.taken = k]
      \/ \E k : broker' = [broker EXCEPT !.subs = k]
  BY Zenon DEF BrokerConnected, Answer
<1> QED
  BY <1>1, <1>2, <1>3 DEF BrokerWhole

\* The broker reads: CONNECT, which it may refuse, or anything else.
LEMMA BrokerTakes ==
  ASSUME TaskInv, use' = use, Broker
  PROVE  TaskInv'
<1> DEFINE p == Head(net.up)
<1>1. UNCHANGED Client /\ UNCHANGED used /\ BrokerWhole
  BY DEF Broker, TaskInv
<1>2. used' \in [connections : Nat \ {0}, calls : Nat, faults : Nat]
  BY <1>1 DEF TaskInv
<1>3. CASE p.type = CONNECT /\ BrokerAccepts(p)
  <2> DEFINE fresh == [NoSession EXCEPT !.acked = broker.acked,
                                        !.sent = broker.sent]
             b == IF p.what = 1 \/ broker.clean THEN fresh ELSE broker
             v == p.what = 1
             d == [b EXCEPT !.conn = TRUE, !.clean = v]
  <2>1. broker' = d
    BY <1>3 DEF BrokerAccepts, Answer
  <2>2. fresh = [conn |-> fresh.conn, clean |-> fresh.clean,
                 subs |-> fresh.subs, out |-> fresh.out,
                 taken |-> fresh.taken, acked |-> fresh.acked,
                 sent |-> fresh.sent]
    <3> DEFINE x == [NoSession EXCEPT !.acked = broker.acked]
    <3>1. NoSession = [conn |-> NoSession.conn, clean |-> NoSession.clean,
                       subs |-> NoSession.subs, out |-> NoSession.out,
                       taken |-> NoSession.taken, acked |-> NoSession.acked,
                       sent |-> NoSession.sent]
      BY ONLY TRUE DEF NoSession
    <3>2. fresh = [x EXCEPT !.sent = broker.sent]
      OBVIOUS
    <3> HIDE DEF b, d, fresh
    <3>3. x = [conn |-> x.conn, clean |-> x.clean, subs |-> x.subs,
               out |-> x.out, taken |-> x.taken, acked |-> x.acked,
               sent |-> x.sent]
      BY ONLY <3>1
    <3> HIDE DEF x
    <3> QED
      BY ONLY <3>2, <3>3
  <2> HIDE DEF fresh, v
  <2>3. b = [conn |-> b.conn, clean |-> b.clean, subs |-> b.subs,
             out |-> b.out, taken |-> b.taken, acked |-> b.acked,
             sent |-> b.sent]
    BY <1>1, <2>2 DEF BrokerWhole
  <2> HIDE DEF b
  <2>4. BrokerWhole' /\ broker'.conn = TRUE
    BY <2>1, <2>3 DEF BrokerWhole
  <2> QED
    BY <1>1, <2>4, AnswerStep
<1>4. CASE BrokerRefuses
  <2> DEFINE n == [[[net EXCEPT !.up = <<>>] EXCEPT !.link = "closed"]
                         EXCEPT !.down = net.down \o <<Refusal>>]
  <2>1. net' = n /\ broker' = broker
    BY <1>4 DEF BrokerRefuses, Refusal
  <2>2. Early' = Early /\ BrokerWhole'
    BY <1>1, <2>1 DEF Early, BrokerWhole
  <2>3. Early => Opening(c, n)
    <3>1. SUFFICES ASSUME Early PROVE Opening(c, n)
      OBVIOUS
    <3>2. Opening(c, net)
      BY <3>1 DEF TaskInv
    <3>3. net \in EarlyNets /\ net.down \in Seq({Refusal})
      BY <3>2 DEF Opening, Unconnected, EarlyNets
    <3>4. <<Refusal>> \in Seq({Refusal})
      OBVIOUS
    <3>5. net.down \o <<Refusal>> \in Seq({Refusal})
      BY <3>3, <3>4, ConcatProperties
    <3>6. <<>> \in Seq(EarlyPackets)
      OBVIOUS
    <3>7. n \in EarlyNets /\ n.link = "closed" /\ n.up = <<>>
      BY <3>3, <3>5, <3>6 DEF EarlyNets
    <3> HIDE DEF n
    <3> QED
      BY <3>2, <3>7 DEF Opening, Unconnected
  <2> QED
    BY <1>1, <1>2, <2>1, <2>2, <2>3, OutsideKept
<1>5. CASE broker.conn /\ BrokerConnected(p)
  <2>1. BrokerWhole' /\ broker'.conn = TRUE
    BY <1>1, <1>5, BrokerKeeps DEF BrokerWhole
  <2> QED
    BY <1>1, <2>1, AnswerStep
<1>6. CASE BrokerCloses
  <2> DEFINE n == [[net EXCEPT !.up = <<>>] EXCEPT !.link = "closed"]
  <2>1. net' = n /\ broker' = broker
    BY <1>6 DEF BrokerCloses
  <2>2. Early' = Early /\ BrokerWhole'
    BY <1>1, <2>1 DEF Early, BrokerWhole
  <2>3. Early => Opening(c, n)
    <3>1. SUFFICES ASSUME Early PROVE Opening(c, n)
      OBVIOUS
    <3>2. Opening(c, net) /\ net \in EarlyNets
      BY <3>1 DEF TaskInv, Opening, Unconnected
    <3>3. <<>> \in Seq(EarlyPackets)
      OBVIOUS
    <3>4. n \in EarlyNets /\ n.link = "closed" /\ n.up = <<>>
      BY <3>2, <3>3 DEF EarlyNets
    <3> HIDE DEF n
    <3> QED
      BY <3>2, <3>4 DEF Opening, Unconnected
  <2> QED
    BY <1>1, <1>2, <2>1, <2>2, <2>3, OutsideKept
<1> QED
  BY <1>3, <1>4, <1>5, <1>6, Zenon DEF Broker, BrokerStep

\* The broker publishes, once it is connected.
LEMMA ArrivesStep ==
  ASSUME TaskInv, use' = use, NEW topic, NEW qos, NEW long,
         Arrives(topic, qos, long)
  PROVE  TaskInv'
<1>1. /\ UNCHANGED Client /\ UNCHANGED used /\ broker.conn
      /\ BrokerPublishes(topic, qos, long)
  BY DEF Arrives, BrokerPublishes
<1>2. \E k, o : broker' = [broker EXCEPT !.sent = k, !.out = o]
  BY <1>1, Zenon DEF BrokerPublishes
<1>3. BrokerWhole' /\ broker'.conn = TRUE
  BY <1>1, <1>2 DEF TaskInv, BrokerWhole
<1> QED
  BY <1>1, <1>3, AnswerStep

\* A connection that fails carries nothing up.
LEMMA FailsStep ==
  ASSUME TaskInv, use' = use, NEW how \in {"cut", "closed"}, Fails(how)
  PROVE  TaskInv'
<1> DEFINE f == used.faults + 1
<1>1. /\ UNCHANGED Client /\ broker' = broker
      /\ used' = [used EXCEPT !.faults = f] /\ Break(how)
  BY Zenon DEF Fails, Break
<1>2. /\ used' \in [connections : Nat \ {0}, calls : Nat, faults : Nat]
      /\ used'.connections = used.connections
  BY <1>1 DEF TaskInv
<1>3. Early' = Early /\ BrokerWhole'
  BY <1>1, <1>2 DEF Early, TaskInv, BrokerWhole
<1>4. Early => Opening(c, net')
  <2>1. SUFFICES ASSUME Early PROVE Opening(c, net')
    OBVIOUS
  <2>2. Opening(c, net) /\ net \in EarlyNets /\ net.down \in Seq({Refusal})
    BY <2>1 DEF TaskInv, Opening, Unconnected, EarlyNets
  <2>3. PICK k \in 0..Len(net.down) :
          net' = [net EXCEPT !.link = how, !.up = <<>>,
                             !.down = SubSeq(@, 1, k)]
    BY <1>1, Zenon DEF Break
  <2> DEFINE e == SubSeq(net.down, 1, k)
             n == [[[net EXCEPT !.link = how] EXCEPT !.up = <<>>]
                         EXCEPT !.down = e]
  <2>4. net' = n
    BY <2>3
  <2>5. e \in Seq({Refusal}) /\ <<>> \in Seq(EarlyPackets)
    BY <2>2, SubSeqProperties
  <2> HIDE DEF e
  <2>6. n \in EarlyNets /\ n.link = how /\ n.up = <<>>
    BY <2>2, <2>5 DEF EarlyNets
  <2> HIDE DEF n
  <2> QED
    BY <2>2, <2>4, <2>6 DEF Opening, Unconnected
<1> QED
  BY <1>1, <1>2, <1>3, <1>4, OutsideKept

\* Time passes: the timers only fall.
LEMMA TickStep ==
  ASSUME TaskInv, use' = use, Tick
  PROVE  TaskInv'
<1>1. UNCHANGED <<net, broker, c, seen, mutex, task, call, stolen, used>>
  BY DEF Tick
<1>2. t' \in Timers
  <2>1. t \in Timers /\ Longest \in Nat
    BY UseFits DEF TaskInv, Good, S
  <2>2. t' = [k \in {"sent", "received"} |->
                IF t[k] = 0 THEN 0 ELSE t[k] - 1]
    BY <2>1 DEF Tick, Timers
  <2> QED
    BY <2>1, <2>2 DEF Timers
<1>3. Good(S)'
  <2>1. S' = [c |-> c, t |-> t', net |-> net, seen |-> seen, rc |-> SUCCESS]
    BY <1>1 DEF S
  <2>2. /\ S.c = c /\ (S').c = c /\ (S').t = t'
        /\ S' = [c |-> (S').c, t |-> (S').t, net |-> (S').net,
                 seen |-> (S').seen, rc |-> (S').rc]
    BY <2>1 DEF S
  <2>3. Sessions' = Sessions /\ Timers' = Timers
    BY DEF Sessions, Timers, Topics, StaleInterval, KeepAlive, Longest
  <2> QED
    BY <1>2, <2>2, <2>3 DEF TaskInv, Good, Whole, TableFits
<1>4. CallFits' /\ Locked' /\ BrokerWhole' /\ Early' = Early
  BY <1>1 DEF TaskInv, CallFits, Calls, Topics, Locked, BrokerWhole, Early
<1>5. Opening(c, net)' = Opening(c, net)
  BY <1>1, ZeroKept DEF Opening, Unconnected, EarlyNets
<1> QED
  BY <1>1, <1>3, <1>4, <1>5 DEF TaskInv

-----------------------------------------------------------------------------
(* The theorem                                                             *)

\* MQTTClientInit(): nothing was sent, nothing is held.
LEMMA TaskBegins ==
  ASSUME TaskInit
  PROVE  TaskInv
<1>0. /\ use \in DOMAIN Uses /\ Longest \in Nat
      /\ MAX_PACKET_ID \in Nat \ {0} /\ MAX_MESSAGE_HANDLERS \in Nat
  BY UseFits DEF TaskInit
<1>1. S = [c |-> c, t |-> t, net |-> net, seen |-> seen, rc |-> SUCCESS]
      /\ Whole(S) /\ S.c = c /\ S.t = t
  BY DEF S, Whole
<1>2. c \in Sessions /\ c.handlers = {}
  BY <1>0 DEF TaskInit, Sessions
<1>3. t \in Timers
  <2>1. t = [sent |-> 0, received |-> 0]
    BY DEF TaskInit
  <2> QED
    BY <1>0, <2>1 DEF Timers
<1>4. Good(S)
  BY <1>0, <1>1, <1>2, <1>3, FS_EmptySet DEF Good, TableFits
<1>5. CallFits /\ Locked
  BY DEF TaskInit, CallFits, Calls, Locked, Idle
<1>6. BrokerWhole
  BY DEF TaskInit, NoSession, BrokerWhole
<1>7. Early => Opening(c, net)
  <2>1. <<>> \in Seq(EarlyPackets) /\ <<>> \in Seq({Refusal})
    OBVIOUS
  <2>2. net \in EarlyNets /\ net.up = <<>> /\ net.link = "up"
    BY <2>1 DEF TaskInit, NewNet, EarlyNets
  <2>3. c.isconnected = FALSE /\ c.interval = StaleInterval
    BY DEF TaskInit
  <2>4. IntervalIsZero => c.interval = 0
    BY <2>3 DEF IntervalIsZero
  <2> QED
    BY <2>2, <2>3, <2>4 DEF Opening, Unconnected
<1> QED
  BY <1>0, <1>4, <1>5, <1>6, <1>7 DEF TaskInit, TaskInv

\* Every step of the two threads keeps the invariant.
LEMMA TaskKeeps ==
  ASSUME TaskInv, [TaskNext]_<<taskVars, use>>
  PROVE  TaskInv'
<1>1. CASE TaskNext
  <2>1. use' = use /\ use \in DOMAIN Uses
    BY <1>1 DEF TaskNext, TaskInv
  <2>2. ASSUME NEW clean \in {0, 1}, Start("connect", clean) PROVE TaskInv'
    BY <2>1, <2>2, StartStep
  <2>3. ASSUME NEW qos \in OutQoS, Start("publish", qos) PROVE TaskInv'
    <3>1. qos \in {0, 1, 2}
      BY <2>1, UseFits
    <3> QED
      BY <2>1, <2>3, <3>1, StartStep
  <2>4. ASSUME NEW topic \in Topics, NEW op \in {"subscribe", "unsubscribe"},
               Start(op, topic)
        PROVE  TaskInv'
    BY <2>1, <2>4, StartStep
  <2>5. CASE Start("disconnect", 0)
    BY <2>1, <2>5, StartStep
  <2>6. CASE Enter \/ CallCycle \/ CallExpires
    BY <2>1, <2>6, EnterStep, CallCycleStep, CallExpiresStep
  <2>7. CASE RunEnters \/ RunCycles
    BY <2>1, <2>7, RunStep
  <2>8. CASE OpenNetwork \/ Broker \/ Tick
    BY <2>1, <2>8, OpenNetworkStep, BrokerTakes, TickStep
  <2>9. ASSUME NEW topic, NEW qos, NEW long, Arrives(topic, qos, long)
        PROVE  TaskInv'
    BY <2>1, <2>9, ArrivesStep
  <2>10. ASSUME NEW how \in {"cut", "closed"}, Fails(how) PROVE TaskInv'
    BY <2>1, <2>10, FailsStep
  <2> QED
    BY <1>1, <2>2, <2>3, <2>4, <2>5, <2>6, <2>7, <2>8, <2>9, <2>10
       DEF TaskNext, TaskStep
<1>2. CASE UNCHANGED <<taskVars, use>>
  <2>1. /\ use' = use /\ UNCHANGED Client /\ UNCHANGED used
        /\ net' = net /\ broker' = broker
    BY <1>2 DEF taskVars, Client
  <2>2. BrokerWhole' /\ Early' = Early
    BY <2>1 DEF TaskInv, BrokerWhole, Early
  <2> QED
    BY <2>1, <2>2, OutsideKept DEF TaskInv
<1> QED
  BY <1>1, <1>2

\* What the handlers' table, the ids and the mutex promise.
TablesHold ==
  /\ c.handlers \subseteq Topics /\ c.next \in 1..MAX_PACKET_ID
  /\ Cardinality(c.handlers) <= MAX_MESSAGE_HANDLERS
  /\ call.pc = "wait" => mutex = "app" /\ task = "out"

(* Whatever the interval was before MQTTConnect(): MQTTRun() is not inside *)
(* cycle() while a call waits and takes no packet the call waits for, the  *)
(* ids stay within their range and the table of handlers within its size.  *)
THEOREM ThreadsAreApart == TaskSpec => [](TablesHold /\ AckNotStolen)
<1>1. TaskInit => TaskInv
  BY TaskBegins
<1>2. TaskInv /\ [TaskNext]_<<taskVars, use>> => TaskInv'
  BY TaskKeeps
<1>3. TaskInv => TablesHold /\ AckNotStolen
  <2>1. SUFFICES ASSUME TaskInv PROVE TablesHold /\ AckNotStolen
    OBVIOUS
  <2>2. c \in Sessions /\ TableFits(S) /\ S.c = c
    BY <2>1 DEF TaskInv, Good, S
  <2> QED
    BY <2>1, <2>2 DEF TaskInv, Locked, TablesHold, AckNotStolen, Sessions,
                      TableFits
<1> QED
  BY <1>1, <1>2, <1>3, PTL DEF TaskSpec

(* Whatever the interval was before MQTTConnect(): the threads take no     *)
(* packet from each other; until the broker has taken CONNECT the client   *)
(* sends nothing but CONNECT, DISCONNECT and pings, and with an interval   *)
(* of 0 no ping before CONNECT; table, ids and timers keep their bounds.   *)
THEOREM TaskIsSafe == TaskSpec => []TaskSafe
<1>1. TaskInit => TaskInv
  BY TaskBegins
<1>2. TaskInv /\ [TaskNext]_<<taskVars, use>> => TaskInv'
  BY TaskKeeps
<1>3. TaskInv => TaskSafe
  <2>1. SUFFICES ASSUME TaskInv PROVE TaskSafe
    OBVIOUS
  <2>2. c \in Sessions /\ t \in Timers /\ TableFits(S) /\ S.c = c
    BY <2>1 DEF TaskInv, Good, S
  <2>3. TaskTypeOK
    BY <2>1, <2>2 DEF TaskInv, Locked, TaskTypeOK, Sessions, Timers, TableFits
  <2>4. AckNotStolen
    BY <2>1 DEF TaskInv, Locked, AckNotStolen
  <2>5. ConnectComesFirst
    <3>1. SUFFICES ASSUME Early PROVE ConnectComesFirst
      BY DEF Early, ConnectComesFirst
    <3>2. /\ net.up \in Seq(EarlyPackets)
          /\ IntervalIsZero /\ net.up # <<>> => Opens(Head(net.up))
      BY <2>1, <3>1 DEF TaskInv, Opening, Unconnected, EarlyNets
    <3>3. \A p \in EarlyPackets : p.type \in {CONNECT, DISCONNECT, PINGREQ}
      BY DEF EarlyPackets, Packet
    <3>4. PINGREQ \notin {CONNECT, DISCONNECT}
      BY DEF PINGREQ, CONNECT, DISCONNECT
    <3> QED
      BY <3>2, <3>3, <3>4 DEF ConnectComesFirst, Opens
  <2> QED
    BY <2>3, <2>4, <2>5 DEF TaskSafe
<1> QED
  BY <1>1, <1>2, <1>3, PTL DEF TaskSpec
=============================================================================
