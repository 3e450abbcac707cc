------------------------- MODULE MqttPublishProofs -------------------------
(***************************************************************************)
(* What publish() of the blocking client of MQTTClient.h promises: SUCCESS *)
(* means that the broker has the message, and a session that is kept loses *)
(* none.  The client compares no packet ids, so both rest on this: only    *)
(* one packet on the wire can end a publish(), and it is the call's own.   *)
(***************************************************************************)
EXTENDS MqttProofs

\* A use that publishes with QoS 2, in the build that has it, always or never
\* asks for a clean session.
OneKindOfSession ==
  \A u \in DOMAIN Uses :
    Uses[u].qos2build /\ 2 \in Uses[u].outQoS => Uses[u].clean # BOOLEAN

QoS2Used == QOS2Build /\ 2 \in OutQoS
KeepsSessions == TRUE \notin CleanOptions

\* The packets that take a publish() to its end, client's and broker's.
UpTokens ==
  {p \in Packets : \/ p.type = PUBLISH /\ (p.qos \in 0..2 => AckOf(p.qos) # 0)
                   \/ p.type = PUBREL}
DownTokens ==
  {p \in Packets : \/ p.type = PUBACK
                   \/ QOS2Build /\ p.type \in {PUBREC, PUBCOMP}}

\* The QoS 2 ids the broker holds, as far as a use can bring them about.
Took(b) == IF QoS2Used THEN b.taken ELSE {}

\* The call waits for the end of a publish(), the present one or an old one.
Awaits(k) == k.op \in {"publish", "resend"}

\* What such a packet says of the call and of the broker.
UpMeans(p, k, b, g) ==
  IF p.type = PUBLISH
  THEN /\ p.msg = k.msg /\ k.want = AckOf(p.qos)
       /\ Took(b) \subseteq IF p.qos = 2 THEN {p.id} ELSE {}
       /\ p.id \in Took(b) => g[k.msg] > 0
  ELSE g[k.msg] > 0 /\ k.want = PUBCOMP /\ Took(b) \subseteq {p.id}
DownMeans(p, k, b, g) ==
  /\ g[k.msg] > 0
  /\ k.want = IF p.type = PUBACK THEN PUBACK ELSE PUBCOMP
  /\ Took(b) \subseteq IF p.type = PUBREC THEN {p.id} ELSE {}

\* One such packet at most is on the wire, and it belongs to the call.
OneToken(nn, k, b, g) ==
  /\ Once(nn.up, UpTokens) /\ Once(nn.down, DownTokens)
  /\ Lacks(nn.up, UpTokens) \/ Lacks(nn.down, DownTokens)
  /\ Lacks(nn.up, {p \in UpTokens : ~UpMeans(p, k, b, g)})
  /\ Lacks(nn.down, {p \in DownTokens : ~DownMeans(p, k, b, g)})
NoToken(nn) == Lacks(nn.up, UpTokens) /\ Lacks(nn.down, DownTokens)

TokensFit(cc, nn, k, b, g) ==
  /\ Awaits(k) => OneToken(nn, k, b, g)
  /\ ~Awaits(k) /\ (cc.isconnected \/ k.op = "connect") => NoToken(nn)

\* A new network carries nothing; what is in flight and waited for.
Starts(cc, nn, k, b) ==
  /\ nn.fresh => /\ nn.up = <<>> /\ nn.down = <<>> /\ ~cc.isconnected
                 /\ k.op = "idle" /\ ~b.conn
  /\ k.op \in {"connect", "resend"} => ~cc.isconnected
  /\ cc.inflight.id > 0 =>
       cc.inflight.msg \in Outgoing /\ cc.inflight.qos \in OutQoS \ {0}
  /\ Awaits(k) =>
       /\ k.msg \in Outgoing
       /\ k.want = PUBACK \/ (QoS2Used /\ k.want = PUBCOMP)
       /\ ~cc.cleansession => cc.inflight.msg = k.msg

\* What is kept is in flight or was received.
KeptFits(cc, k, g, kp) ==
  /\ kp \subseteq Outgoing /\ (cc.cleansession => kp = {})
  /\ \A m \in kp : g[m] > 0 \/ (cc.inflight.id > 0 /\ cc.inflight.msg = m)
  /\ cc.inflight.id > 0 /\ cc.inflight.msg \in kp =>
       /\ AckOf(cc.inflight.qos) # 0
       /\ cc.isconnected /\ ~Awaits(k) => g[cc.inflight.msg] > 0

\* The broker has answered CONNECT with an empty table, or not at all.
Cleared(nn, b) ==
  /\ Lacks(nn.up, Without(CONNECT, 1))
  /\ b.conn => Took(b) = {}
  /\ b.conn \/ Lacks(nn.down, With(CONNACK, 0))

\* QoS 2 publishes other than the one in flight.
Strays(i) ==
  {p \in Of({PUBLISH}) :
     /\ p.qos = 2
     /\ ~(i.id > 0 /\ i.qos = 2 /\ p.id = i.id /\ p.msg = i.msg)}

\* An id in the broker's table is the one in flight, or the table is cleared
\* by the next CONNECT.
TakenKept(cc, nn, b, g) ==
  /\ cc.cleansession => nn.fresh /\ Took(b) = {}
  /\ Took(b) # {} =>
       /\ cc.inflight.id > 0 /\ cc.inflight.qos = 2
       /\ Took(b) \subseteq {cc.inflight.id} /\ g[cc.inflight.msg] > 0
  /\ Lacks(nn.up, Strays(cc.inflight))
TakenDropped(cc, nn, k, b) ==
  /\ cc.cleansession /\ cc.inflight = NoInflight
  /\ k.op = "connect" => Cleared(nn, b)
TakenFits(cc, nn, k, b, g) ==
  QoS2Used =>
    /\ cc.isconnected /\ ~Awaits(k) => Took(b) = {}
    /\ KeepsSessions => TakenKept(cc, nn, b, g)
    /\ ~KeepsSessions => TakenDropped(cc, nn, k, b)

PubFits(cc, nn, k, b, g, kp) ==
  /\ Starts(cc, nn, k, b) /\ TokensFit(cc, nn, k, b, g)
  /\ KeptFits(cc, k, g, kp) /\ TakenFits(cc, nn, k, b, g)

PubInv == PubFits(c, net, call, broker, got, kept)

-----------------------------------------------------------------------------
(* Of what the parts of the invariant are made.                            *)

LEMMA TokenTypes ==
  /\ \A p \in UpTokens : p.type \in {PUBLISH, PUBREL} /\ p \in Packets
  /\ \A p \in DownTokens : p.type \in {PUBACK, PUBREC, PUBCOMP} /\ p \in Packets
BY DEF UpTokens, DownTokens

\* The definitions say the same of a use in every state.
LEMMA TokensStay ==
  ASSUME UNCHANGED use
  PROVE  /\ UpTokens' = UpTokens /\ DownTokens' = DownTokens
         /\ QoS2Used' = QoS2Used /\ KeepsSessions' = KeepsSessions
BY SameUse DEF UpTokens, DownTokens, QoS2Used, KeepsSessions
LEMMA PubNext ==
  ASSUME UNCHANGED use, PubFits(c', net', call', broker', got', kept')
  PROVE  PubInv'
<1>1. Starts(c, net, call, broker)'
  BY SameUse, TokensStay DEF PubFits, Starts, Awaits
<1>2. TokensFit(c, net, call, broker, got)'
  BY SameUse, TokensStay
  DEF PubFits, TokensFit, Awaits, OneToken, NoToken, UpMeans, DownMeans, Took,
      Lacks, Once
<1>3. KeptFits(c, call, got, kept)'
  BY SameUse DEF PubFits, KeptFits, Awaits
<1>4. TakenFits(c, net, call, broker, got)'
  BY SameUse, TokensStay
  DEF PubFits, TakenFits, TakenKept, TakenDropped, Cleared, Took, Strays,
      Awaits, Lacks, Of, With, Without
<1> QED
  BY <1>1, <1>2, <1>3, <1>4 DEF PubInv, PubFits
LEMMA PubReturn ==
  ASSUME UNCHANGED <<use, broker, got, kept>>, NEW op, NEW rc, NEW d,
         Return(op, rc, d), PubFits(d.c, d.net, Idle, broker, got, kept)
  PROVE  PubInv'
BY PubNext DEF Return, Apply
LEMMA PubWait ==
  ASSUME UNCHANGED <<use, broker, got, kept>>, NEW k, NEW d, Wait(k, d),
         PubFits(d.c, d.net, k, broker, got, kept)
  PROVE  PubInv'
BY PubNext DEF Wait, Apply

\* What was received stays received.
Grows(g, h) == \A m \in Outgoing : g[m] > 0 => h[m] > 0

\* v has no more of these packets than u.
Fewer(u, v, T) ==
  \A P \in SUBSET T : /\ Lacks(u, P) => Lacks(v, P)
                      /\ Once(u, P) => Once(v, P)

\* Fewer on the wire, less in the broker's table, more received.
LEMMA TokensFewer ==
  ASSUME NEW cc, NEW nn, NEW mm, NEW k, NEW b, NEW e, NEW g, NEW h,
         TokensFit(cc, nn, k, b, g), Awaits(k) => k.msg \in Outgoing,
         Fewer(nn.up, mm.up, UpTokens), Fewer(nn.down, mm.down, DownTokens),
         Took(e) \subseteq Took(b), Grows(g, h)
  PROVE  TokensFit(cc, mm, k, e, h)
<1>1. NoToken(nn) => NoToken(mm)
  BY DEF NoToken, Fewer
<1>2. ASSUME Awaits(k), OneToken(nn, k, b, g) PROVE OneToken(mm, k, e, h)
  <2> DEFINE U(bb, gg) == {p \in UpTokens : ~UpMeans(p, k, bb, gg)}
             D(bb, gg) == {p \in DownTokens : ~DownMeans(p, k, bb, gg)}
  <2>1. g[k.msg] > 0 => h[k.msg] > 0
    BY <1>2 DEF Grows
  <2>2. U(e, h) \subseteq U(b, g)
    BY <2>1 DEF UpMeans
  <2>3. D(e, h) \subseteq D(b, g)
    BY <2>1 DEF DownMeans
  <2>4. Lacks(nn.up, U(b, g)) /\ Lacks(nn.down, D(b, g))
    BY <1>2 DEF OneToken
  <2>5. U(e, h) \subseteq UpTokens /\ D(e, h) \subseteq DownTokens
    OBVIOUS
  <2> HIDE DEF U, D
  <2>6. Lacks(nn.up, U(e, h)) /\ Lacks(nn.down, D(e, h))
    BY <2>2, <2>3, <2>4 DEF Lacks
  <2>7. Lacks(mm.up, U(e, h)) /\ Lacks(mm.down, D(e, h))
    BY <2>5, <2>6 DEF Fewer
  <2>8. /\ Once(mm.up, UpTokens) /\ Once(mm.down, DownTokens)
        /\ Lacks(mm.up, UpTokens) \/ Lacks(mm.down, DownTokens)
    BY <1>2 DEF OneToken, Fewer
  <2> QED
    BY <2>7, <2>8 DEF OneToken, U, D
<1> QED
  BY <1>1, <1>2 DEF TokensFit
LEMMA TokensLess ==
  ASSUME NEW cc, NEW nn, NEW mm, NEW k, NEW b, NEW e, NEW g, NEW h,
         TokensFit(cc, nn, k, b, g), Awaits(k) => k.msg \in Outgoing,
         Less(nn.up, mm.up, {PUBLISH, PUBREL}),
         Less(nn.down, mm.down, {PUBACK, PUBREC, PUBCOMP}),
         Took(e) \subseteq Took(b), Grows(g, h)
  PROVE  TokensFit(cc, mm, k, e, h)
<1>1. Fewer(nn.up, mm.up, UpTokens)
  <2> SUFFICES ASSUME NEW P \in SUBSET UpTokens
               PROVE  /\ Lacks(nn.up, P) => Lacks(mm.up, P)
                      /\ Once(nn.up, P) => Once(mm.up, P)
    BY DEF Fewer
  <2>1. \A x \in P : x.type \in {PUBLISH, PUBREL}
    BY TokenTypes
  <2> QED
    BY <2>1 DEF Less
<1>2. Fewer(nn.down, mm.down, DownTokens)
  <2> SUFFICES ASSUME NEW P \in SUBSET DownTokens
               PROVE  /\ Lacks(nn.down, P) => Lacks(mm.down, P)
                      /\ Once(nn.down, P) => Once(mm.down, P)
    BY DEF Fewer
  <2>1. \A x \in P : x.type \in {PUBACK, PUBREC, PUBCOMP}
    BY TokenTypes
  <2> QED
    BY <2>1 DEF Less
<1> QED
  BY <1>1, <1>2, TokensFewer

\* What the table may hold goes on to hold with less on the wire.
LEMMA TakenLess ==
  ASSUME NEW cc, NEW nn, NEW mm, NEW k, NEW b, NEW e, NEW g, NEW h,
         TakenFits(cc, nn, k, b, g),
         cc.inflight.id > 0 => cc.inflight.msg \in Outgoing,
         Less(nn.up, mm.up, {PUBLISH}), nn.fresh => mm.fresh,
         Cleared(nn, b) => Cleared(mm, e),
         Took(e) \subseteq Took(b), Grows(g, h)
  PROVE  TakenFits(cc, mm, k, e, h)
<1>1. Took(b) = {} => Took(e) = {}
  OBVIOUS
<1>2. ASSUME TakenKept(cc, nn, b, g) PROVE TakenKept(cc, mm, e, h)
  <2>1. \A x \in Strays(cc.inflight) : x.type \in {PUBLISH}
    BY DEF Strays, Of
  <2>2. Lacks(mm.up, Strays(cc.inflight))
    BY <1>2, <2>1 DEF TakenKept, Less
  <2>3. Took(e) # {} => Took(b) # {}
    BY <1>1
  <2>4. cc.inflight.id > 0 /\ g[cc.inflight.msg] > 0 =>
          h[cc.inflight.msg] > 0
    BY DEF Grows
  <2> QED
    BY <1>1, <1>2, <2>2, <2>3, <2>4 DEF TakenKept
<1>3. TakenDropped(cc, nn, k, b) => TakenDropped(cc, mm, k, e)
  BY DEF TakenDropped
<1> QED
  BY <1>1, <1>2, <1>3 DEF TakenFits

LEMMA PubWires ==
  ASSUME NEW cc, NEW nn, NEW mm, NEW k, NEW b, NEW e, NEW g, NEW h, NEW kp,
         PubFits(cc, nn, k, b, g, kp), ~nn.fresh, ~mm.fresh,
         TokensFit(cc, mm, k, e, h), Less(nn.up, mm.up, {PUBLISH}),
         Cleared(nn, b) => Cleared(mm, e),
         Took(e) \subseteq Took(b), Grows(g, h)
  PROVE  PubFits(cc, mm, k, e, h, kp)
<1>1. Starts(cc, mm, k, e)
  BY DEF PubFits, Starts
<1>2. KeptFits(cc, k, h, kp)
  BY DEF PubFits, KeptFits, Grows
<1>3. TakenFits(cc, mm, k, e, h)
  BY TakenLess DEF PubFits, Starts
<1> QED
  BY <1>1, <1>2, <1>3 DEF PubFits

\* The broker's table and what came down from it are known to be cleared as
\* long as no other CONNECT and no CONNACK is added.
LEMMA ClearedKept ==
  ASSUME NEW nn, NEW mm, NEW b, NEW e, Cleared(nn, b),
         Less(nn.up, mm.up, {CONNECT}), Less(nn.down, mm.down, {CONNACK}),
         e.conn = b.conn, Took(e) \subseteq Took(b)
  PROVE  Cleared(mm, e)
<1>1. Lacks(mm.up, Without(CONNECT, 1))
  BY LessOf DEF Cleared
<1>2. Lacks(nn.down, With(CONNACK, 0)) => Lacks(mm.down, With(CONNACK, 0))
  BY LessOf
<1> QED
  BY <1>1, <1>2 DEF Cleared

-----------------------------------------------------------------------------
(* The client's session, and one turn of the loop.                         *)

\* A session that is closed, and forgotten if it is a clean one.
LEMMA PubSession ==
  ASSUME NEW cc, NEW dd, NEW nn, NEW k, NEW b, NEW g, NEW kp,
         PubFits(cc, nn, k, b, g, kp),
         dd.isconnected => cc.isconnected,
         dd.cleansession = cc.cleansession,
         \/ dd.inflight = cc.inflight
         \/ cc.cleansession /\ dd.inflight = NoInflight
  PROVE  PubFits(dd, nn, k, b, g, kp)
<1>1. Starts(dd, nn, k, b)
  BY DEF PubFits, Starts, NoInflight
<1>2. TokensFit(dd, nn, k, b, g)
  BY DEF PubFits, TokensFit
<1>3. KeptFits(dd, k, g, kp)
  BY DEF PubFits, KeptFits, NoInflight
<1>4. TakenFits(dd, nn, k, b, g)
  <2>1. ASSUME QoS2Used, KeepsSessions PROVE TakenKept(dd, nn, b, g)
    <3>1. TakenKept(cc, nn, b, g)
      BY <2>1 DEF PubFits, TakenFits
    <3>2. CASE dd.inflight = cc.inflight
      BY <3>1, <3>2 DEF TakenKept
    <3>3. CASE cc.cleansession
      <4>1. Took(b) = {} /\ nn.fresh /\ Len(nn.up) = 0
        BY <3>1, <3>3 DEF TakenKept, PubFits, Starts
      <4>2. Lacks(nn.up, Strays(dd.inflight))
        BY <4>1 DEF Lacks
      <4> QED
        BY <4>1, <4>2 DEF TakenKept
    <3> QED
      BY <3>2, <3>3
  <2>2. ASSUME QoS2Used, ~KeepsSessions PROVE TakenDropped(dd, nn, k, b)
    BY <2>2 DEF PubFits, TakenFits, TakenDropped
  <2> QED
    BY <2>1, <2>2 DEF PubFits, TakenFits
<1> QED
  BY <1>1, <1>2, <1>3, <1>4 DEF PubFits

\* A call that ends without a session.
LEMMA PubEnds ==
  ASSUME NEW cc, NEW nn, NEW k, NEW b, NEW g, NEW kp,
         PubFits(cc, nn, k, b, g, kp), ~cc.isconnected
  PROVE  PubFits(cc, nn, Idle, b, g, kp)
<1>1. Idle.op = "idle"
  BY DEF Idle
<1>2. Starts(cc, nn, Idle, b)
  BY <1>1 DEF PubFits, Starts, Awaits
<1>3. TokensFit(cc, nn, Idle, b, g)
  BY <1>1 DEF TokensFit, Awaits
<1>4. KeptFits(cc, Idle, g, kp)
  BY DEF PubFits, KeptFits
<1>5. TakenFits(cc, nn, Idle, b, g)
  BY <1>1 DEF PubFits, TakenFits, TakenDropped
<1> QED
  BY <1>2, <1>3, <1>4, <1>5 DEF PubFits

\* Of a call that waits for no ack only whether it is connect() matters.
LEMMA PubAlike ==
  ASSUME NEW cc, NEW nn, NEW k, NEW l, NEW b, NEW g, NEW kp,
         PubFits(cc, nn, k, b, g, kp), ~nn.fresh \/ l.op = k.op,
         \/ l.op = k.op /\ l.msg = k.msg /\ l.want = k.want
         \/ {l.op, k.op} \subseteq
              {"idle", "yield", "subscribe", "unsubscribe"}
  PROVE  PubFits(cc, nn, l, b, g, kp)
<1>1. /\ Awaits(l) = Awaits(k)
      /\ l.op \in {"connect", "resend"} <=> k.op \in {"connect", "resend"}
      /\ l.op = "connect" <=> k.op = "connect"
  BY DEF Awaits
<1>2. Awaits(k) => l.msg = k.msg /\ l.want = k.want
  BY DEF Awaits
<1>3. Starts(cc, nn, l, b)
  BY <1>1, <1>2 DEF PubFits, Starts
<1>4. TokensFit(cc, nn, l, b, g)
  BY <1>1, <1>2 DEF PubFits, TokensFit, OneToken, UpMeans, DownMeans
<1>5. KeptFits(cc, l, g, kp)
  BY <1>1 DEF PubFits, KeptFits
<1>6. TakenFits(cc, nn, l, b, g)
  BY <1>1 DEF PubFits, TakenFits, TakenDropped
<1> QED
  BY <1>3, <1>4, <1>5, <1>6 DEF PubFits

\* The type of a packet that is dealt with is the one that is returned.
LEMMA ReadType ==
  ASSUME NEW r \in readPacket, r.type \in Handled, r.p.type = PUBREC
  PROVE  r.type = PUBREC
<1>1. 15 \notin Handled /\ FAILURE \notin Handled /\ 1 \notin Handled
      /\ BUFFER_OVERFLOW \notin Handled
  BY DEF Handled, FAILURE, BUFFER_OVERFLOW, CONNACK, PUBACK, SUBACK, UNSUBACK,
         PUBLISH, PINGRESP, PUBREC, PUBREL, PUBCOMP
<1>2. CASE net.junk
  BY <1>1, <1>2 DEF readPacket
<1>3. CASE ~net.junk /\ net.down = <<>>
  <2>1. r.p = NoPacket
    BY <1>3 DEF readPacket
  <2> QED
    BY <2>1 DEF NoPacket, Packet, PUBREC
<1>4. CASE ~net.junk /\ net.down # <<>>
  <2>1. r.type \in {r.p.type, BUFFER_OVERFLOW, 1}
    BY <1>4 DEF readPacket
  <2> QED
    BY <1>1, <2>1
<1> QED
  BY <1>2, <1>3, <1>4

\* A PUBREC has a PUBREL for an answer, and that alone is a token.
LEMMA AddsToken ==
  ASSUME NEW u, u \in Seq(Packets), NEW v, v \in Seq(Packets), NEW p,
         Adds(u, v, p), Lacks(u, UpTokens)
  PROVE  /\ Once(v, UpTokens)
         /\ \A i \in 1..Len(v) : v[i] \in UpTokens =>
              v[i].type = PUBREL /\ v[i].id = p.id
<1>1. /\ Len(u) \in Nat /\ Len(v) \in Nat /\ Len(v) >= Len(u)
      /\ \A i \in 1..Len(u) : v[i] = u[i]
      /\ \A i \in (Len(u) + 1)..Len(v) :
           IsAnswer(v[i], p) /\ (v[i].type = PUBREL => i = Len(u) + 1)
  BY DEF Adds
<1>2. ASSUME NEW i \in 1..Len(v), v[i] \in UpTokens
      PROVE  v[i].type = PUBREL /\ v[i].id = p.id /\ i = Len(u) + 1
  <2>1. i \notin 1..Len(u)
    BY <1>1, <1>2 DEF Lacks
  <2>2. i \in (Len(u) + 1)..Len(v)
    BY <1>1, <2>1
  <2>3. IsAnswer(v[i], p) /\ (v[i].type = PUBREL => i = Len(u) + 1)
    BY <1>1, <2>2
  <2>4. v[i].type \in {PUBLISH, PUBREL}
    BY <1>2, TokenTypes
  <2>5. v[i].type = PUBREL /\ v[i].id = p.id
    BY <2>3, <2>4
    DEF IsAnswer, PUBLISH, PUBREL, PUBACK, PUBREC, PUBCOMP, PINGREQ
  <2> QED
    BY <2>3, <2>5
<1>3. Once(v, UpTokens)
  BY <1>2 DEF Once
<1> QED
  BY <1>2, <1>3

\* The token that the client takes from the wire.
LEMMA FirstToken ==
  ASSUME net \in Nets, net.down # <<>>, NEW p, p = Head(net.down),
         p \in DownTokens, PubInv,
         Awaits(call) \/ c.isconnected \/ call.op = "connect"
  PROVE  /\ Awaits(call) /\ DownMeans(p, call, broker, got)
         /\ Lacks(net.up, UpTokens) /\ Lacks(Tail(net.down), DownTokens)
<1>1. TokensFit(c, net, call, broker, got)
  BY DEF PubInv, PubFits
<1>2. ~Lacks(net.down, DownTokens)
  BY FirstIs
<1>3. Awaits(call) /\ OneToken(net, call, broker, got)
  BY <1>1, <1>2 DEF TokensFit, NoToken
<1>4. Lacks(net.up, UpTokens) /\ Once(net.down, DownTokens)
  BY <1>2, <1>3 DEF OneToken
<1>5. DownMeans(p, call, broker, got)
  <2> DEFINE P == {q \in DownTokens : ~DownMeans(q, call, broker, got)}
  <2>1. Lacks(net.down, P)
    BY <1>3 DEF OneToken
  <2> HIDE DEF P
  <2>2. p \notin P
    BY <2>1, FirstIs
  <2> QED
    BY <2>2 DEF P
<1>6. Lacks(Tail(net.down), DownTokens)
  BY <1>4, WiresAre, OnceLess
<1> QED
  BY <1>3, <1>4, <1>5, <1>6

\* PUBREC: its PUBREL is the only token after it.
LEMMA PubrecPub ==
  ASSUME net \in Nets, net.down # <<>>, NEW p, p = Head(net.down),
         QOS2Build, p.type = PUBREC, PubInv,
         NEW mm \in Nets, Adds(net.up, mm.up, p), mm.down = Tail(net.down)
  PROVE  TokensFit(c, mm, call, broker, got)
<1>1. /\ net.up \in Seq(Packets) /\ net.down \in Seq(Packets)
      /\ mm.up \in Seq(Packets) /\ p \in Packets
  BY WiresAre
<1>2. p \in DownTokens
  BY <1>1 DEF DownTokens
<1>3. CASE ~(Awaits(call) \/ c.isconnected \/ call.op = "connect")
  BY <1>3 DEF TokensFit
<1>4. CASE Awaits(call) \/ c.isconnected \/ call.op = "connect"
  <2>1. /\ Awaits(call) /\ DownMeans(p, call, broker, got)
        /\ Lacks(net.up, UpTokens) /\ Lacks(mm.down, DownTokens)
    BY <1>2, <1>4, FirstToken
  <2>2. /\ Once(mm.up, UpTokens)
        /\ \A i \in 1..Len(mm.up) : mm.up[i] \in UpTokens =>
             mm.up[i].type = PUBREL /\ mm.up[i].id = p.id
    BY <1>1, <2>1, AddsToken
  <2>3. \A q : q.type = PUBREL /\ q.id = p.id =>
                 UpMeans(q, call, broker, got)
    BY <2>1 DEF UpMeans, DownMeans, PUBREC, PUBACK, PUBREL, PUBLISH
  <2>4. Lacks(mm.up, {q \in UpTokens : ~UpMeans(q, call, broker, got)})
    BY <2>2, <2>3 DEF Lacks
  <2>5. /\ Lacks(mm.down,
                 {q \in DownTokens : ~DownMeans(q, call, broker, got)})
        /\ Once(mm.down, DownTokens)
    BY <2>1 DEF Lacks, Once
  <2> QED
    BY <2>1, <2>2, <2>4, <2>5 DEF TokensFit, OneToken
<1> QED
  BY <1>3, <1>4

\* One turn of the loop: what it sends is a token only for a token.
LEMMA CyclePub ==
  ASSUME TypeInv, PubInv, call.op # "idle", NEW r \in readPacket,
         NEW s, s = cycle(r)
  PROVE  /\ PubFits(s.c, s.net, call, broker, got, kept) /\ ~s.net.fresh
         /\ s.c.cleansession = c.cleansession
         /\ r.p.type # PUBREC => Less(net.up, s.net.up, {PUBLISH, PUBREL})
<1>1. use \in DOMAIN Uses /\ Good(S) /\ net \in Nets
  BY StateParts DEF TypeInv, ClientFits
<1>2. /\ Good(s) /\ Turned(r, s)
      /\ s.c.cleansession = c.cleansession
      /\ s.net.fresh = net.fresh /\ s.net.down = r.net.down
      /\ Adds(net.up, s.net.up, r.p)
      /\ r.type \notin Handled => s.net.up = net.up
  BY <1>1, CycleGood
<1>3. \/ s.net.down \in {net.down, <<>>}
      \/ net.down # <<>> /\ s.net.down = Tail(net.down)
  BY <1>1, <1>2, ReadGood
<1>4. ~net.fresh
  BY DEF PubInv, PubFits, Starts
<1>5. s.net \in Nets
  BY <1>2 DEF Good, States
<1>6. net.up \in Seq(Packets) /\ s.net.up \in Seq(Packets)
      /\ net.down \in Seq(Packets)
  BY <1>1, <1>5, WiresAre
<1>7. /\ Less(net.up, s.net.up, {PUBLISH}) /\ Less(net.up, s.net.up, {CONNECT})
      /\ \A types : Less(net.down, s.net.down, types)
  <2>1. Less(net.up, s.net.up, {CONNECT, PUBLISH, SUBSCRIBE, UNSUBSCRIBE})
    BY <1>2, <1>6, LessAdds
  <2>2. ASSUME NEW types PROVE Less(net.down, s.net.down, types)
    BY <1>3, <1>6, LessEmpty, LessFewer
  <2> QED
    BY <2>1, <2>2 DEF Less
<1>8. ASSUME ~(r.p.type = PUBREC /\ r.type \in Handled)
      PROVE  Less(net.up, s.net.up, {PUBLISH, PUBREL})
  <2>1. CASE r.type \notin Handled
    BY <1>2, <2>1, LessEmpty
  <2>2. CASE r.p.type # PUBREC
    <3> SUFFICES ASSUME NEW P, \A x \in P : x.type \in {PUBLISH, PUBREL}
                 PROVE  /\ Lacks(net.up, P) => Lacks(s.net.up, P)
                        /\ Once(net.up, P) => Once(s.net.up, P)
      BY DEF Less
    <3>1. \A x \in Packets : IsAnswer(x, r.p) => x \notin P
      BY <2>2
      DEF IsAnswer, PUBLISH, PUBREL, PUBACK, PUBREC, PUBCOMP, PINGREQ
    <3> QED
      BY <1>2, <1>6, <3>1, AddsLacks
  <2> QED
    BY <1>8, <2>1, <2>2
<1>9. TokensFit(c, s.net, call, broker, got)
  <2>1. CASE r.p.type = PUBREC /\ r.type \in Handled
    <3>1. r.type = PUBREC /\ QOS2Build
      <4>1. r.type = PUBREC
        BY <2>1, ReadType
      <4> QED
        BY <2>1, <4>1 DEF Handled, CONNACK, PUBACK, SUBACK, UNSUBACK, PUBLISH,
                          PINGRESP, PUBREC
    <3>2. /\ net.down # <<>> /\ r.p = Head(net.down)
          /\ s.net.down = Tail(net.down)
      BY <1>1, <1>2, <3>1, ReadGood DEF PUBREC
    <3> QED
      BY <1>1, <1>2, <1>5, <2>1, <3>1, <3>2, PubrecPub
  <2>2. CASE ~(r.p.type = PUBREC /\ r.type \in Handled)
    <3>1. TokensFit(c, net, call, broker, got)
          /\ (Awaits(call) => call.msg \in Outgoing)
      BY DEF PubInv, PubFits, Starts
    <3>2. Grows(got, got)
      BY DEF Grows
    <3> QED
      BY <1>7, <1>8, <2>2, <3>1, <3>2, TokensLess
  <2> QED
    BY <2>1, <2>2
<1>10. PubFits(c, s.net, call, broker, got, kept)
  <2>1. Cleared(net, broker) => Cleared(s.net, broker)
    BY <1>7, ClearedKept
  <2>2. Grows(got, got)
    BY DEF Grows
  <2> QED
    BY <1>2, <1>4, <1>7, <1>9, <2>1, <2>2, PubWires DEF PubInv
<1>11. PubFits(s.c, s.net, call, broker, got, kept)
  <2>1. /\ s.c.isconnected => c.isconnected
        /\ \/ s.c.inflight = c.inflight
           \/ c.cleansession /\ s.c.inflight = NoInflight
    BY <1>2 DEF Turned
  <2> QED
    BY <1>2, <1>10, <2>1, PubSession
<1> QED
  BY <1>2, <1>4, <1>8, <1>11

-----------------------------------------------------------------------------
(* A call ends: with the token it waited for, or without.                  *)

\* No token is left, and what is in flight need not be sent again.
LEMMA PubSettles ==
  ASSUME NEW cc, NEW dd, NEW nn, NEW k, NEW b, NEW g, NEW kp,
         PubFits(cc, nn, k, b, g, kp), ~nn.fresh,
         NoToken(nn), Took(b) = {},
         dd.cleansession = cc.cleansession,
         dd.inflight.msg = cc.inflight.msg, dd.inflight.qos = cc.inflight.qos,
         dd.inflight.id \in {0, cc.inflight.id},
         cc.inflight.id = 0 => dd.inflight = cc.inflight,
         cc.inflight.id > 0 /\ cc.inflight.msg \in kp =>
           g[cc.inflight.msg] > 0
  PROVE  PubFits(dd, nn, Idle, b, g, kp)
<1>1. Idle.op = "idle" /\ ~Awaits(Idle)
  BY DEF Idle, Awaits
<1>2. Starts(dd, nn, Idle, b)
  BY <1>1 DEF PubFits, Starts
<1>3. TokensFit(dd, nn, Idle, b, g)
  BY <1>1 DEF TokensFit
<1>4. KeptFits(dd, Idle, g, kp)
  BY <1>1 DEF PubFits, KeptFits
<1>5. ASSUME QoS2Used, KeepsSessions PROVE TakenKept(dd, nn, b, g)
  <2>1. TakenKept(cc, nn, b, g)
    BY <1>5 DEF PubFits, TakenFits
  <2>2. Strays(dd.inflight) \subseteq UpTokens
    BY <1>5
    DEF Strays, UpTokens, Of, AckOf, QoS2Used, PUBCOMP
  <2>3. Lacks(nn.up, Strays(dd.inflight))
    BY <2>2 DEF NoToken, Lacks
  <2> QED
    BY <2>1, <2>3 DEF TakenKept
<1>6. ASSUME QoS2Used, ~KeepsSessions PROVE TakenDropped(dd, nn, Idle, b)
  <2>1. cc.cleansession /\ cc.inflight = NoInflight
    BY <1>6 DEF PubFits, TakenFits, TakenDropped
  <2> QED
    BY <1>1, <2>1 DEF TakenDropped, NoInflight
<1>7. TakenFits(dd, nn, Idle, b, g)
  BY <1>5, <1>6 DEF TakenFits
<1> QED
  BY <1>2, <1>3, <1>4, <1>7 DEF PubFits

LEMMA ClosedPub ==
  ASSUME UNCHANGED <<use, broker, got, kept>>, use \in DOMAIN Uses,
         NEW s, Good(s), NEW k, PubFits(s.c, s.net, k, broker, got, kept),
         NEW op, NEW rc, Return(op, rc, closeSession(s))
  PROVE  PubInv'
<1> DEFINE e == closeSession(s)
<1>1. /\ ~e.c.isconnected /\ e.net = s.net
      /\ e.c.cleansession = s.c.cleansession
      /\ \/ e.c.inflight = s.c.inflight
         \/ s.c.cleansession /\ e.c.inflight = NoInflight
  BY CloseSessionGood DEF Good, States, Sessions
<1> HIDE DEF e
<1>2. PubFits(e.c, e.net, Idle, broker, got, kept)
  BY <1>1, PubSession, PubEnds
<1> QED
  BY <1>2, PubReturn DEF e

LEMMA EndConnectPub ==
  ASSUME UNCHANGED <<use, broker, got, kept>>, use \in DOMAIN Uses,
         NEW rc, NEW s, Good(s), EndConnect(rc, s), ~s.net.fresh,
         NEW k, PubFits(s.c, s.net, k, broker, got, kept),
         ~s.c.isconnected,
         rc = SUCCESS =>
           /\ NoToken(s.net) /\ Took(broker) = {}
           /\ s.c.inflight.id > 0 /\ s.c.inflight.msg \in kept =>
                got[s.c.inflight.msg] > 0
  PROVE  PubInv'
<1> DEFINE x == connected(s)
<1>1. /\ x.net = s.net /\ x.c.inflight = s.c.inflight
      /\ x.c.cleansession = s.c.cleansession
  BY ConnectedGood
<1>2. CASE rc = SUCCESS
  <2>1. Return("connect", rc, x)
    BY <1>2 DEF EndConnect
  <2> HIDE DEF x
  <2>2. PubFits(x.c, x.net, Idle, broker, got, kept)
    BY <1>1, <1>2, PubSettles
  <2> QED
    BY <2>1, <2>2, PubReturn
<1>3. CASE rc # SUCCESS
  <2>1. Return("connect", rc, s)
    BY <1>3 DEF EndConnect
  <2>2. PubFits(s.c, s.net, Idle, broker, got, kept)
    BY PubEnds
  <2> QED
    BY <2>1, <2>2, PubReturn
<1> QED
  BY <1>2, <1>3

\* A publish that is sent where there is no token is the only one.
LEMMA OneTokenSent ==
  ASSUME NEW nn \in Nets, NEW mm, NEW k, NEW b, NEW g, NoToken(nn),
         NEW p \in Packets, UpMeans(p, k, b, g),
         mm.up \in {nn.up, Append(nn.up, p)}, mm.down = nn.down
  PROVE  OneToken(mm, k, b, g)
<1>1. nn.up \in Seq(Packets)
  BY WiresAre
<1> DEFINE U == {q \in UpTokens : ~UpMeans(q, k, b, g)}
           D == {q \in DownTokens : ~DownMeans(q, k, b, g)}
<1>2. U \subseteq UpTokens /\ D \subseteq DownTokens /\ p \notin U
  OBVIOUS
<1> HIDE DEF U, D
<1>3. Lacks(nn.up, U) /\ Lacks(nn.down, D)
  BY <1>2 DEF NoToken, Lacks
<1>4. Lacks(mm.up, U) /\ Lacks(mm.down, D)
  BY <1>1, <1>2, <1>3, LacksMore
<1>5. Once(nn.up, UpTokens) /\ Once(mm.down, DownTokens)
      /\ Lacks(mm.down, DownTokens)
  BY DEF NoToken, Lacks, Once
<1>6. Once(mm.up, UpTokens)
  BY <1>1, <1>5, LacksMore DEF NoToken
<1> QED
  BY <1>4, <1>5, <1>6 DEF OneToken, U, D

\* What is sent is not a publish that the broker's table does not fit.
LEMMA TakenSent ==
  ASSUME NEW cc, NEW nn \in Nets, NEW mm, NEW k, NEW b, NEW g,
         TakenFits(cc, nn, k, b, g), nn.fresh => mm.fresh,
         NEW p \in Packets, p.type # CONNECT, p \notin Strays(cc.inflight),
         mm.up \in {nn.up, Append(nn.up, p)}, mm.down = nn.down
  PROVE  TakenFits(cc, mm, k, b, g)
<1>1. nn.up \in Seq(Packets)
  BY WiresAre
<1>2. Lacks(nn.up, Strays(cc.inflight)) => Lacks(mm.up, Strays(cc.inflight))
  BY <1>1, LacksMore
<1>3. Lacks(nn.up, Without(CONNECT, 1)) => Lacks(mm.up, Without(CONNECT, 1))
  <2>1. p \notin Without(CONNECT, 1)
    BY DEF Without, Of
  <2> QED
    BY <1>1, <2>1, LacksMore
<1> QED
  BY <1>2, <1>3 DEF TakenFits, TakenKept, TakenDropped, Cleared

\* connect() sends the publish in flight again and waits for its end.
LEMMA ResendPub ==
  ASSUME UNCHANGED <<use, broker, got, kept>>, use \in DOMAIN Uses,
         call.op = "connect",
         NEW rc, NEW s, Good(s), NEW expired, resend(s, rc, expired),
         ~s.net.fresh, PubFits(s.c, s.net, call, broker, got, kept),
         rc = SUCCESS /\ QoS2Used /\ ~KeepsSessions => Took(broker) = {}
  PROVE  PubInv'
<1> DEFINE i == s.c.inflight
           p == PublishPacket(i.id, i.qos, 0, i.msg)
           d == sendPacket(s, p)
<1>1. i.id \in Nat /\ i.qos \in 0..2 /\ i.msg \in Nat
  BY UseTypes DEF Good, States, Sessions
<1>2. /\ p \in Packets /\ p.type = PUBLISH /\ p.id = i.id /\ p.qos = i.qos
      /\ p.msg = i.msg
  <2> HIDE DEF i
  <2> QED
    BY <1>1, PublishTypes
<1>3. /\ ~s.c.isconnected /\ NoToken(s.net) /\ ~Awaits(call)
      /\ i.id > 0 => i.msg \in Outgoing /\ i.qos \in OutQoS \ {0}
  BY DEF PubFits, Starts, TokensFit, Awaits
<1>4. QoS2Used /\ i.id > 0 => KeepsSessions
  BY DEF PubFits, TakenFits, TakenDropped, NoInflight
<1>5. Took(broker) # {} =>
        \/ ~KeepsSessions /\ QoS2Used
        \/ i.id > 0 /\ i.qos = 2 /\ Took(broker) \subseteq {i.id}
           /\ got[i.msg] > 0
  BY DEF PubFits, TakenFits, TakenKept, Took
<1>6. CASE i.id = 0
  <2>1. EndConnect(rc, s)
    BY <1>6 DEF resend
  <2>2. rc = SUCCESS => Took(broker) = {}
    BY <1>5, <1>6
  <2> QED
    BY <1>3, <1>6, <2>1, <2>2, EndConnectPub
<1>7. /\ Good(d) /\ Same(s, d) /\ d.c = s.c
      /\ d.net.up \in {s.net.up, Append(s.net.up, p)}
  <2>1. d = sendPacket(s, p)
    OBVIOUS
  <2> HIDE DEF d, p
  <2> QED
    BY <1>2, <2>1, AskSent
<1>8. ASSUME i.id # 0
      PROVE  /\ TakenFits(s.c, d.net, call, broker, got)
             /\ s.net \in Nets /\ ~d.net.fresh /\ d.net.down = s.net.down
  <2> HIDE DEF d, p
  <2>1. p \notin Strays(s.c.inflight)
    BY <1>1, <1>2, <1>8 DEF Strays
  <2>2. s.net \in Nets /\ ~d.net.fresh /\ d.net.down = s.net.down
    BY <1>7 DEF Good, States, Same
  <2>3. p.type # CONNECT
    BY <1>2 DEF PUBLISH, CONNECT
  <2> QED
    BY <1>2, <1>7, <2>1, <2>2, <2>3, TakenSent DEF PubFits
<1>9. CASE i.id # 0 /\ (d.rc = FAILURE \/ (expired /\ AckOf(i.qos) # 0))
  <2>1. EndConnect(FAILURE, closeSession(d))
    BY <1>9 DEF resend
  <2>2. Return("connect", FAILURE, closeSession(d))
    BY <2>1 DEF EndConnect, FAILURE, SUCCESS
  <2> HIDE DEF d
  <2>3. PubFits(s.c, s.net, Idle, broker, got, kept)
    BY <1>3, PubEnds
  <2>4. PubFits(d.c, d.net, Idle, broker, got, kept)
    <3>1. Idle.op = "idle" /\ ~Awaits(Idle)
      BY DEF Idle, Awaits
    <3>2. Starts(s.c, d.net, Idle, broker)
      BY <1>8, <1>9, <2>3 DEF PubFits, Starts
    <3>3. TokensFit(s.c, d.net, Idle, broker, got)
      BY <1>3, <3>1 DEF TokensFit
    <3>4. TakenFits(s.c, d.net, Idle, broker, got)
      BY <1>3, <1>8, <1>9, <3>1 DEF TakenFits, TakenDropped
    <3> QED
      BY <1>7, <2>3, <3>2, <3>3, <3>4 DEF PubFits
  <2> QED
    BY <1>7, <2>2, <2>4, ClosedPub
<1>10. CASE /\ i.id # 0 /\ ~(d.rc = FAILURE \/ (expired /\ AckOf(i.qos) # 0))
            /\ AckOf(i.qos) = 0
  <2>1. EndConnect(SUCCESS, d)
    BY <1>10 DEF resend
  <2> HIDE DEF d, p
  <2>2. ~QOS2Build
    BY <1>1, <1>3, <1>10 DEF AckOf, PUBACK, PUBCOMP
  <2>3. Took(broker) = {}
    BY <2>2 DEF Took, QoS2Used
  <2>4. p \notin UpTokens
    BY <1>1, <1>2, <1>10 DEF UpTokens, PUBLISH, PUBREL
  <2>5. NoToken(d.net)
    BY <1>3, <1>7, <1>8, <1>10, <1>2, <2>4, WiresAre, LacksMore DEF NoToken
  <2>6. PubFits(d.c, d.net, call, broker, got, kept)
    <3>1. Starts(s.c, d.net, call, broker)
      BY <1>8, <1>10 DEF PubFits, Starts
    <3>2. TokensFit(s.c, d.net, call, broker, got)
      BY <1>3, <2>5 DEF TokensFit
    <3> QED
      BY <1>7, <1>8, <1>10, <3>1, <3>2 DEF PubFits
  <2>7. s.c.inflight.id > 0 => s.c.inflight.msg \notin kept
    BY <1>10 DEF PubFits, KeptFits
  <2> QED
    BY <1>3, <1>7, <1>8, <1>10, <2>1, <2>3, <2>5, <2>6, <2>7, EndConnectPub
<1>11. CASE /\ i.id # 0 /\ ~(d.rc = FAILURE \/ (expired /\ AckOf(i.qos) # 0))
            /\ AckOf(i.qos) # 0
  <2> DEFINE k == [Waiting("resend", AckOf(i.qos)) EXCEPT !.msg = i.msg]
  <2>1. Wait(k, d)
    BY <1>11 DEF resend
  <2>2. k.op = "resend" /\ k.want = AckOf(i.qos) /\ k.msg = i.msg
    BY DEF Waiting, Idle
  <2> HIDE DEF k, d, p
  <2>3. Awaits(k) /\ i.id > 0
    BY <1>1, <1>11, <2>2 DEF Awaits
  <2>4. AckOf(i.qos) = PUBACK \/ (QoS2Used /\ AckOf(i.qos) = PUBCOMP)
    BY <1>3, <1>11, <2>3 DEF AckOf, QoS2Used
  <2>5. UpMeans(p, k, broker, got)
    BY <1>2, <1>4, <1>5, <2>2, <2>3 DEF UpMeans
  <2>6. OneToken(d.net, k, broker, got)
    BY <1>2, <1>3, <1>7, <1>8, <1>11, <2>5, OneTokenSent
  <2>7. Starts(s.c, d.net, k, broker)
    BY <1>3, <1>8, <1>11, <2>2, <2>3, <2>4 DEF PubFits, Starts
  <2>8. TokensFit(s.c, d.net, k, broker, got)
    BY <2>3, <2>6 DEF TokensFit
  <2>9. KeptFits(s.c, k, got, kept)
    BY <1>3 DEF PubFits, KeptFits
  <2>10. TakenFits(s.c, d.net, k, broker, got)
    BY <1>3, <1>8, <1>11, <2>2 DEF TakenFits, TakenDropped
  <2>11. PubFits(d.c, d.net, k, broker, got, kept)
    BY <1>7, <2>7, <2>8, <2>9, <2>10 DEF PubFits
  <2> QED
    BY <2>1, <2>11, PubWait
<1> QED
  BY <1>6, <1>9, <1>10, <1>11

\* The packet waited for has not come.
LEMMA MissedPub ==
  ASSUME UNCHANGED <<use, broker, got, kept>>, use \in DOMAIN Uses,
         NEW s, Good(s), NEW expired, Missed(s, expired), ~s.net.fresh,
         PubFits(s.c, s.net, call, broker, got, kept)
  PROVE  PubInv'
<1>1. FAILURE # SUCCESS
  BY DEF FAILURE, SUCCESS
<1>2. CASE call.op = "connect"
  <2>1. resend(s, FAILURE, expired)
    BY <1>2 DEF Missed
  <2> QED
    BY <1>1, <1>2, <2>1, ResendPub
<1>3. CASE call.op = "resend"
  <2>1. Return("connect", FAILURE, closeSession(s))
    BY <1>1, <1>3 DEF Missed, EndConnect
  <2> QED
    BY <2>1, ClosedPub
<1>4. CASE call.op \notin {"connect", "resend"}
  <2>1. Return(call.op, FAILURE, closeSession(s))
    BY <1>4 DEF Missed
  <2> QED
    BY <2>1, ClosedPub
<1> QED
  BY <1>2, <1>3, <1>4

\* PUBACK or PUBCOMP: the message was received, and no token is left.
LEMMA AckedPub ==
  ASSUME TypeInv, PubInv, Awaits(call), NEW r \in readPacket,
         NEW s, s = cycle(r), s.rc = call.want,
         NEW d, d = acked(s, r.p)
  PROVE  /\ Good(d) /\ d.net = s.net /\ ~d.net.fresh
         /\ got[call.msg] > 0 /\ NoToken(d.net) /\ Took(broker) = {}
         /\ PubFits(d.c, d.net, Idle, broker, got, kept)
         /\ d.c.inflight.id > 0 /\ d.c.inflight.msg \in kept =>
              got[d.c.inflight.msg] > 0
<1>1. use \in DOMAIN Uses /\ Good(S) /\ net \in Nets /\ CallFits(call)
  BY StateParts DEF TypeInv, ClientFits
<1>2. /\ Good(s) /\ Turned(r, s) /\ s.net.down = r.net.down
  BY <1>1, CycleGood
<1>3. call.want \in {PUBACK, PUBCOMP} /\ call.want \in 2..14
      /\ (call.want = PUBCOMP => QOS2Build)
  BY <1>1 DEF CallFits, Awaits, PUBACK, PUBCOMP
<1>4. r.type = call.want
  BY <1>2, <1>3 DEF Turned, FAILURE
<1>5. /\ net.down # <<>> /\ r.p = Head(net.down) /\ r.p \in Packets
      /\ r.p.type = call.want /\ s.net.down = Tail(net.down)
  BY <1>1, <1>2, <1>3, <1>4, ReadGood
<1>6. r.p \in DownTokens /\ r.p.type # PUBREC
  BY <1>3, <1>5 DEF DownTokens, PUBACK, PUBREC, PUBCOMP
<1>7. /\ DownMeans(r.p, call, broker, got)
      /\ Lacks(net.up, UpTokens) /\ Lacks(Tail(net.down), DownTokens)
  BY <1>1, <1>5, <1>6, FirstToken
<1>8. got[call.msg] > 0 /\ Took(broker) = {}
  BY <1>6, <1>7 DEF DownMeans
<1>9. call.op # "idle"
  BY DEF Awaits
<1>10. /\ PubFits(s.c, s.net, call, broker, got, kept) /\ ~s.net.fresh
       /\ Less(net.up, s.net.up, {PUBLISH, PUBREL})
  BY <1>6, <1>9, CyclePub
<1>11. NoToken(s.net)
  <2>1. Lacks(s.net.up, UpTokens)
    BY <1>7, <1>10, TokenTypes DEF Less
  <2> QED
    BY <1>5, <1>7, <2>1 DEF NoToken
<1>12. s.c.inflight.msg \in kept => got[s.c.inflight.msg] > 0
  BY <1>8, <1>10 DEF PubFits, Starts, KeptFits
<1>13. /\ Good(d) /\ d.net = s.net
       /\ d.c.cleansession = s.c.cleansession
       /\ d.c.inflight.msg = s.c.inflight.msg
       /\ d.c.inflight.qos = s.c.inflight.qos
       /\ d.c.inflight.id \in {0, s.c.inflight.id}
  BY <1>1, <1>2, AckedGood
<1>14. s.c.inflight.id = 0 => d.c.inflight = s.c.inflight
  <2>1. /\ s.c.inflight \in [id : 0..MAX_PACKET_ID, qos : 0..2, msg : Nat]
        /\ d.c.inflight \in [id : 0..MAX_PACKET_ID, qos : 0..2, msg : Nat]
    BY <1>2, <1>13 DEF Good, States, Sessions
  <2> QED
    BY <1>13, <2>1
<1>15. PubFits(d.c, d.net, Idle, broker, got, kept)
  BY <1>8, <1>10, <1>11, <1>12, <1>13, <1>14, PubSettles
<1> QED
  BY <1>8, <1>10, <1>11, <1>12, <1>13, <1>15

\* SUBACK and UNSUBACK change the table of handlers only.
LEMMA HandledPub ==
  ASSUME UNCHANGED <<use, broker, got, kept>>, use \in DOMAIN Uses,
         call.op \in {"subscribe", "unsubscribe"},
         NEW s, Good(s), ~s.net.fresh,
         PubFits(s.c, s.net, call, broker, got, kept),
         NEW d, Good(d), d.net = s.net,
         d.c.isconnected = s.c.isconnected,
         d.c.cleansession = s.c.cleansession,
         d.c.inflight = s.c.inflight,
         NEW op, NEW rc, \/ Return(op, rc, d)
                         \/ Return(op, rc, closeSession(d))
  PROVE  PubInv'
<1>1. PubFits(d.c, d.net, call, broker, got, kept)
  BY PubSession
<1>2. PubFits(d.c, d.net, Idle, broker, got, kept)
  BY <1>1, PubAlike DEF Idle
<1>3. CASE Return(op, rc, d)
  BY <1>2, <1>3, PubReturn
<1>4. CASE Return(op, rc, closeSession(d))
  BY <1>1, <1>4, ClosedPub
<1> QED
  BY <1>3, <1>4

\* The packet waited for has come.
LEMMA GotPub ==
  ASSUME TypeInv, UNCHANGED <<use, broker, got, kept>>, PubInv,
         call.op # "idle", call.op # "yield",
         NEW r \in readPacket, NEW s, s = cycle(r),
         s.rc = call.want, Got(s, r.p)
  PROVE  PubInv'
<1>1. use \in DOMAIN Uses /\ Good(S) /\ net \in Nets /\ CallFits(call)
  BY StateParts DEF TypeInv, ClientFits
<1>2. Good(s) /\ Turned(r, s)
  BY <1>1, CycleGood
<1>3. PubFits(s.c, s.net, call, broker, got, kept) /\ ~s.net.fresh
  BY CyclePub
<1>4. CASE call.op = "connect"
  <2>1. resend(s, r.p.what, FALSE) /\ call.want = CONNACK
    BY <1>1, <1>4 DEF Got, CallFits
  <2>2. r.type = CONNACK
    BY <1>2, <2>1 DEF Turned, FAILURE, CONNACK
  <2>3. /\ net.down # <<>> /\ r.p = Head(net.down) /\ r.p \in Packets
        /\ r.p.type = CONNACK
    BY <1>1, <2>2, ReadGood DEF CONNACK
  <2>4. ASSUME r.p.what = SUCCESS, QoS2Used, ~KeepsSessions
        PROVE  Took(broker) = {}
    <3>1. Cleared(net, broker)
      BY <1>4, <2>4 DEF PubInv, PubFits, TakenFits, TakenDropped
    <3>2. r.p \in With(CONNACK, 0)
      BY <2>3, <2>4 DEF With, Of, SUCCESS
    <3>3. ~Lacks(net.down, With(CONNACK, 0))
      BY <1>1, <2>3, <3>2, FirstIs
    <3> QED
      BY <3>1, <3>3 DEF Cleared
  <2> QED
    BY <1>1, <1>2, <1>3, <1>4, <2>1, <2>4, ResendPub
<1>5. CASE call.op \in {"resend", "publish"}
  <2> DEFINE d == acked(s, r.p)
  <2>1. Awaits(call)
    BY <1>5 DEF Awaits
  <2>2. /\ Good(d) /\ d.net = s.net /\ ~d.net.fresh
        /\ NoToken(d.net) /\ Took(broker) = {}
        /\ PubFits(d.c, d.net, Idle, broker, got, kept)
        /\ d.c.inflight.id > 0 /\ d.c.inflight.msg \in kept =>
             got[d.c.inflight.msg] > 0
    BY <2>1, AckedPub
  <2>3. CASE call.op = "publish"
    <3>1. Return("publish", SUCCESS, d)
      BY <2>3 DEF Got
    <3> HIDE DEF d
    <3> QED
      BY <2>2, <3>1, PubReturn
  <2>4. CASE call.op = "resend"
    <3>1. EndConnect(SUCCESS, d)
      BY <2>4 DEF Got
    <3>2. ~d.c.isconnected
      <4>1. ~s.c.isconnected
        BY <1>3, <2>4 DEF PubFits, Starts
      <4>2. d.c.isconnected = s.c.isconnected
        BY <1>1, <1>2, AckedGood
      <4> QED
        BY <4>1, <4>2
    <3> HIDE DEF d
    <3> QED
      BY <1>1, <2>2, <3>1, <3>2, EndConnectPub
  <2> QED
    BY <1>5, <2>3, <2>4
<1>6. CASE call.op = "subscribe"
  <2> DEFINE d == IF r.p.what = 128 THEN [s EXCEPT !.rc = SUCCESS]
                  ELSE setHandler(s, call.topic)
  <2>1. Return("subscribe", d.rc,
               IF d.rc = FAILURE THEN closeSession(d) ELSE d)
    BY <1>6 DEF Got, GotSuback
  <2>2. /\ Good(d) /\ d.net = s.net
        /\ d.c.isconnected = s.c.isconnected
        /\ d.c.cleansession = s.c.cleansession
        /\ d.c.inflight = s.c.inflight
    <3>1. CASE r.p.what = 128
      <4>1. d = [s EXCEPT !.rc = SUCCESS]
        BY <3>1
      <4>2. s \in States /\ SUCCESS \in -2..15
        BY <1>2 DEF Good, SUCCESS
      <4> HIDE DEF d
      <4>3. /\ d \in States /\ d.rc = SUCCESS /\ d.c = s.c /\ d.t = s.t
            /\ d.net = s.net /\ d.seen = s.seen /\ d.closed = s.closed
        BY <4>1, <4>2, SetRc
      <4> QED
        BY <1>2, <4>3 DEF Good, TablesFit, PingFits
    <3>2. CASE r.p.what # 128
      <4>1. d = setHandler(s, call.topic) /\ call.topic \in Topics
        BY <1>1, <1>6, <3>2 DEF CallFits
      <4> HIDE DEF d
      <4> QED
        BY <1>1, <1>2, <4>1, SetHandlerGood
    <3> QED
      BY <3>1, <3>2
  <2> HIDE DEF d
  <2>3. \/ Return("subscribe", d.rc, d)
        \/ Return("subscribe", d.rc, closeSession(d))
    BY <2>1
  <2> QED
    BY <1>1, <1>2, <1>3, <1>6, <2>2, <2>3, HandledPub
<1>7. CASE call.op = "unsubscribe"
  <2> DEFINE d == removeHandler(s, call.topic)
  <2>1. Return("unsubscribe", SUCCESS, d)
    BY <1>7 DEF Got
  <2>2. /\ Good(d) /\ d.net = s.net
        /\ d.c.isconnected = s.c.isconnected
        /\ d.c.cleansession = s.c.cleansession
        /\ d.c.inflight = s.c.inflight
    BY <1>1, <1>2, RemoveHandlerGood
  <2> HIDE DEF d
  <2> QED
    BY <1>1, <1>2, <1>3, <1>7, <2>1, <2>2, HandledPub
<1> QED
  BY <1>1, <1>4, <1>5, <1>6, <1>7 DEF CallFits, Calls

LEMMA CyclePubs ==
  ASSUME TypeInv, UNCHANGED use, PubInv, Cycle PROVE PubInv'
<1>1. use \in DOMAIN Uses /\ Good(S) /\ call.op # "idle"
      /\ UNCHANGED <<broker, got, kept>>
  BY DEF TypeInv, ClientFits, Cycle
<1>2. PICK r \in readPacket :
        LET s == cycle(r) IN
        IF call.op = "yield"
        THEN IF s.rc < 0 THEN Return("yield", FAILURE, s)
             ELSE IF r.type = 0 THEN Return("yield", SUCCESS, s)
             ELSE Wait([call EXCEPT !.cycled = TRUE], s)
        ELSE IF s.rc = call.want THEN Got(s, r.p)
             ELSE IF s.rc < 0 THEN Missed(s, FALSE)
             ELSE IF r.type = 0 THEN Missed(s, TRUE)
             ELSE Wait([call EXCEPT !.cycled = TRUE], s)
  BY DEF Cycle
<1>3. PICK s : s = cycle(r)
  OBVIOUS
<1>4. PubFits(s.c, s.net, call, broker, got, kept) /\ ~s.net.fresh
  BY <1>1, <1>3, CyclePub
<1>5. Good(s)
  BY <1>1, <1>3, CycleGood
<1>6. CASE Wait([call EXCEPT !.cycled = TRUE], s)
  <2> DEFINE k == [call EXCEPT !.cycled = TRUE]
  <2>1. k.op = call.op /\ k.msg = call.msg /\ k.want = call.want
    BY DEF TypeInv, ClientFits, CallFits, Calls
  <2> HIDE DEF k
  <2>2. PubFits(s.c, s.net, k, broker, got, kept)
    BY <1>4, <2>1, PubAlike
  <2> QED
    BY <1>1, <1>6, <2>2, PubWait DEF k
<1>7. CASE call.op = "yield" /\ \E rc : Return("yield", rc, s)
  <2>1. PubFits(s.c, s.net, Idle, broker, got, kept)
    BY <1>4, <1>7, PubAlike DEF Idle
  <2> QED
    BY <1>1, <1>7, <2>1, PubReturn
<1>8. CASE call.op # "yield" /\ s.rc = call.want /\ Got(s, r.p)
  BY <1>1, <1>3, <1>8, GotPub
<1>9. CASE Missed(s, FALSE) \/ Missed(s, TRUE)
  BY <1>1, <1>4, <1>5, <1>9, MissedPub
<1> QED
  BY <1>2, <1>3, <1>6, <1>7, <1>8, <1>9
LEMMA ExpirePub ==
  ASSUME TypeInv, UNCHANGED use, PubInv, Expire PROVE PubInv'
<1>1. /\ use \in DOMAIN Uses /\ Good(S) /\ S.c = c /\ S.net = net
      /\ UNCHANGED <<broker, got, kept>> /\ ~net.fresh
  BY DEF TypeInv, ClientFits, Expire, S, PubInv, PubFits, Starts
<1>2. PubFits(S.c, S.net, call, broker, got, kept)
  BY <1>1 DEF PubInv
<1>3. CASE call.op = "yield"
  <2>1. Return("yield", SUCCESS, S)
    BY <1>3 DEF Expire
  <2>2. PubFits(S.c, S.net, Idle, broker, got, kept)
    BY <1>1, <1>2, <1>3, PubAlike DEF Idle
  <2> QED
    BY <1>1, <2>1, <2>2, PubReturn
<1>4. CASE call.op # "yield"
  <2>1. Missed(S, TRUE)
    BY <1>4 DEF Expire
  <2> QED
    BY <1>1, <1>2, <2>1, MissedPub
<1> QED
  BY <1>3, <1>4

-----------------------------------------------------------------------------
(* The application's calls, the network and the clock.                     *)

\* A packet is sent that has no part in a publish().
LEMMA SentPub ==
  ASSUME NEW cc, NEW nn \in Nets, NEW mm, NEW k, NEW b, NEW g, NEW kp,
         PubFits(cc, nn, k, b, g, kp), ~nn.fresh, ~mm.fresh,
         NEW p \in Packets, p.type \notin {CONNECT, PUBLISH, PUBREL},
         mm.up \in {nn.up, Append(nn.up, p)}, mm.down = nn.down
  PROVE  PubFits(cc, mm, k, b, g, kp)
<1>1. nn.up \in Seq(Packets)
  BY WiresAre
<1>2. /\ p.type \notin {PUBLISH, PUBREL} /\ p.type \notin {PUBLISH}
      /\ p.type \notin {CONNECT}
  OBVIOUS
<1>3. /\ Less(nn.up, mm.up, {PUBLISH, PUBREL})
      /\ Less(nn.up, mm.up, {PUBLISH}) /\ Less(nn.up, mm.up, {CONNECT})
      /\ \A types : Less(nn.down, mm.down, types)
  BY <1>1, <1>2, LessMore, LessEmpty
<1>4. Grows(g, g) /\ (Cleared(nn, b) => Cleared(mm, b))
  BY <1>3, ClearedKept DEF Grows
<1>5. TokensFit(cc, mm, k, b, g)
  <2>1. TokensFit(cc, nn, k, b, g) /\ (Awaits(k) => k.msg \in Outgoing)
    BY DEF PubFits, Starts
  <2> QED
    BY <1>3, <1>4, <2>1, TokensLess
<1> QED
  BY <1>3, <1>4, <1>5, PubWires
LEMMA ClosedFits ==
  ASSUME use \in DOMAIN Uses, NEW s, Good(s), NEW k, NEW b, NEW g, NEW kp,
         PubFits(s.c, s.net, k, b, g, kp), NEW e, e = closeSession(s)
  PROVE  PubFits(e.c, e.net, Idle, b, g, kp)
<1>1. /\ ~e.c.isconnected /\ e.net = s.net
      /\ e.c.cleansession = s.c.cleansession
      /\ \/ e.c.inflight = s.c.inflight
         \/ s.c.cleansession /\ e.c.inflight = NoInflight
  BY CloseSessionGood DEF Good, States, Sessions
<1> QED
  BY <1>1, PubSession, PubEnds
LEMMA OpenNetworkPub ==
  ASSUME TypeInv, UNCHANGED use, PubInv, OpenNetwork PROVE PubInv'
<1>1. /\ c' = c /\ call' = call /\ call.op = "idle" /\ ~c.isconnected
      /\ net' = NewNet /\ broker' = [broker EXCEPT !.conn = FALSE]
      /\ UNCHANGED <<got, kept>>
  BY DEF OpenNetwork
<1>2. net'.up = <<>> /\ net'.down = <<>> /\ net'.fresh
  BY <1>1 DEF NewNet
<1>3. ~broker'.conn /\ broker'.taken = broker.taken
  BY <1>1 DEF TypeInv, BrokerFits, Brokers
<1>4. ~Awaits(call) /\ Took(broker') = Took(broker)
  BY <1>1, <1>3 DEF Awaits, Took
<1>5. Starts(c, net', call, broker')
  BY <1>1, <1>2, <1>3, <1>4 DEF PubInv, PubFits, Starts
<1>6. TokensFit(c, net', call, broker', got)
  BY <1>1, <1>4 DEF TokensFit
<1>7. KeptFits(c, call, got, kept)
  BY DEF PubInv, PubFits
<1>8. TakenFits(c, net', call, broker', got)
  <2>1. \A P : Lacks(net'.up, P)
    BY <1>2 DEF Lacks
  <2> QED
    BY <1>1, <1>2, <1>4, <2>1
    DEF PubInv, PubFits, TakenFits, TakenKept, TakenDropped
<1>9. PubFits(c', net', call', broker', got', kept')
  BY <1>1, <1>5, <1>6, <1>7, <1>8 DEF PubFits
<1> QED
  BY <1>9, PubNext
LEMMA YieldPub ==
  ASSUME UNCHANGED use, PubInv, Yield PROVE PubInv'
<1> DEFINE k == Waiting("yield", 0)
<1>1. /\ call.op = "idle" /\ ~net.fresh /\ Wait(k, S) /\ k.op = "yield"
      /\ S.c = c /\ S.net = net /\ UNCHANGED <<broker, got, kept>>
  BY DEF Yield, S, Waiting, Idle
<1> HIDE DEF k
<1>2. PubFits(S.c, S.net, k, broker, got, kept)
  BY <1>1, PubAlike DEF PubInv
<1> QED
  BY <1>1, <1>2, PubWait
LEMMA DisconnectPub ==
  ASSUME TypeInv, UNCHANGED use, PubInv, Disconnect PROVE PubInv'
<1> DEFINE p == Packet(DISCONNECT, 0, 0, 0)
           d == sendPacket(S, p)
<1>1. /\ use \in DOMAIN Uses /\ Good(S) /\ S.c = c /\ S.net = net
      /\ net \in Nets
  BY StateParts DEF TypeInv, ClientFits, S
<1>2. p \in Packets /\ p.type \notin {CONNECT, PUBLISH, PUBREL}
  BY DEF Packet, Packets, PacketFields, DISCONNECT, CONNACK, CONNECT, PUBLISH,
         PUBREL
<1>3. Return("disconnect", d.rc, closeSession(d)) /\ ~net.fresh
      /\ UNCHANGED <<broker, got, kept>>
  BY DEF Disconnect
<1> HIDE DEF p
<1>4. /\ Good(d) /\ Same(S, d) /\ d.c = c
      /\ d.net.up \in {net.up, Append(net.up, p)}
  BY <1>1, <1>2, AskSent
<1> HIDE DEF d
<1>5. ~d.net.fresh /\ d.net.down = net.down
  BY <1>1, <1>3, <1>4 DEF Same
<1>6. PubFits(d.c, d.net, call, broker, got, kept)
  BY <1>1, <1>2, <1>3, <1>4, <1>5, SentPub DEF PubInv
<1> QED
  BY <1>1, <1>3, <1>4, <1>6, ClosedPub

\* CONNECT is the first packet on a new connection.
LEMMA ConnectPub ==
  ASSUME OneKindOfSession, TypeInv, UNCHANGED use, PubInv,
         NEW clean \in CleanOptions, MqttConnect(clean)
  PROVE  PubInv'
<1>1. /\ use \in DOMAIN Uses /\ Good(S) /\ clean \in BOOLEAN
      /\ S.c = c /\ S.net = net /\ UNCHANGED <<broker, got>>
      /\ call.op = "idle" /\ (c.isconnected \/ net.fresh)
      /\ CleanOptions \subseteq BOOLEAN
  BY UseTypes DEF TypeInv, ClientFits, MqttConnect, S
<1>2. CASE c.isconnected
  <2>1. Return("connect", FAILURE, S) /\ UNCHANGED kept
    BY <1>2 DEF MqttConnect
  <2>2. PubFits(S.c, S.net, Idle, broker, got, kept)
    BY <1>1, PubAlike DEF PubInv, Idle
  <2> QED
    BY <1>1, <2>1, <2>2, PubReturn
<1>3. CASE ~c.isconnected
  <2> DEFINE p == Packet(CONNECT, 0, 0, IF clean THEN 1 ELSE 0)
             b == Begins(clean)
             d == sendPacket(b, p)
             e == [d EXCEPT !.t.received = KeepAlive]
             k == Waiting("connect", CONNACK)
  <2>1. /\ IF d.rc = FAILURE THEN EndConnect(FAILURE, d) ELSE Wait(k, e)
        /\ kept' = IF clean THEN {} ELSE kept
    BY <1>3 DEF MqttConnect, Begins
  <2>2. /\ p \in Packets /\ p.type = CONNECT
        /\ p.what = (IF clean THEN 1 ELSE 0)
    BY DEF Packet, Packets, PacketFields, CONNECT, CONNACK
  <2>3. /\ Good(b) /\ b.c.cleansession = clean /\ ~b.c.isconnected
        /\ b.c.inflight = c.inflight
        /\ b.net.up = net.up /\ b.net.down = net.down /\ ~b.net.fresh
    BY <1>1, <1>3, BeginsGood
  <2> HIDE DEF p, b
  <2>4. /\ Good(d) /\ Same(b, d)
        /\ d.net.up \in {b.net.up, Append(b.net.up, p)}
    BY <1>1, <2>2, <2>3, AskSent
  <2>5. e.c = d.c /\ e.net = d.net
    BY <2>4 DEF Good, States
  <2>6. k.op = "connect" /\ Idle.op = "idle"
    BY DEF Waiting, Idle
  <2> HIDE DEF d, e, k
  <2>7. net.up = <<>> /\ net.down = <<>> /\ ~broker.conn
    BY <1>1, <1>3 DEF PubInv, PubFits, Starts
  <2>8. /\ ~d.c.isconnected /\ ~d.net.fresh /\ d.net.down = <<>>
        /\ d.c.inflight = c.inflight /\ d.c.cleansession = clean
        /\ d.net.up \in {<<>>, Append(<<>>, p)}
    BY <2>3, <2>4, <2>7 DEF Same
  <2>9. ASSUME NEW P, p \notin P PROVE Lacks(d.net.up, P)
    <3>1. <<>> \in Seq(Packets) /\ Lacks(<<>>, P)
      BY DEF Lacks
    <3> QED
      BY <2>2, <2>8, <2>9, <3>1, LacksMore
  <2>10. \A P : Lacks(d.net.down, P)
    BY <2>8 DEF Lacks
  <2>11. /\ p \notin UpTokens /\ p \notin Strays(c.inflight)
         /\ clean => p \notin Without(CONNECT, 1)
    BY <2>2 DEF UpTokens, Strays, Of, Without, CONNECT, PUBLISH, PUBREL
  <2>12. ASSUME NEW l, l.op \in {"idle", "connect"}
         PROVE  PubFits(d.c, d.net, l, broker, got, kept')
    <3>1. ~Awaits(l) /\ ~Awaits(call)
      BY <1>1, <2>12 DEF Awaits
    <3>2. Starts(d.c, d.net, l, broker)
      BY <2>8, <2>12, <3>1 DEF PubInv, PubFits, Starts
    <3>3. TokensFit(d.c, d.net, l, broker, got)
      BY <2>9, <2>10, <2>11, <3>1 DEF TokensFit, NoToken
    <3>4. KeptFits(d.c, l, got, kept')
      BY <2>1, <2>8 DEF PubInv, PubFits, KeptFits
    <3>5. ASSUME QoS2Used, KeepsSessions
          PROVE  TakenKept(d.c, d.net, broker, got)
      <4>1. ~clean
        BY <1>1, <3>5 DEF KeepsSessions
      <4>2. Lacks(d.net.up, Strays(c.inflight))
        BY <2>9, <2>11
      <4>3. TakenKept(c, net, broker, got)
        BY <3>5 DEF PubInv, PubFits, TakenFits
      <4> QED
        BY <2>8, <4>1, <4>2, <4>3 DEF TakenKept
    <3>6. ASSUME QoS2Used, ~KeepsSessions
          PROVE  TakenDropped(d.c, d.net, l, broker)
      <4>1. CleanOptions # BOOLEAN
        BY <1>1, <3>6
        DEF OneKindOfSession, QoS2Used, QOS2Build, OutQoS, CleanOptions
      <4>2. clean
        BY <1>1, <3>6, <4>1 DEF KeepsSessions
      <4>3. Cleared(d.net, broker)
        BY <2>7, <2>9, <2>10, <2>11, <4>2 DEF Cleared
      <4>4. c.inflight = NoInflight
        BY <3>6 DEF PubInv, PubFits, TakenFits, TakenDropped
      <4> QED
        BY <2>8, <4>2, <4>3, <4>4 DEF TakenDropped
    <3>7. TakenFits(d.c, d.net, l, broker, got)
      BY <2>8, <3>5, <3>6 DEF TakenFits
    <3> QED
      BY <3>2, <3>3, <3>4, <3>7 DEF PubFits
  <2>13. CASE d.rc = FAILURE
    <3>1. Return("connect", FAILURE, d)
      BY <2>1, <2>13 DEF EndConnect, FAILURE, SUCCESS
    <3>2. PubFits(d.c, d.net, Idle, broker, got, kept')
      BY <2>6, <2>12
    <3>3. c' = d.c /\ net' = d.net /\ call' = Idle
      BY <3>1 DEF Return, Apply
    <3> QED
      BY <1>1, <3>2, <3>3, PubNext
  <2>14. CASE d.rc # FAILURE
    <3>1. Wait(k, e)
      BY <2>1, <2>14
    <3>2. PubFits(d.c, d.net, k, broker, got, kept')
      BY <2>6, <2>12
    <3>3. c' = d.c /\ net' = d.net /\ call' = k
      BY <2>5, <3>1 DEF Wait, Apply
    <3> QED
      BY <1>1, <3>2, <3>3, PubNext
  <2> QED
    BY <2>13, <2>14
<1> QED
  BY <1>2, <1>3

\* Time passes, and the connection fails.
LEMMA TickPub == ASSUME UNCHANGED use, PubInv, Tick PROVE PubInv'
<1>1. PubFits(c', net', call', broker', got', kept')
  BY DEF Tick, PubInv
<1> QED
  BY <1>1, PubNext
LEMMA WiresPub ==
  ASSUME UNCHANGED <<use, c, call, kept>>, PubInv, ~net.fresh, ~net'.fresh,
         TokensFit(c, net', call, broker', got'),
         Less(net.up, net'.up, {PUBLISH}),
         Cleared(net, broker) => Cleared(net', broker'),
         Took(broker') \subseteq Took(broker), Grows(got, got')
  PROVE  PubInv'
<1>1. PubFits(c, net', call, broker', got', kept)
  BY PubWires DEF PubInv
<1> QED
  BY <1>1, PubNext
LEMMA FailsPub ==
  ASSUME TypeInv, UNCHANGED use, PubInv, NEW how \in {"cut", "closed"},
         Fails(how)
  PROVE  PubInv'
<1>1. net \in Nets /\ net.down \in Seq(Packets)
  BY StateParts, WiresAre DEF TypeInv, ClientFits
<1>2. PICK n \in 0..Len(net.down) :
        net' = [net EXCEPT !.link = how, !.up = <<>>,
                           !.down = SubSeq(@, 1, n)]
  BY DEF Fails, Break
<1>3. /\ net'.up = <<>> /\ net'.down = SubSeq(net.down, 1, n)
      /\ ~net.fresh /\ ~net'.fresh
      /\ UNCHANGED <<c, call, kept, broker, got>>
  BY <1>1, <1>2 DEF Nets, Fails, Break, Others
<1>4. /\ \A types : Less(net.up, net'.up, types)
      /\ \A types : Less(net.down, net'.down, types)
  BY <1>1, <1>3, LessEmpty, LessFewer
<1>5. /\ Grows(got, got') /\ Took(broker') = Took(broker)
      /\ Cleared(net, broker) => Cleared(net', broker')
  BY <1>3, <1>4, ClearedKept DEF Grows
<1>6. TokensFit(c, net', call, broker', got')
  <2>1. TokensFit(c, net, call, broker, got)
        /\ (Awaits(call) => call.msg \in Outgoing)
    BY DEF PubInv, PubFits, Starts
  <2> QED
    BY <1>4, <1>5, <2>1, TokensLess
<1> QED
  BY <1>3, <1>4, <1>5, <1>6, WiresPub
LEMMA ArrivesPub ==
  ASSUME TypeInv, UNCHANGED use, PubInv, NEW topic \in Topics,
         NEW qos \in 0..2, NEW long \in BOOLEAN, Arrives(topic, qos, long)
  PROVE  PubInv'
<1>1. /\ net \in Nets /\ net.down \in Seq(Packets) /\ broker \in Brokers
  BY StateParts, WiresAre DEF TypeInv, ClientFits, BrokerFits
<1>2. BrokerPublishes(topic, qos, long) /\ broker.conn
      /\ UNCHANGED <<c, call, kept>>
  BY DEF Arrives, BrokerPublishes, Others
<1>3. /\ net'.fresh = net.fresh /\ net'.up = net.up /\ UNCHANGED got
      /\ broker'.taken = broker.taken /\ broker'.conn = broker.conn
      /\ \E p \in Packets : /\ p.type \in {PUBLISH, PUBREL}
                            /\ net'.down = Append(net.down, p)
  BY <1>1, <1>2, PublishesNets
<1>4. /\ Less(net.up, net'.up, {PUBLISH, PUBREL})
      /\ Less(net.up, net'.up, {PUBLISH}) /\ Less(net.up, net'.up, {CONNECT})
      /\ Less(net.down, net'.down, {PUBACK, PUBREC, PUBCOMP})
      /\ Less(net.down, net'.down, {CONNACK})
  <2>1. \A x \in {PUBLISH, PUBREL} :
          x \notin {PUBACK, PUBREC, PUBCOMP} /\ x \notin {CONNACK}
    BY DEF PUBLISH, PUBREL, PUBACK, PUBREC, PUBCOMP, CONNACK
  <2> QED
    BY <1>1, <1>3, <2>1, LessEmpty, LessMore
<1>5. /\ ~net.fresh /\ Grows(got, got') /\ Took(broker') = Took(broker)
      /\ Cleared(net, broker) => Cleared(net', broker')
  <2>1. Took(broker') = Took(broker) /\ Grows(got, got')
    BY <1>3 DEF Took, Grows
  <2> QED
    BY <1>2, <1>3, <1>4, <2>1, ClearedKept DEF PubInv, PubFits, Starts
<1>6. TokensFit(c, net', call, broker', got')
  <2>1. TokensFit(c, net, call, broker, got)
        /\ (Awaits(call) => call.msg \in Outgoing)
    BY DEF PubInv, PubFits, Starts
  <2> QED
    BY <1>4, <1>5, <2>1, TokensLess
<1> QED
  BY <1>2, <1>3, <1>4, <1>5, <1>6, WiresPub

\* publish() leaves one token, with what is in flight for its message.
LEMMA PublishPub ==
  ASSUME TypeInv, UNCHANGED use, PubInv, kept \subseteq 1..used.calls,
         NEW qos \in OutQoS, NEW long \in BOOLEAN, Publish(qos, long)
  PROVE  PubInv'
<1> DEFINE msg == used.calls + 1
           id == PublishId(qos)
           s == Publishes(qos, long)
           p == PublishPacket(id, qos, 0, msg)
           d == sendPacket(s, p)
           w == [Waiting("publish", AckOf(qos)) EXCEPT !.msg = msg, !.qos = qos]
           keeps == c.isconnected /\ ~c.cleansession /\ ~long /\ AckOf(qos) # 0
<1>1. /\ use \in DOMAIN Uses /\ Good(S) /\ qos \in 0..2
      /\ used.calls \in Nat /\ MaxCalls \in Nat /\ used.calls < MaxCalls
      /\ S.c = c /\ S.net = net /\ UNCHANGED <<broker, got>>
      /\ call.op = "idle" /\ c.next \in 0..MAX_PACKET_ID
      /\ net \in Nets
  BY StateParts, UseTypes
  DEF TypeInv, ClientFits, UsedFits, Publish, S, Sessions
<1>2. /\ IF ~c.isconnected THEN Return("publish", FAILURE, S)
         ELSE IF long THEN Return("publish", FAILURE, s)
         ELSE IF d.rc = FAILURE THEN Return("publish", FAILURE, closeSession(d))
         ELSE IF AckOf(qos) = 0 THEN Return("publish", SUCCESS, d)
         ELSE Wait(w, d)
      /\ kept' = IF keeps THEN kept \cup {msg} ELSE kept
  BY DEF Publish, PublishId, Publishes
<1>3. w.op = "publish" /\ w.want = AckOf(qos) /\ w.msg = msg
  BY DEF Waiting, Idle
<1>4. /\ msg \in Nat /\ msg \in Outgoing /\ msg \notin kept
      /\ id \in Nat /\ (id > 0 <=> qos # 0)
  BY <1>1, NextId, UseTypes DEF Outgoing, PublishId
<1>5. /\ Good(s) /\ s.net = net /\ s.c.isconnected = c.isconnected
      /\ s.c.cleansession = c.cleansession
      /\ c.cleansession \/ long => s.c.inflight = c.inflight
      /\ ~(c.cleansession \/ long) =>
           s.c.inflight = [id |-> id, qos |-> qos, msg |-> msg]
  BY <1>1, PublishesGood
<1>6. /\ p \in Packets /\ p.type = PUBLISH /\ p.id = id /\ p.qos = qos
      /\ p.msg = msg
  <2> HIDE DEF msg, id
  <2> QED
    BY <1>1, <1>4, PublishTypes
<1>7. ~Awaits(call) /\ ~Awaits(Idle) /\ Idle.op = "idle" /\ Awaits(w)
  BY <1>1, <1>3 DEF Awaits, Idle
<1> HIDE DEF s, msg, id, p, w
<1>8. /\ Good(d) /\ Same(s, d) /\ d.c = s.c
      /\ d.net.up \in {net.up, Append(net.up, p)}
  BY <1>1, <1>5, <1>6, AskSent
<1> HIDE DEF d
<1>9. PubFits(S.c, S.net, Idle, broker, got, kept)
  BY <1>1, PubAlike DEF PubInv, Idle
<1>10. CASE ~c.isconnected
  BY <1>1, <1>2, <1>9, <1>10, PubReturn
<1>11. CASE c.isconnected /\ long
  <2>1. PubFits(s.c, s.net, Idle, broker, got, kept)
    BY <1>1, <1>5, <1>9, <1>11, PubSession
  <2> QED
    BY <1>1, <1>2, <1>11, <2>1, PubReturn
<1>12. CASE c.isconnected /\ ~long
  <2> DEFINE k == IF AckOf(qos) = 0 THEN Idle ELSE w
  <2>1. /\ ~net.fresh /\ NoToken(net) /\ d.net.down = net.down
        /\ ~d.net.fresh
    BY <1>1, <1>5, <1>7, <1>8, <1>12
    DEF PubInv, PubFits, Starts, TokensFit, Same
  <2>2. Took(broker) = {}
    BY <1>7, <1>12 DEF PubInv, PubFits, TakenFits, Took
  <2>3. Awaits(k) => AckOf(qos) # 0 /\ k = w
    BY <1>7
  <2>4. k.op \in {"idle", "publish"}
    BY <1>3, <1>7
  <2> HIDE DEF k
  <2>5. Starts(s.c, d.net, k, broker)
    <3>1. s.c.inflight.id > 0 =>
            s.c.inflight.msg \in Outgoing /\ s.c.inflight.qos \in OutQoS \ {0}
      BY <1>4, <1>5 DEF PubInv, PubFits, Starts
    <3>2. AckOf(qos) # 0 =>
            AckOf(qos) = PUBACK \/ (QoS2Used /\ AckOf(qos) = PUBCOMP)
      BY DEF AckOf, QoS2Used
    <3> QED
      BY <1>3, <1>4, <1>5, <1>12, <2>1, <2>3, <2>4, <3>1, <3>2 DEF Starts
  <2>6. TokensFit(s.c, d.net, k, broker, got)
    <3>1. CASE AckOf(qos) = 0
      <4>1. p \notin UpTokens
        BY <1>1, <1>6, <3>1 DEF UpTokens, PUBLISH, PUBREL
      <4>2. Lacks(d.net.up, UpTokens) /\ Lacks(d.net.down, DownTokens)
        BY <1>1, <1>6, <1>8, <2>1, <4>1, WiresAre, LacksMore DEF NoToken
      <4> QED
        BY <2>3, <3>1, <4>2 DEF TokensFit, NoToken
    <3>2. CASE AckOf(qos) # 0
      <4>1. k = w
        BY <3>2 DEF k
      <4>2. UpMeans(p, w, broker, got)
        BY <1>3, <1>6, <2>2 DEF UpMeans
      <4>3. OneToken(d.net, w, broker, got)
        BY <1>1, <1>6, <1>8, <2>1, <4>2, OneTokenSent
      <4> QED
        BY <1>7, <4>1, <4>3 DEF TokensFit
    <3> QED
      BY <3>1, <3>2
  <2>7. KeptFits(s.c, k, got, kept')
    <3>1. /\ kept \subseteq Outgoing /\ (c.cleansession => kept = {})
          /\ \A m \in kept : got[m] > 0
      BY <1>7, <1>12 DEF PubInv, PubFits, KeptFits
    <3>2. CASE c.cleansession
      <4>1. kept' = {}
        BY <1>2, <3>1, <3>2
      <4> QED
        BY <4>1 DEF KeptFits
    <3>3. CASE ~c.cleansession
      <4>1. s.c.inflight = [id |-> id, qos |-> qos, msg |-> msg]
        BY <1>5, <1>12, <3>3
      <4>2. AckOf(qos) # 0 => id > 0 /\ Awaits(k)
        <5>1. AckOf(qos) # 0 => qos # 0
          BY DEF AckOf
        <5> QED
          BY <1>4, <1>7, <5>1 DEF k
      <4>3. kept' = IF AckOf(qos) # 0 THEN kept \cup {msg} ELSE kept
        BY <1>2, <1>12, <3>3
      <4>4. kept' \subseteq Outgoing
            /\ \A m \in kept' : got[m] > 0 \/ (id > 0 /\ m = msg)
        BY <1>4, <3>1, <4>2, <4>3
      <4>5. msg \in kept' => AckOf(qos) # 0 /\ Awaits(k)
        BY <1>4, <4>2, <4>3
      <4>6. /\ s.c.inflight.id = id /\ s.c.inflight.qos = qos
            /\ s.c.inflight.msg = msg
        BY <4>1
      <4> QED
        BY <1>5, <3>3, <4>4, <4>5, <4>6 DEF KeptFits
    <3> QED
      BY <3>2, <3>3
  <2>8. TakenFits(s.c, d.net, k, broker, got)
    <3>1. ASSUME QoS2Used, KeepsSessions
          PROVE  TakenKept(s.c, d.net, broker, got)
      <4>1. ~c.cleansession
        BY <2>1, <3>1 DEF PubInv, PubFits, TakenFits, TakenKept
      <4>2. s.c.inflight = [id |-> id, qos |-> qos, msg |-> msg]
        BY <1>5, <1>12, <4>1
      <4>3. p \notin Strays(s.c.inflight)
        BY <1>4, <1>6, <4>2 DEF Strays
      <4>4. Strays(s.c.inflight) \subseteq UpTokens
        BY <3>1 DEF Strays, UpTokens, Of, AckOf, QoS2Used, PUBCOMP
      <4>5. Lacks(net.up, Strays(s.c.inflight))
        BY <2>1, <4>4 DEF NoToken, Lacks
      <4>6. Lacks(d.net.up, Strays(s.c.inflight))
        BY <1>1, <1>6, <1>8, <4>3, <4>5, WiresAre, LacksMore
      <4> QED
        BY <1>5, <2>2, <4>1, <4>6 DEF TakenKept
    <3>2. ASSUME QoS2Used, ~KeepsSessions
          PROVE  TakenDropped(s.c, d.net, k, broker)
      BY <1>5, <2>4, <3>2 DEF PubInv, PubFits, TakenFits, TakenDropped
    <3> QED
      BY <2>2, <3>1, <3>2 DEF TakenFits
  <2>9. PubFits(d.c, d.net, k, broker, got, kept')
    BY <1>8, <2>5, <2>6, <2>7, <2>8 DEF PubFits
  <2>10. CASE d.rc = FAILURE
    <3> DEFINE e == closeSession(d)
    <3>1. Return("publish", FAILURE, e)
      BY <1>2, <1>12, <2>10
    <3>2. PubFits(e.c, e.net, Idle, broker, got, kept')
      BY <1>1, <1>8, <2>9, ClosedFits
    <3> HIDE DEF e
    <3>3. c' = e.c /\ net' = e.net /\ call' = Idle
      BY <3>1 DEF Return, Apply
    <3> QED
      BY <1>1, <3>2, <3>3, PubNext
  <2>11. CASE d.rc # FAILURE
    <3>1. c' = d.c /\ net' = d.net /\ call' = k
      BY <1>2, <1>12, <2>11 DEF Return, Wait, Apply, k
    <3> QED
      BY <1>1, <2>9, <3>1, PubNext
  <2> QED
    BY <2>10, <2>11
<1> QED
  BY <1>10, <1>11, <1>12

\* subscribe() and unsubscribe().
LEMMA AskPub ==
  ASSUME TypeInv, UNCHANGED use, PubInv, NEW topic \in Topics,
         Subscribe(topic) \/ Unsubscribe(topic)
  PROVE  PubInv'
<1>1. PICK op, type, want :
        /\ \/ op = "subscribe" /\ type = SUBSCRIBE /\ want = SUBACK
           \/ op = "unsubscribe" /\ type = UNSUBSCRIBE /\ want = UNSUBACK
        /\ Ask(op, type, want, topic)
  BY DEF Subscribe, Unsubscribe
<1> DEFINE p == Packet(type, getNext(c.next), 0, topic)
           d == sendPacket(Asks, p)
           k == [Waiting(op, want) EXCEPT !.topic = topic]
<1>2. /\ use \in DOMAIN Uses /\ Good(S) /\ S.c = c /\ S.net = net
      /\ UNCHANGED <<broker, got, kept>> /\ call.op = "idle"
      /\ c.next \in 0..MAX_PACKET_ID /\ net \in Nets
  BY <1>1, StateParts DEF TypeInv, ClientFits, Ask, S, Sessions
<1>3. IF ~c.isconnected THEN Return(op, FAILURE, closeSession(S))
      ELSE IF d.rc = FAILURE THEN Return(op, FAILURE, closeSession(d))
      ELSE Wait(k, d)
  BY <1>1 DEF Ask, Asks
<1>4. p \in Packets /\ p.type \notin {CONNECT, PUBLISH, PUBREL}
  <2>1. getNext(c.next) \in Nat
    BY <1>2, NextId, UseTypes
  <2>2. type \in 0..15 /\ type \notin {CONNACK, CONNECT, PUBLISH, PUBREL}
    BY <1>1 DEF SUBSCRIBE, UNSUBSCRIBE, CONNACK, CONNECT, PUBLISH, PUBREL
  <2> QED
    BY <2>1, <2>2 DEF Packet, Packets, PacketFields
<1>5. k.op = op
  BY DEF Waiting, Idle
<1> HIDE DEF p, k
<1>6. /\ Good(Asks) /\ Asks.net = net /\ Asks.c.isconnected = c.isconnected
      /\ Asks.c.cleansession = c.cleansession
      /\ Asks.c.inflight = c.inflight
  BY <1>2, AsksGood
<1>7. /\ Good(d) /\ Same(Asks, d) /\ d.c = Asks.c
      /\ d.net.up \in {net.up, Append(net.up, p)}
  BY <1>2, <1>4, <1>6, AskSent
<1> HIDE DEF d
<1>8. CASE ~c.isconnected
  <2>1. Return(op, FAILURE, closeSession(S))
    BY <1>3, <1>8
  <2>2. PubFits(S.c, S.net, call, broker, got, kept)
    BY <1>2 DEF PubInv
  <2> QED
    BY <1>2, <2>1, <2>2, ClosedPub
<1>9. CASE c.isconnected
  <2>1. ~net.fresh
    BY <1>9 DEF PubInv, PubFits, Starts
  <2>2. ~d.net.fresh /\ d.net.down = net.down
    BY <1>6, <1>7, <2>1 DEF Same
  <2>3. PubFits(Asks.c, net, call, broker, got, kept)
    BY <1>6, PubSession DEF PubInv
  <2>4. PubFits(d.c, d.net, call, broker, got, kept)
    BY <1>2, <1>4, <1>7, <2>1, <2>2, <2>3, SentPub
  <2>5. PubFits(d.c, d.net, k, broker, got, kept)
    BY <1>1, <1>2, <1>5, <2>2, <2>4, PubAlike
  <2>6. CASE d.rc = FAILURE
    <3>1. Return(op, FAILURE, closeSession(d))
      BY <1>3, <1>9, <2>6
    <3> QED
      BY <1>2, <1>7, <2>4, <3>1, ClosedPub
  <2>7. CASE d.rc # FAILURE
    <3>1. Wait(k, d)
      BY <1>3, <1>9, <2>7
    <3> QED
      BY <1>2, <2>5, <3>1, PubWait
  <2> QED
    BY <2>6, <2>7
<1> QED
  BY <1>8, <1>9

-----------------------------------------------------------------------------
(* What the broker does with the packets it finds.                         *)

\* It takes a token: the call waits for what that leads to.
LEMMA UpToken ==
  ASSUME net \in Nets, net.up # <<>>, NEW p, p = Head(net.up),
         p \in UpTokens, PubInv,
         Awaits(call) \/ c.isconnected \/ call.op = "connect"
  PROVE  /\ Awaits(call) /\ UpMeans(p, call, broker, got)
         /\ Lacks(net.down, DownTokens) /\ Lacks(Tail(net.up), UpTokens)
<1>1. /\ net.up \in Seq(Packets) /\ Len(net.up) \in Nat /\ Len(net.up) > 0
      /\ p = net.up[1]
  BY WiresAre
<1>2. ~Lacks(net.up, UpTokens)
  BY <1>1 DEF Lacks
<1>3. TokensFit(c, net, call, broker, got)
  BY DEF PubInv, PubFits
<1>4. Awaits(call) /\ OneToken(net, call, broker, got)
  BY <1>2, <1>3 DEF TokensFit, NoToken
<1>5. Lacks(net.down, DownTokens) /\ Once(net.up, UpTokens)
  BY <1>2, <1>4 DEF OneToken
<1>6. UpMeans(p, call, broker, got)
  <2> DEFINE P == {q \in UpTokens : ~UpMeans(q, call, broker, got)}
  <2>1. Lacks(net.up, P)
    BY <1>4 DEF OneToken
  <2> HIDE DEF P
  <2>2. p \notin P
    BY <1>1, <2>1 DEF Lacks
  <2> QED
    BY <2>2 DEF P
<1>7. Lacks(Tail(net.up), UpTokens)
  BY <1>1, <1>5, OnceLess
<1> QED
  BY <1>4, <1>5, <1>6, <1>7

\* Its answer is then the only token.
LEMMA TokenAnswered ==
  ASSUME net \in Nets, net.up # <<>>, NEW p, p = Head(net.up),
         p \in UpTokens, PubInv, NEW e, NEW h, NEW mm, NEW a \in Packets,
         mm.up = Tail(net.up), mm.down = net.down \o <<a>>,
         Awaits(call) /\ UpMeans(p, call, broker, got) =>
           DownMeans(a, call, e, h)
  PROVE  TokensFit(c, mm, call, e, h)
<1>1. CASE ~(Awaits(call) \/ c.isconnected \/ call.op = "connect")
  BY <1>1 DEF TokensFit
<1>2. CASE Awaits(call) \/ c.isconnected \/ call.op = "connect"
  <2> DEFINE U == {q \in UpTokens : ~UpMeans(q, call, e, h)}
             D == {q \in DownTokens : ~DownMeans(q, call, e, h)}
             r == <<a>>
  <2>1. /\ Awaits(call) /\ UpMeans(p, call, broker, got)
        /\ Lacks(net.down, DownTokens) /\ Lacks(mm.up, UpTokens)
    BY <1>2, UpToken
  <2>2. U \subseteq UpTokens /\ D \subseteq DownTokens /\ a \notin D
    BY <2>1
  <2>3. /\ r \in Seq(Packets) /\ Len(r) = 1 /\ r[1] = a
        /\ net.down \in Seq(Packets) /\ mm.down = net.down \o r
    BY WiresAre
  <2> HIDE DEF U, D, r
  <2>4. Once(r, DownTokens) /\ Lacks(r, D)
    BY <2>2, <2>3 DEF Once, Lacks
  <2>5. Once(mm.down, DownTokens)
    BY <2>1, <2>3, <2>4, OnceConcat
  <2>6. Lacks(net.down, D)
    BY <2>1, <2>2 DEF Lacks
  <2>7. Lacks(mm.down, D)
    BY <2>3, <2>4, <2>6, LacksConcat
  <2>8. Lacks(mm.up, U) /\ Once(mm.up, UpTokens)
    BY <2>1, <2>2 DEF Lacks, Once
  <2> QED
    BY <2>1, <2>5, <2>7, <2>8 DEF TokensFit, OneToken, U, D
<1> QED
  BY <1>1, <1>2

\* An answer that is no token, and nothing new in the table.
LEMMA AnsweredPub ==
  ASSUME UNCHANGED <<use, c, call, kept>>, PubInv,
         net \in Nets, net.up # <<>>, ~net.fresh,
         NEW b, NEW packets \in Seq(Packets), Answer(b, packets),
         \A i \in 1..Len(packets) : packets[i] \notin DownTokens,
         Cleared(net, broker) => Cleared(net', b),
         Took(b) \subseteq Took(broker), Grows(got, got')
  PROVE  PubInv'
<1>1. net.up \in Seq(Packets) /\ net.down \in Seq(Packets)
  BY WiresAre
<1>2. /\ broker' = b /\ net'.up = Tail(net.up) /\ net'.fresh = net.fresh
      /\ net'.down = net.down \o packets
  BY AnswerNets
<1>3. Less(net.up, net'.up, {PUBLISH}) /\ Fewer(net.up, net'.up, UpTokens)
  BY <1>1, <1>2, LessFewer, LacksLess, OnceLess DEF Fewer
<1>4. Fewer(net.down, net'.down, DownTokens)
  <2> SUFFICES ASSUME NEW P \in SUBSET DownTokens
               PROVE  /\ Lacks(net.down, P) => Lacks(net'.down, P)
                      /\ Once(net.down, P) => Once(net'.down, P)
    BY DEF Fewer
  <2>1. Lacks(packets, P)
    BY DEF Lacks
  <2> QED
    BY <1>1, <1>2, <2>1, LacksConcat
<1>5. TokensFit(c, net', call, b, got')
  <2>1. TokensFit(c, net, call, broker, got)
        /\ (Awaits(call) => call.msg \in Outgoing)
    BY DEF PubInv, PubFits, Starts
  <2> QED
    BY <1>3, <1>4, <2>1, TokensFewer
<1> QED
  BY <1>2, <1>3, <1>5, WiresPub

\* The same, of a broker that stays connected.
LEMMA PlainlyPub ==
  ASSUME UNCHANGED <<use, c, call, kept>>, PubInv,
         net \in Nets, net.up # <<>>, ~net.fresh,
         NEW b, NEW packets \in Seq(Packets), Answer(b, packets),
         \A i \in 1..Len(packets) :
           packets[i] \notin DownTokens /\ packets[i].type # CONNACK,
         b.conn = broker.conn,
         Took(b) \subseteq Took(broker), Grows(got, got')
  PROVE  PubInv'
<1>1. net.up \in Seq(Packets) /\ net.down \in Seq(Packets)
  BY WiresAre
<1>2. /\ net'.up = Tail(net.up) /\ net'.down = net.down \o packets
  BY AnswerNets
<1>3. /\ Less(net.up, net'.up, {CONNECT})
      /\ Less(net.down, net'.down, {CONNACK})
  BY <1>1, <1>2, LessFewer, LessConcat
<1>4. Cleared(net, broker) => Cleared(net', b)
  BY <1>3, ClearedKept
<1> QED
  BY <1>4, AnsweredPub

\* CONNECT: a clean session begins with an empty table.
LEMMA AcceptsPub ==
  ASSUME UNCHANGED <<use, c, call, kept>>, PubInv,
         net \in Nets, net.up # <<>>, ~net.fresh, broker \in Brokers,
         NEW p, p = Head(net.up), p.type = CONNECT, BrokerAccepts(p)
  PROVE  PubInv'
<1> DEFINE b == IF p.what = 1 \/ broker.clean
                THEN [NoSession EXCEPT !.acked = broker.acked,
                                       !.sent = broker.sent]
                ELSE broker
           e == [b EXCEPT !.conn = TRUE, !.clean = (p.what = 1)]
           packets == Ack(CONNACK, 0) \o Resent(b.out)
<1>1. /\ b \in Brokers
      /\ b.taken = IF p.what = 1 \/ broker.clean THEN {} ELSE broker.taken
  <2>1. NoSession \in Brokers /\ NoSession.taken = {}
    BY DEF NoSession, Brokers
  <2>2. broker.acked \in SUBSET Nat /\ broker.sent \in Nat
    BY DEF Brokers
  <2> QED
    BY <2>1, <2>2 DEF Brokers
<1>2. Answer(e, packets) /\ UNCHANGED got
  BY DEF BrokerAccepts
<1> HIDE DEF b
<1>3. e.taken = b.taken /\ e.conn
  BY <1>1 DEF Brokers
<1>4. /\ packets \in Seq(Packets)
      /\ \A i \in 1..Len(packets) : packets[i] \notin DownTokens
  <2> DEFINE u == Ack(CONNACK, 0)
             v == Resent(b.out)
  <2>1. u \in Seq(Packets) /\ Len(u) = 1 /\ u[1].type = CONNACK
    BY AckPackets
  <2>2. /\ v \in Seq(Packets)
        /\ \A i \in 1..Len(v) : v[i].type \in {PUBLISH, PUBREL}
    BY <1>1, ResentPackets DEF Brokers
  <2> HIDE DEF u, v
  <2>3. \A x \in DownTokens : x.type \notin {CONNACK, PUBLISH, PUBREL}
    BY TokenTypes DEF CONNACK, PUBLISH, PUBREL, PUBACK, PUBREC, PUBCOMP
  <2>4. Lacks(u, DownTokens) /\ Lacks(v, DownTokens)
    BY <2>1, <2>2, <2>3 DEF Lacks
  <2>5. Lacks(u \o v, DownTokens) /\ u \o v \in Seq(Packets)
    BY <2>1, <2>2, <2>4, LacksConcat
  <2>6. packets = u \o v
    BY DEF u, v
  <2> QED
    BY <2>5, <2>6 DEF Lacks
<1>5. ASSUME Cleared(net, broker) PROVE Cleared(net', e)
  <2>1. Len(net.up) \in Nat /\ Len(net.up) > 0 /\ p = net.up[1]
        /\ p \in Packets /\ net.up \in Seq(Packets)
    BY WiresAre
  <2>2. p \notin Without(CONNECT, 1)
    BY <1>5, <2>1 DEF Cleared, Lacks
  <2>3. p.what = 1
    BY <2>1, <2>2 DEF Without, Of
  <2>4. Took(e) = {}
    BY <1>1, <1>3, <2>3 DEF Took
  <2>5. Lacks(net'.up, Without(CONNECT, 1))
    <3>1. net'.up = Tail(net.up)
      BY <1>2, <1>4, AnswerNets
    <3> QED
      BY <1>5, <2>1, <3>1, LacksLess DEF Cleared
  <2> QED
    BY <1>3, <2>4, <2>5 DEF Cleared
<1>6. Took(e) \subseteq Took(broker) /\ Grows(got, got')
  BY <1>1, <1>2, <1>3 DEF Took, Grows
<1> HIDE DEF e, packets
<1> QED
  BY <1>2, <1>4, <1>5, <1>6, AnsweredPub

\* The broker closes the connection, with or without an answer.
LEMMA ClosesPub ==
  ASSUME UNCHANGED <<use, c, call, kept>>, PubInv, net \in Nets, ~net.fresh,
         BrokerRefuses \/ BrokerCloses
  PROVE  PubInv'
<1> DEFINE e == Packet(CONNACK, 0, 0, 5)
           packets == <<e>>
<1>1. e \in Packets /\ e.type = CONNACK /\ e.what = 5
  BY DEF Packet, Packets, PacketFields, CONNACK
<1> HIDE DEF e
<1>2. /\ packets \in Seq(Packets) /\ Len(packets) = 1 /\ packets[1] = e
      /\ net.down \in Seq(Packets)
  BY <1>1, WiresAre
<1>3. /\ UNCHANGED <<broker, got>> /\ net'.up = <<>> /\ ~net'.fresh
      /\ net'.down \in {net.down, net.down \o packets}
  BY DEF BrokerRefuses, BrokerCloses, Nets, e
<1> HIDE DEF packets
<1>4. e \notin With(CONNACK, 0) /\ e.type \notin {PUBACK, PUBREC, PUBCOMP}
  BY <1>1 DEF With, CONNACK, PUBACK, PUBREC, PUBCOMP
<1>5. /\ \A types : Less(net.up, net'.up, types)
      /\ Less(net.down, net'.down, {PUBACK, PUBREC, PUBCOMP})
  <2>1. \A i \in 1..Len(packets) :
          packets[i].type \notin {PUBACK, PUBREC, PUBCOMP}
    BY <1>2, <1>4
  <2> QED
    BY <1>2, <1>3, <2>1, LessEmpty, LessConcat
<1>6. Cleared(net, broker) => Cleared(net', broker')
  <2>1. Lacks(packets, With(CONNACK, 0))
    BY <1>2, <1>4 DEF Lacks
  <2>2. Lacks(net.down, With(CONNACK, 0)) => Lacks(net'.down, With(CONNACK, 0))
    BY <1>2, <1>3, <2>1, LacksConcat
  <2>3. Lacks(net'.up, Without(CONNECT, 1))
    BY <1>3 DEF Lacks
  <2> QED
    BY <1>3, <2>2, <2>3 DEF Cleared
<1>7. Took(broker') = Took(broker) /\ Grows(got, got')
  BY <1>3 DEF Grows
<1>8. TokensFit(c, net', call, broker', got')
  <2>1. TokensFit(c, net, call, broker, got)
        /\ (Awaits(call) => call.msg \in Outgoing)
    BY DEF PubInv, PubFits, Starts
  <2> QED
    BY <1>5, <1>7, <2>1, TokensLess
<1> QED
  BY <1>3, <1>5, <1>6, <1>7, <1>8, WiresPub

\* PUBREL: the id leaves the table, and PUBCOMP follows.
LEMMA CompletesPub ==
  ASSUME UNCHANGED <<use, c, call, kept, got>>, PubInv,
         net \in Nets, net.up # <<>>, ~net.fresh, broker \in Brokers,
         NEW p, p = Head(net.up), p.type = PUBREL,
         Answer([broker EXCEPT !.taken = @ \ {p.id}], Ack(PUBCOMP, p.id))
  PROVE  PubInv'
<1> DEFINE b == [broker EXCEPT !.taken = @ \ {p.id}]
           a == Packet(PUBCOMP, p.id, 0, 0)
<1>1. p \in Packets /\ p.id \in Nat /\ net.up \in Seq(Packets)
      /\ net.down \in Seq(Packets)
  <2>1. p \in Packets /\ net.up \in Seq(Packets) /\ net.down \in Seq(Packets)
    BY WiresAre
  <2> QED
    BY <2>1 DEF Packets, PacketFields
<1>2. /\ Ack(PUBCOMP, p.id) \in Seq(Packets) /\ Ack(PUBCOMP, p.id) = <<a>>
      /\ a \in Packets /\ a.type = PUBCOMP
  BY <1>1 DEF Ack, Packet, Packets, PacketFields, PUBCOMP, CONNACK
<1>3. b.taken = broker.taken \ {p.id} /\ b.conn = broker.conn
  BY DEF Brokers
<1> HIDE DEF a, b
<1>4. /\ broker' = b /\ net'.up = Tail(net.up) /\ net'.down = net.down \o <<a>>
      /\ net'.fresh = net.fresh
  BY <1>2, AnswerNets DEF b
<1>5. Took(b) = Took(broker) \ {p.id} /\ Grows(got, got')
  BY <1>3 DEF Took, Grows
<1>6. p \in UpTokens
  BY <1>1 DEF UpTokens
<1>7. UpMeans(p, call, broker, got) => DownMeans(a, call, b, got)
  BY <1>2, <1>5
  DEF UpMeans, DownMeans, PUBREL, PUBLISH, PUBCOMP, PUBACK, PUBREC
<1>8. TokensFit(c, net', call, b, got)
  BY <1>2, <1>4, <1>6, <1>7, TokenAnswered
<1>9. /\ Less(net.up, net'.up, {PUBLISH}) /\ Less(net.up, net'.up, {CONNECT})
      /\ Less(net.down, net'.down, {CONNACK})
  <2> DEFINE r == <<a>>
  <2>1. r \in Seq(Packets) /\ Len(r) = 1 /\ r[1].type \notin {CONNACK}
    BY <1>2 DEF CONNACK, PUBCOMP
  <2>2. net'.down = net.down \o r
    BY <1>4
  <2> HIDE DEF r
  <2>3. Less(net.up, net'.up, {PUBLISH}) /\ Less(net.up, net'.up, {CONNECT})
    BY <1>1, <1>4, LessFewer
  <2>4. Less(net.down, net'.down, {CONNACK})
    <3>1. \A i \in 1..Len(r) : r[i].type \notin {CONNACK}
      BY <2>1
    <3> QED
      BY <1>1, <2>1, <2>2, <3>1, LessConcat
  <2> QED
    BY <2>3, <2>4
<1>10. Cleared(net, broker) => Cleared(net', broker')
  BY <1>3, <1>4, <1>5, <1>9, ClearedKept
<1> QED
  BY <1>4, <1>5, <1>8, <1>9, <1>10, WiresPub

\* PUBLISH at QoS 1 or 2: the message is there before the answer is.
LEMMA ReceivesPub ==
  ASSUME TypeInv, UNCHANGED <<use, c, call, kept>>, PubInv, net.up # <<>>,
         ~net.fresh, NEW p, p = Head(net.up), p.type = PUBLISH, p.qos # 0,
         BrokerTakesPublish(p)
  PROVE  PubInv'
<1> DEFINE b == IF p.qos = 2 THEN [broker EXCEPT !.taken = @ \cup {p.id}]
                ELSE broker
           a == Packet(IF p.qos = 1 THEN PUBACK ELSE PUBREC, p.id, 0, 0)
<1>1. /\ net \in Nets /\ broker \in Brokers /\ got \in [Outgoing -> 0..2]
      /\ p \in Packets /\ p.id \in Nat /\ p.qos \in 0..3
      /\ net.up \in Seq(Packets) /\ net.down \in Seq(Packets)
      /\ Len(net.up) \in Nat /\ Len(net.up) > 0 /\ p = net.up[1]
  <2>1. net \in Nets /\ broker \in Brokers /\ got \in [Outgoing -> 0..2]
    BY StateParts DEF TypeInv, ClientFits, BrokerFits
  <2>2. net.up \in Seq(Packets) /\ net.down \in Seq(Packets)
    BY <2>1, WiresAre
  <2>3. p \in Packets /\ Len(net.up) \in Nat /\ Len(net.up) > 0 /\ p = net.up[1]
    BY <2>2
  <2>4. p.id \in Nat /\ p.qos \in 0..3
    BY <2>3 DEF Packets, PacketFields
  <2> QED
    BY <2>1, <2>2, <2>3, <2>4
<1>2. /\ Answer(b, <<a>>)
      /\ got' = IF p.qos = 2 /\ p.id \in broker.taken THEN got
                ELSE [got EXCEPT ![p.msg] = IF @ = 2 THEN 2 ELSE @ + 1]
  BY DEF BrokerTakesPublish, Ack
<1>3. /\ a \in Packets /\ a.type = IF p.qos = 1 THEN PUBACK ELSE PUBREC
      /\ a.id = p.id
  BY <1>1 DEF Packet, Packets, PacketFields, PUBACK, PUBREC, CONNACK
<1>4. /\ b.conn = broker.conn
      /\ b.taken = IF p.qos = 2 THEN broker.taken \cup {p.id} ELSE broker.taken
  BY <1>1 DEF Brokers
<1> HIDE DEF a, b
<1>5. /\ Grows(got, got')
      /\ p.msg \in Outgoing /\ ~(p.qos = 2 /\ p.id \in broker.taken) =>
           got'[p.msg] > 0
  <2>1. \A m \in Outgoing : got[m] \in 0..2
    BY <1>1
  <2>2. CASE p.qos = 2 /\ p.id \in broker.taken
    BY <1>2, <2>2 DEF Grows
  <2>3. CASE ~(p.qos = 2 /\ p.id \in broker.taken)
    <3> DEFINE n == IF got[p.msg] = 2 THEN 2 ELSE got[p.msg] + 1
    <3>1. got' = [got EXCEPT ![p.msg] = n]
      BY <1>2, <2>3
    <3>2. p.msg \in Outgoing => n > 0
      BY <2>1
    <3> HIDE DEF n
    <3> QED
      BY <1>1, <2>1, <3>1, <3>2 DEF Grows
  <2> QED
    BY <2>2, <2>3
<1>6. /\ broker' = b /\ net'.up = Tail(net.up) /\ net'.down = net.down \o <<a>>
      /\ net'.fresh = net.fresh
  <2> DEFINE r == <<a>>
  <2>1. r \in Seq(Packets)
    BY <1>3
  <2>2. Answer(b, r)
    BY <1>2
  <2> HIDE DEF r
  <2>3. /\ broker' = b /\ net'.up = Tail(net.up) /\ net'.down = net.down \o r
        /\ net'.fresh = net.fresh
    BY <1>1, <2>1, <2>2, AnswerNets
  <2> QED
    BY <2>3 DEF r
<1>7. Took(b) = Took(broker) \cup (IF QoS2Used /\ p.qos = 2 THEN {p.id} ELSE {})
  BY <1>4 DEF Took
<1>8. ASSUME p \notin UpTokens PROVE PubInv'
  <2>1. p.qos = 2 /\ ~QOS2Build
    BY <1>1, <1>8 DEF UpTokens, AckOf, PUBACK, PUBCOMP
  <2>2. a \notin DownTokens /\ a.type # CONNACK
    BY <1>3, <2>1 DEF DownTokens, PUBACK, PUBREC, CONNACK
  <2>3. Took(b) \subseteq Took(broker)
    BY <1>7, <2>1 DEF QoS2Used
  <2> DEFINE r == <<a>>
  <2>4. r \in Seq(Packets) /\ Len(r) = 1 /\ r[1] = a /\ Answer(b, r)
    BY <1>2, <1>3
  <2> HIDE DEF r
  <2>5. \A i \in 1..Len(r) : r[i] \notin DownTokens /\ r[i].type # CONNACK
    BY <2>2, <2>4
  <2> QED
    BY <1>1, <1>4, <1>5, <2>3, <2>4, <2>5, PlainlyPub
<1>9. ASSUME p \in UpTokens PROVE PubInv'
  <2>1. ASSUME Awaits(call), UpMeans(p, call, broker, got)
        PROVE  DownMeans(a, call, b, got')
    <3>1. /\ call.msg \in Outgoing /\ p.msg = call.msg
          /\ call.want = AckOf(p.qos)
          /\ call.want = PUBACK \/ (QoS2Used /\ call.want = PUBCOMP)
      BY <2>1 DEF UpMeans, PubInv, PubFits, Starts
    <3>2. \/ p.qos = 1 /\ call.want = PUBACK
          \/ p.qos = 2 /\ call.want = PUBCOMP /\ QoS2Used
      BY <1>1, <3>1 DEF AckOf, PUBACK, PUBCOMP
    <3>3. got'[call.msg] > 0
      <4>1. p.id \in Took(broker) => got[call.msg] > 0
        BY <2>1 DEF UpMeans
      <4>2. p.qos = 2 => Took(broker) = broker.taken
        BY <3>2 DEF Took, PUBACK, PUBCOMP
      <4> QED
        BY <1>5, <3>1, <4>1, <4>2 DEF Grows
    <3>4. Took(b) \subseteq IF p.qos = 2 THEN {p.id} ELSE {}
      BY <1>7, <2>1 DEF UpMeans
    <3> QED
      BY <1>3, <3>2, <3>3, <3>4 DEF DownMeans, PUBACK, PUBREC, PUBCOMP
  <2>2. TokensFit(c, net', call, b, got')
    BY <1>1, <1>3, <1>6, <1>9, <2>1, TokenAnswered
  <2>3. Starts(c, net', call, b)
    BY <1>6 DEF PubInv, PubFits, Starts
  <2>4. KeptFits(c, call, got', kept)
    BY <1>5 DEF PubInv, PubFits, KeptFits, Grows
  <2>5. c.isconnected \/ call.op = "connect" => Awaits(call)
    BY <1>1, <1>9, UpToken
  <2>6. ASSUME QoS2Used, KeepsSessions PROVE TakenKept(c, net', b, got')
    <3>1. TakenKept(c, net, broker, got)
      BY <2>6 DEF PubInv, PubFits, TakenFits
    <3>2. Lacks(net'.up, Strays(c.inflight)) /\ p \notin Strays(c.inflight)
      BY <1>1, <1>6, <3>1, LacksLess DEF TakenKept, Lacks
    <3>3. Took(broker) = broker.taken
      BY <2>6 DEF Took
    <3>4. c.inflight.id > 0 => c.inflight.msg \in Outgoing
      BY DEF PubInv, PubFits, Starts
    <3>5. ASSUME p.qos = 2
          PROVE  /\ c.inflight.id > 0 /\ c.inflight.qos = 2
                 /\ p.id = c.inflight.id /\ p.msg = c.inflight.msg
      BY <1>1, <3>2, <3>5 DEF Strays, Of
    <3>6. Took(b) # {} =>
            /\ c.inflight.id > 0 /\ c.inflight.qos = 2
            /\ Took(b) \subseteq {c.inflight.id} /\ got'[c.inflight.msg] > 0
      <4>1. CASE p.qos = 2
        <5>1. Took(b) \subseteq {c.inflight.id}
          BY <1>7, <3>1, <3>5, <4>1 DEF TakenKept
        <5>2. got'[c.inflight.msg] > 0
          BY <1>5, <3>1, <3>3, <3>4, <3>5, <4>1 DEF TakenKept, Grows
        <5> QED
          BY <3>5, <4>1, <5>1, <5>2
      <4>2. CASE p.qos # 2
        BY <1>5, <1>7, <3>1, <3>4, <4>2 DEF TakenKept, Grows
      <4> QED
        BY <4>1, <4>2
    <3> QED
      BY <3>1, <3>2, <3>6 DEF TakenKept
  <2>7. ASSUME QoS2Used, ~KeepsSessions PROVE TakenDropped(c, net', call, b)
    <3>1. call.op # "connect"
      BY <2>5 DEF Awaits
    <3> QED
      BY <2>7, <3>1 DEF PubInv, PubFits, TakenFits, TakenDropped
  <2>8. TakenFits(c, net', call, b, got')
    BY <2>5, <2>6, <2>7 DEF TakenFits
  <2>9. PubFits(c', net', call', broker', got', kept')
    BY <1>6, <2>2, <2>3, <2>4, <2>8 DEF PubFits
  <2> QED
    BY <2>9, PubNext
<1> QED
  BY <1>8, <1>9

LEMMA BrokerPub ==
  ASSUME TypeInv, UNCHANGED use, PubInv, Broker PROVE PubInv'
<1> DEFINE p == Head(net.up)
<1>1. PICK refuse : BrokerStep(refuse)
  BY DEF Broker
<1>2. /\ net \in Nets /\ broker \in Brokers /\ net.up # <<>>
      /\ UNCHANGED <<c, call, kept>>
  BY <1>1, StateParts DEF TypeInv, ClientFits, BrokerFits, BrokerStep, Broker,
                          Others
<1>3. p \in Packets /\ p.id \in Nat /\ p.qos \in 0..3
  <2>1. p \in Packets
    BY <1>2, WiresAre
  <2> QED
    BY <2>1 DEF Packets, PacketFields
<1>4. ~net.fresh
  BY <1>2 DEF PubInv, PubFits, Starts
<1>5. Grows(got, got')
  <2>1. /\ got \in [Outgoing -> 0..2] /\ got' \in [Outgoing -> 0..2]
        /\ \A m \in Outgoing : got'[m] >= got[m]
    BY <1>1, <1>2, BrokerFinds DEF TypeInv, BrokerFits
  <2>2. \A m \in Outgoing : got[m] \in 0..2 /\ got'[m] \in 0..2
    BY <2>1
  <2> QED
    BY <2>1, <2>2 DEF Grows
<1>6. \/ p.type = CONNECT /\ BrokerAccepts(p)
      \/ BrokerRefuses \/ BrokerCloses
      \/ broker.conn /\ BrokerConnected(p)
  BY <1>1 DEF BrokerStep
<1> DEFINE Plain(packets) ==
      /\ packets \in Seq(Packets)
      /\ \A i \in 1..Len(packets) :
           packets[i] \notin DownTokens /\ packets[i].type # CONNACK
<1> HIDE DEF p
<1>7. ASSUME NEW b, b.conn = broker.conn, b.taken = broker.taken,
             NEW packets, Plain(packets), Answer(b, packets)
      PROVE  PubInv'
  <2>1. Took(b) \subseteq Took(broker)
    BY <1>7 DEF Took
  <2> QED
    BY <1>2, <1>4, <1>5, <1>7, <2>1, PlainlyPub
<1>8. Plain(<<>>)
  <2>1. <<>> \in Seq(Packets) /\ Len(<<>>) = 0 /\ 1..0 = {}
    OBVIOUS
  <2> QED
    BY <2>1
<1>9. ASSUME NEW a \in Packets, a.type \in {PUBREL, SUBACK, UNSUBACK, PINGRESP}
      PROVE  Plain(<<a>>)
  <2> DEFINE r == <<a>>
  <2>1. a \notin DownTokens /\ a.type # CONNACK
    BY <1>9 DEF DownTokens, PUBREL, SUBACK, UNSUBACK, PINGRESP, CONNACK, PUBACK,
                PUBREC, PUBCOMP
  <2>2. r \in Seq(Packets) /\ Len(r) = 1 /\ r[1] = a
    OBVIOUS
  <2> HIDE DEF r
  <2>3. Plain(r)
    BY <2>1, <2>2
  <2> QED
    BY <2>3 DEF r
<1>10. ASSUME NEW type \in {PUBREL, SUBACK, UNSUBACK, PINGRESP}, NEW id \in Nat
       PROVE  Plain(Ack(type, id))
  <2>1. /\ Packet(type, id, 0, 0) \in Packets
        /\ Packet(type, id, 0, 0).type = type
    BY DEF Packet, Packets, PacketFields, PUBREL, SUBACK, UNSUBACK, PINGRESP,
           CONNACK
  <2> QED
    BY <1>9, <2>1 DEF Ack
<1> HIDE DEF Plain
<1>11. CASE p.type = CONNECT /\ BrokerAccepts(p)
  BY <1>2, <1>4, <1>11, AcceptsPub DEF p
<1>12. CASE BrokerRefuses \/ BrokerCloses
  BY <1>2, <1>4, <1>12, ClosesPub
<1>13. CASE p.type = PUBLISH /\ BrokerTakesPublish(p)
  <2>1. CASE p.qos = 0
    <3>1. Answer(broker, <<>>)
      BY <1>13, <2>1 DEF BrokerTakesPublish
    <3> QED
      BY <1>7, <1>8, <3>1
  <2>2. CASE p.qos # 0
    BY <1>2, <1>4, <1>13, <2>2, ReceivesPub DEF p
  <2> QED
    BY <2>1, <2>2
<1>14. CASE BrokerTakesAck(p)
  <2>1. PICK b, packets :
          Answer(b, packets) /\ packets \in {<<>>, Ack(PUBREL, p.id)}
    BY <1>14 DEF BrokerTakesAck
  <2>2. b.conn = broker.conn /\ b.taken = broker.taken
    BY <1>2, <1>3, <1>14, <2>1, TakesAckFits DEF Answer
  <2>3. Plain(packets)
    BY <1>3, <1>8, <1>10, <2>1
  <2> QED
    BY <1>7, <2>1, <2>2, <2>3
<1>15. CASE /\ p.type = PUBREL /\ UNCHANGED got
            /\ Answer([broker EXCEPT !.taken = @ \ {p.id}], Ack(PUBCOMP, p.id))
  BY <1>2, <1>4, <1>15, CompletesPub DEF p
<1>16. CASE Answer([broker EXCEPT !.subs = @ \cup {p.what}], Ack(SUBACK, p.id))
  <2> DEFINE b == [broker EXCEPT !.subs = @ \cup {p.what}]
  <2>1. b.conn = broker.conn /\ b.taken = broker.taken
    BY <1>2 DEF Brokers
  <2> HIDE DEF b
  <2>2. Answer(b, Ack(SUBACK, p.id))
    BY <1>16 DEF b
  <2> QED
    BY <1>3, <1>7, <1>10, <2>1, <2>2
<1>17. CASE Answer(broker, <<Packet(SUBACK, p.id, 0, 128)>>)
  <2> DEFINE a == Packet(SUBACK, p.id, 0, 128)
  <2>1. a \in Packets /\ a.type = SUBACK
    BY <1>3 DEF Packet, Packets, PacketFields, SUBACK, CONNACK
  <2>2. Answer(broker, <<a>>)
    BY <1>17
  <2> HIDE DEF a
  <2>3. Plain(<<a>>)
    BY <1>9, <2>1
  <2> QED
    BY <1>7, <2>2, <2>3
<1>18. CASE Answer([broker EXCEPT !.subs = @ \ {p.what}], Ack(UNSUBACK, p.id))
  <2> DEFINE b == [broker EXCEPT !.subs = @ \ {p.what}]
  <2>1. b.conn = broker.conn /\ b.taken = broker.taken
    BY <1>2 DEF Brokers
  <2> HIDE DEF b
  <2>2. Answer(b, Ack(UNSUBACK, p.id))
    BY <1>18 DEF b
  <2> QED
    BY <1>3, <1>7, <1>10, <2>1, <2>2
<1>19. CASE Answer(broker, Ack(PINGRESP, 0))
  BY <1>7, <1>10, <1>19
<1> QED
  BY <1>6, <1>11, <1>12, <1>13, <1>14, <1>15, <1>16, <1>17, <1>18, <1>19
  DEF BrokerConnected

-----------------------------------------------------------------------------
(* Every step keeps it, and what it says of the messages.                  *)

\* Messages have numbers of their own; what SUCCESS was said of is there.
Numbers == kept \subseteq 1..used.calls
Acked == okd \subseteq Outgoing /\ AckedWasReceived

LEMMA NumbersKept ==
  ASSUME TypeInv, Numbers, [MqttNext]_<<mqttVars, use>> PROVE Numbers'
<1>1. used.calls \in Nat /\ used \in [connections : Nat, calls : 0..MaxCalls,
                                      faults : Nat]
      /\ MaxCalls \in Nat
  BY UseTypes DEF TypeInv, UsedFits
<1>2. kept' \subseteq kept \/ \E qos, long : Publish(qos, long)
  BY DEF mqttVars, MqttNext, MqttStep, Cycle, Expire, OpenNetwork, Yield,
         Disconnect, Tick, Broker, MqttConnect, Subscribe, Unsubscribe, Ask,
         Arrives, Fails, Others
<1>3. used'.calls \in {used.calls, used.calls + 1}
  <2>1. \/ UNCHANGED used \/ used' = [used EXCEPT !.calls = @ + 1]
        \/ \E n : used' = [used EXCEPT !.faults = n]
        \/ \E n : used' = [used EXCEPT !.connections = n]
    BY DEF mqttVars, MqttNext, MqttStep, Cycle, Expire, OpenNetwork, Yield,
           Disconnect, Tick, Broker, MqttConnect, Publish, Subscribe,
           Unsubscribe, Ask, Arrives, Fails, Others
  <2> QED
    BY <1>1, <2>1
<1>4. CASE kept' \subseteq kept
  BY <1>1, <1>3, <1>4 DEF Numbers
<1>5. CASE \E qos, long : Publish(qos, long)
  <2>1. kept' \subseteq kept \cup {used.calls + 1}
        /\ used' = [used EXCEPT !.calls = @ + 1]
    BY <1>5 DEF Publish
  <2>2. used'.calls = used.calls + 1
    BY <1>1, <2>1
  <2> QED
    BY <1>1, <2>1, <2>2 DEF Numbers
<1> QED
  BY <1>2, <1>4, <1>5
LEMMA AckedKept ==
  ASSUME TypeInv, PubInv, Acked, [MqttNext]_<<mqttVars, use>> PROVE Acked'
<1>1. UNCHANGED use /\ Outgoing' = Outgoing
  <2>1. UNCHANGED use
    BY DEF MqttNext
  <2> QED
    BY <2>1, SameUse
<1>2. \A m \in Outgoing : got[m] > 0 => got'[m] > 0
  <2>1. CASE Broker
    <3>1. PICK refuse : BrokerStep(refuse)
      BY <2>1 DEF Broker
    <3>2. /\ got \in [Outgoing -> 0..2] /\ got' \in [Outgoing -> 0..2]
          /\ \A m \in Outgoing : got'[m] >= got[m]
      BY <3>1, StateParts, BrokerFinds DEF TypeInv, ClientFits, BrokerFits
    <3>3. \A m \in Outgoing : got[m] \in 0..2 /\ got'[m] \in 0..2
      BY <3>2
    <3> QED
      BY <3>2, <3>3
  <2>2. CASE ~Broker
    <3>1. UNCHANGED got
      BY <2>2
      DEF mqttVars, MqttNext, MqttStep, Cycle, Expire, OpenNetwork, Yield,
          Disconnect, Tick, MqttConnect, Publish, Subscribe, Unsubscribe, Ask,
          Arrives, Fails, BrokerPublishes, Break
    <3> QED
      BY <3>1
  <2> QED
    BY <2>1, <2>2
<1>3. okd' \subseteq okd \cup {m \in Outgoing : got[m] > 0}
  <2>1. CASE Cycle
    <3>1. PICK r \in readPacket :
            okd' = IF call.op = "publish" /\ cycle(r).rc = call.want
                   THEN okd \cup {call.msg} ELSE okd
      BY <2>1 DEF Cycle
    <3>2. PICK s : s = cycle(r)
      OBVIOUS
    <3>3. CASE ~(call.op = "publish" /\ s.rc = call.want)
      BY <3>1, <3>2, <3>3
    <3>4. CASE call.op = "publish" /\ s.rc = call.want
      <4>1. Awaits(call)
        BY <3>4 DEF Awaits
      <4>2. PICK d : d = acked(s, r.p)
        OBVIOUS
      <4>3. got[call.msg] > 0
        BY <3>2, <3>4, <4>1, <4>2, AckedPub
      <4>4. call.msg \in Outgoing
        BY <4>1 DEF PubInv, PubFits, Starts
      <4> QED
        BY <3>1, <3>2, <3>4, <4>3, <4>4
    <3> QED
      BY <3>3, <3>4
  <2>2. CASE ~Cycle
    <3>1. UNCHANGED okd
      BY <2>2
      DEF mqttVars, MqttNext, MqttStep, Expire, OpenNetwork, Yield, Disconnect,
          Tick, Broker, MqttConnect, Publish, Subscribe, Unsubscribe, Ask,
          Arrives, Fails, Others
    <3> QED
      BY <3>1
  <2> QED
    BY <2>1, <2>2
<1> QED
  BY <1>1, <1>2, <1>3 DEF Acked, AckedWasReceived

LEMMA PubInit == ASSUME MqttInit PROVE PubInv /\ Numbers /\ Acked
<1>1. /\ call.op = "idle" /\ net.up = <<>> /\ net.down = <<>> /\ net.fresh
      /\ ~c.isconnected /\ c.cleansession /\ c.inflight = NoInflight
      /\ ~broker.conn /\ broker.taken = {} /\ kept = {} /\ okd = {}
  BY DEF MqttInit, NewNet, Idle, NoSession
<1>2. \A P : Lacks(net.up, P) /\ Lacks(net.down, P)
  BY <1>1 DEF Lacks
<1>3. Took(broker) = {} /\ ~Awaits(call) /\ c.inflight.id = 0
  BY <1>1 DEF Took, Awaits, NoInflight
<1>4. Starts(c, net, call, broker) /\ TokensFit(c, net, call, broker, got)
  BY <1>1, <1>3 DEF Starts, TokensFit
<1>5. KeptFits(c, call, got, kept)
  BY <1>1, <1>3 DEF KeptFits
<1>6. TakenFits(c, net, call, broker, got)
  BY <1>1, <1>2, <1>3 DEF TakenFits, TakenKept, TakenDropped
<1> QED
  BY <1>1, <1>4, <1>5, <1>6
  DEF PubInv, PubFits, Numbers, Acked, AckedWasReceived
LEMMA PubKept ==
  ASSUME OneKindOfSession, TypeInv, PubInv, Numbers,
         [MqttNext]_<<mqttVars, use>>
  PROVE  PubInv'
<1>1. CASE UNCHANGED <<mqttVars, use>>
  <2>1. PubFits(c', net', call', broker', got', kept') /\ UNCHANGED use
    BY <1>1 DEF mqttVars, PubInv
  <2> QED
    BY <2>1, PubNext
<1>2. CASE MqttNext
  <2>1. UNCHANGED use /\ InQoS \subseteq 0..2
    BY <1>2, UseTypes DEF MqttNext, TypeInv
  <2>2. CASE Cycle \/ Expire
    BY <2>1, <2>2, CyclePubs, ExpirePub
  <2>3. CASE OpenNetwork \/ Yield \/ Disconnect \/ Tick
    BY <2>1, <2>3, OpenNetworkPub, YieldPub, DisconnectPub, TickPub
  <2>4. CASE Broker
    BY <2>1, <2>4, BrokerPub
  <2>5. CASE \E clean \in CleanOptions : MqttConnect(clean)
    BY <2>1, <2>5, ConnectPub
  <2>6. CASE \E qos \in OutQoS, long \in BOOLEAN : Publish(qos, long)
    BY <2>1, <2>6, PublishPub DEF Numbers
  <2>7. CASE \E topic \in Topics : Subscribe(topic) \/ Unsubscribe(topic)
    BY <2>1, <2>7, AskPub
  <2>8. CASE \E topic \in Topics, qos \in InQoS : Arrives(topic, qos, FALSE)
    BY <2>1, <2>8, ArrivesPub
  <2>9. CASE \E topic \in Topics : 0 \in InQoS /\ Arrives(topic, 0, TRUE)
    BY <2>1, <2>9, ArrivesPub
  <2>10. CASE \E how \in {"cut", "closed"} : Fails(how)
    BY <2>1, <2>10, FailsPub
  <2> QED
    BY <1>2, <2>2, <2>3, <2>4, <2>5, <2>6, <2>7, <2>8, <2>9, <2>10
    DEF MqttNext, MqttStep
<1> QED
  BY <1>1, <1>2

\* publish() at QoS 1 or 2 returns SUCCESS only when the broker has the
\* message, although waitfor() compares no packet ids: when it waits, the
\* packets that can end the wait are its own.
THEOREM AckedIsReceived ==
  ASSUME OneKindOfSession PROVE MqttSpec => []AckedWasReceived
<1>1. MqttInit => PubInv /\ Numbers /\ Acked
  BY PubInit
<1>2. TypeInv /\ (PubInv /\ Numbers /\ Acked) /\ [MqttNext]_<<mqttVars, use>>
        => (PubInv /\ Numbers /\ Acked)'
  BY PubKept, NumbersKept, AckedKept
<1>3. Acked => AckedWasReceived
  BY DEF Acked
<1> QED
  BY <1>1, <1>2, <1>3, TypesHold, PTL DEF MqttSpec

\* With cleansession off no message handed to publish() is lost: it has
\* reached the broker, or it is in pubbuf and connect() sends it again.
THEOREM KeptIsNotLost ==
  ASSUME OneKindOfSession PROVE MqttSpec => []NothingKeptIsLost
<1>1. MqttInit => PubInv /\ Numbers
  BY PubInit
<1>2. TypeInv /\ (PubInv /\ Numbers) /\ [MqttNext]_<<mqttVars, use>>
        => (PubInv /\ Numbers)'
  BY PubKept, NumbersKept
<1>3. PubInv => NothingKeptIsLost
  BY DEF PubInv, PubFits, KeptFits, NothingKeptIsLost
<1> QED
  BY <1>1, <1>2, <1>3, TypesHold, PTL DEF MqttSpec
=============================================================================
