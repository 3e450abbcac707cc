----------------------------- MODULE MqttClient -----------------------------
(***************************************************************************)
(* MQTT::Client, the blocking client of MQTTClient.h, on a network         *)
(* connection that may break, with the broker at the other end.  A call    *)
(* that waits is a sequence of cycles, each of which takes one packet off  *)
(* the wire, deals with it, and looks at the keep-alive timers; broker and *)
(* network act in between.                                                 *)
(***************************************************************************)
EXTENDS MqttBroker

CONSTANTS MAX_MESSAGE_HANDLERS, MAX_INCOMING_QOS2_MESSAGES

QOS2Build == Uses[use].qos2build      \* MQTTCLIENT_QOS2
KeepAlive == Uses[use].keepAlive      \* keepAliveInterval in ticks; 0: off
MAX_PACKET_ID == Uses[use].ids
Topics == Uses[use].topics            \* topic filters
CleanOptions == Uses[use].clean       \* values of the option cleansession
OutQoS == Uses[use].outQoS            \* QoS of what the application publishes
InQoS == Uses[use].inQoS              \* and of what the broker does
HasDefault == Uses[use].hasDefault    \* a default message handler is set
YieldsAnyway == Uses[use].yieldsAnyway\* yields also without a session
MaxConnections == Uses[use].connections
MaxCalls == Uses[use].calls
MaxFaults == Uses[use].faults

ASSUME MqttAssumption ==
  /\ MAX_MESSAGE_HANDLERS \in Nat /\ MAX_INCOMING_QOS2_MESSAGES \in Nat
  /\ \A u \in DOMAIN Uses :
       /\ Uses[u].qos2build \in BOOLEAN /\ Uses[u].keepAlive \in Nat
       /\ Uses[u].ids \in Nat \ {0} /\ Uses[u].clean \subseteq BOOLEAN
       /\ Uses[u].hasDefault \in BOOLEAN
       /\ Uses[u].outQoS \cup Uses[u].inQoS \subseteq 0..2
       /\ {Uses[u].connections, Uses[u].calls, Uses[u].published,
           Uses[u].faults} \subseteq Nat

VARIABLES
  c,        \* the client's session
  t,        \* ticks left on last_sent, last_received and ping_sent
  seen,     \* how often each of the broker's messages was handed on
  call,     \* the call in progress and the packet it waits for
  ret,      \* what the latest call returned
  kept,     \* messages published at QoS 1 or 2 in a session to be kept
  okd,      \* messages whose publish() at QoS 1 or 2 returned SUCCESS
  closed,   \* why cycle() closed the session, and how long the ping had
  used      \* connections, calls and faults so far

mqttVars ==
  <<c, t, net, seen, call, ret, broker, got, kept, okd, closed, used>>

NoInflight == [id |-> 0, qos |-> 0, msg |-> 0]

Outgoing == 1..MaxCalls

\* What the client's functions read and write, as one value.
S == [c |-> c, t |-> t, net |-> net, seen |-> seen, closed |-> closed,
      rc |-> SUCCESS]
Apply(s) ==
  /\ c' = s.c /\ t' = s.t /\ net' = s.net /\ seen' = s.seen
  /\ closed' = s.closed

-----------------------------------------------------------------------------
(* The client's functions                                                  *)
getNext(n) == IF n = MAX_PACKET_ID THEN 1 ELSE n + 1

cleanSession(s) ==
  [s EXCEPT !.c.handlers = {}, !.c.inflight = NoInflight, !.c.qos2ids = {}]

closeSession(s) ==
  LET d == [s EXCEPT !.c.ping_outstanding = FALSE, !.c.isconnected = FALSE]
  IN IF s.c.cleansession THEN cleanSession(d) ELSE d

sendPacket(s, p) ==
  CASE s.net.link = "closed" -> [s EXCEPT !.rc = FAILURE]
    [] s.net.link = "cut" -> [s EXCEPT !.t.sent = KeepAlive, !.rc = SUCCESS]
    [] OTHER -> [s EXCEPT !.t.sent = KeepAlive, !.rc = SUCCESS,
                          !.net.up = Append(@, p)]

\* deliverMessage(): the handlers of the topic, else the default handler.
deliverMessage(s, p) ==
  IF p.what \in s.c.handlers \/ HasDefault
  THEN [s EXCEPT !.seen[p.msg] = IF @ = 2 THEN 2 ELSE @ + 1]
  ELSE s

useQoS2msgidUnchecked(s, p) == deliverMessage(s, p)
useQoS2msgid(s, p) ==
  IF p.id \in s.c.qos2ids
    \/ Cardinality(s.c.qos2ids) >= MAX_INCOMING_QOS2_MESSAGES
  THEN s
  ELSE deliverMessage([s EXCEPT !.c.qos2ids = @ \cup {p.id}], p)

cyclePublishOnlyAck(s, p) ==
  CASE p.qos = 0 -> deliverMessage(s, p)
    [] p.qos = 1 -> sendPacket(s, Packet(PUBACK, p.id, 0, 0))
    [] OTHER -> sendPacket(s, Packet(PUBREC, p.id, 0, 0))
cyclePublish(s, p) ==
  LET d == IF QOS2Build /\ p.qos = 2
           THEN useQoS2msgid(s, p) ELSE deliverMessage(s, p)
  IN CASE p.qos = 0 -> d
       [] p.qos = 1 -> sendPacket(d, Packet(PUBACK, p.id, 0, 0))
       [] OTHER -> sendPacket(d, Packet(PUBREC, p.id, 0, 0))

cyclePubrel(s, p) ==
  LET answer == IF p.type = PUBREC THEN PUBREL ELSE PUBCOMP
      d == sendPacket(s, Packet(answer, p.id, 0, 0))
  IN IF p.type = PUBREL /\ d.rc = SUCCESS
     THEN [d EXCEPT !.c.qos2ids = @ \ {p.id}] ELSE d

pingSent(s) ==
  LET d == sendPacket(s, Packet(PINGREQ, 0, 0, 0))
  IN IF d.rc = SUCCESS
     THEN [d EXCEPT !.c.ping_outstanding = TRUE, !.t.ping = KeepAlive,
                    !.closed = [why |-> "no", waited |-> 0]]
     ELSE d

keepaliveNoWait(s) ==
  IF s.c.ping_outstanding
  THEN IF s.t.sent = 0 \/ s.t.received = 0
       THEN [s EXCEPT !.rc = FAILURE, !.closed.why = "ping"] ELSE s
  ELSE IF KeepAlive > 0 /\ (s.t.sent = 0 \/ s.t.received = 0)
       THEN pingSent(s) ELSE s
keepaliveNoLimit(s) ==
  IF KeepAlive > 0 /\ ~s.c.ping_outstanding
    /\ (s.t.sent = 0 \/ s.t.received = 0)
  THEN pingSent(s) ELSE s
keepalive(s) ==
  CASE KeepAlive = 0 -> s
    [] KeepAlive > 0 /\ s.c.ping_outstanding ->
         IF s.t.ping = 0 THEN [s EXCEPT !.rc = FAILURE, !.closed.why = "ping"]
                         ELSE s
    [] OTHER ->
         IF s.t.sent = 0 \/ s.t.received = 0 THEN pingSent(s) ELSE s

-----------------------------------------------------------------------------
(* readPacket(): a packet and how the stream goes on.  A body that is not  *)
(* there in time makes the result 1, the number of header bytes read; what *)
(* follows such a packet, or one too long for the buffer, is not packets.  *)
readPacket ==
  IF net.junk THEN {[type |-> 15, p |-> NoPacket, net |-> net]}
  ELSE IF net.down = <<>> THEN
    {[type |-> 0, p |-> NoPacket, net |-> net]}
    \cup (IF net.link = "closed"
          THEN {[type |-> FAILURE, p |-> NoPacket, net |-> net]} ELSE {})
  ELSE LET p == Head(net.down)
           whole == [net EXCEPT !.down = Tail(@)]
           broken == [net EXCEPT !.down = <<>>, !.junk = TRUE]
       IN (IF p.qos = TooLong
           THEN {[type |-> BUFFER_OVERFLOW, p |-> p, net |-> broken]}
           ELSE {[type |-> p.type, p |-> p, net |-> whole]})
          \cup (IF used.faults < MaxFaults
                THEN {[type |-> 1, p |-> p, net |-> broken]} ELSE {})

Handled == {0, CONNACK, PUBACK, SUBACK, UNSUBACK, PUBLISH, PINGRESP}
           \cup (IF QOS2Build THEN {PUBREC, PUBREL, PUBCOMP} ELSE {})

\* cycle(), with r what readPacket() returned.
cycle(r) ==
  LET s0 == [S EXCEPT !.net = r.net,
                      !.t.received = IF r.type > 1 /\ r.p.type # 0
                                     THEN KeepAlive ELSE @]
      s1 == CASE r.type = PUBLISH -> cyclePublish(s0, r.p)
              [] r.type \in {PUBREC, PUBREL} -> cyclePubrel(s0, r.p)
              [] r.type = PINGRESP -> [s0 EXCEPT !.c.ping_outstanding = FALSE]
              [] OTHER -> s0
      s2 == IF r.type \notin Handled THEN [s0 EXCEPT !.rc = r.type]
            ELSE IF s1.rc = FAILURE THEN s1
            ELSE keepalive(s1)
  IN IF s2.rc = SUCCESS THEN [s2 EXCEPT !.rc = r.type]
     ELSE IF s2.c.isconnected THEN closeSession(s2) ELSE s2

-----------------------------------------------------------------------------
(* The calls                                                               *)
Idle == [op |-> "idle", want |-> 0, topic |-> 0, qos |-> 0, msg |-> 0,
         cycled |-> FALSE]
Waiting(op, want) == [Idle EXCEPT !.op = op, !.want = want]

Return(op, rc, s) ==
  /\ Apply(s) /\ call' = Idle /\ ret' = [op |-> op, rc |-> rc]
Wait(k, s) == Apply(s) /\ call' = k /\ UNCHANGED ret

\* publish(len, timer, qos): what is waited for, 0 for nothing.
AckOf(qos) == CASE qos = 1 -> PUBACK
                [] qos = 2 /\ QOS2Build -> PUBCOMP
                [] OTHER -> 0

connected(s) ==
  [s EXCEPT !.c.isconnected = TRUE, !.c.ping_outstanding = FALSE]
EndConnect(rc, s) ==
  Return("connect", rc, IF rc = SUCCESS THEN connected(s) ELSE s)

\* connect() after the wait for CONNACK: the publish in flight goes out
\* again, and its result is the result.
noResend(s, rc, expired) == EndConnect(rc, s)
resend(s, rc, expired) ==
  LET i == s.c.inflight
      d == sendPacket(s, PublishPacket(i.id, i.qos, 0, i.msg))
  IN IF i.id = 0 THEN EndConnect(rc, s)
     ELSE IF d.rc = FAILURE \/ (expired /\ AckOf(i.qos) # 0)
     THEN EndConnect(FAILURE, closeSession(d))
     ELSE IF AckOf(i.qos) = 0 THEN EndConnect(SUCCESS, d)
     ELSE Wait([Waiting("resend", AckOf(i.qos)) EXCEPT !.msg = i.msg], d)

\* setMessageHandler() with a handler, and with 0.
setHandlerUnbounded(s, topic) ==
  [s EXCEPT !.c.handlers =
     IF Cardinality(@) < MAX_MESSAGE_HANDLERS THEN @ \cup {topic} ELSE @,
            !.rc = SUCCESS]
setHandler(s, topic) ==
  IF topic \in s.c.handlers THEN [s EXCEPT !.rc = SUCCESS]
  ELSE IF Cardinality(s.c.handlers) < MAX_MESSAGE_HANDLERS
  THEN [s EXCEPT !.c.handlers = @ \cup {topic}, !.rc = SUCCESS]
  ELSE [s EXCEPT !.rc = FAILURE]
removeHandler(s, topic) == [s EXCEPT !.c.handlers = @ \ {topic}]

\* The packet waited for has come.
acked(s, p) == IF s.c.inflight.id = p.id
               THEN [s EXCEPT !.c.inflight.id = 0] ELSE s
GotSuback(s, p) ==
  LET d == IF p.what = 128 THEN [s EXCEPT !.rc = SUCCESS]
                           ELSE setHandler(s, call.topic)
  IN Return("subscribe", d.rc,
            IF d.rc = FAILURE THEN closeSession(d) ELSE d)
Got(s, p) ==
  CASE call.op = "connect" -> resend(s, p.what, FALSE)
    [] call.op = "resend" -> EndConnect(SUCCESS, acked(s, p))
    [] call.op = "publish" -> Return("publish", SUCCESS, acked(s, p))
    [] call.op = "subscribe" -> GotSuback(s, p)
    [] OTHER -> Return("unsubscribe", SUCCESS,
                       removeHandler(s, call.topic))

\* It has not, because of an error or because the time is up.
missedKeepsSession(s, expired) ==
  CASE call.op = "connect" -> resend(s, FAILURE, expired)
    [] call.op = "resend" -> EndConnect(FAILURE, closeSession(s))
    [] OTHER -> Return(call.op, FAILURE,
                       IF s.c.cleansession /\ call.op = "publish"
                       THEN s ELSE closeSession(s))
Missed(s, expired) ==
  CASE call.op = "connect" -> resend(s, FAILURE, expired)
    [] call.op = "resend" -> EndConnect(FAILURE, closeSession(s))
    [] OTHER -> Return(call.op, FAILURE, closeSession(s))

\* One turn of the loop of waitfor() or yield().
Cycle ==
  /\ call.op # "idle"
  /\ \E r \in readPacket :
       LET s == cycle(r) IN
       /\ used' = [used EXCEPT !.faults =
                     IF r.type = 1 THEN @ + 1 ELSE @]
       /\ IF call.op = "yield"
          THEN IF s.rc < 0 THEN Return("yield", FAILURE, s)
               ELSE IF r.type = 0 THEN Return("yield", SUCCESS, s)
               ELSE Wait([call EXCEPT !.cycled = TRUE], s)
          ELSE IF s.rc = call.want THEN Got(s, r.p)
               ELSE IF s.rc < 0 THEN Missed(s, FALSE)
               ELSE IF r.type = 0 THEN Missed(s, TRUE)
               ELSE Wait([call EXCEPT !.cycled = TRUE], s)
       /\ okd' = IF call.op = "publish" /\ s.rc = call.want
                 THEN okd \cup {call.msg} ELSE okd
  /\ UNCHANGED <<broker, got, kept>>

\* The loop ends because the timer has expired.
Expire ==
  /\ call.op # "idle" /\ (call.op = "yield" => call.cycled)
  /\ IF call.op = "yield" THEN Return("yield", SUCCESS, S)
                          ELSE Missed(S, TRUE)
  /\ UNCHANGED <<broker, got, kept, okd, used>>

-----------------------------------------------------------------------------
(* The application                                                         *)
\* A new network connection, as connect() asks for.
OpenNetwork ==
  /\ call.op = "idle" /\ ~c.isconnected /\ ~net.fresh
  /\ used.connections < MaxConnections
  /\ net' = NewNet /\ broker' = [broker EXCEPT !.conn = FALSE]
  /\ used' = [used EXCEPT !.connections = @ + 1]
  /\ UNCHANGED <<c, t, seen, call, ret, got, kept, okd, closed>>

MqttConnect(clean) ==
  /\ call.op = "idle" /\ (c.isconnected \/ net.fresh)
  /\ IF c.isconnected THEN Return("connect", FAILURE, S)
     ELSE LET s == [S EXCEPT !.c.cleansession = clean, !.net.fresh = FALSE,
                             !.closed.why = "no"]
              d == sendPacket(s, Packet(CONNECT, 0, 0, IF clean THEN 1 ELSE 0))
          IN IF d.rc = FAILURE THEN EndConnect(FAILURE, d)
             ELSE Wait(Waiting("connect", CONNACK),
                       [d EXCEPT !.t.received = KeepAlive])
  /\ kept' = IF clean /\ ~c.isconnected THEN {} ELSE kept
  /\ UNCHANGED <<broker, got, okd, used>>

Publish(qos, long) ==
  LET msg == used.calls + 1
      id == IF qos = 0 THEN 0 ELSE getNext(c.next)
      s == [S EXCEPT !.c.next = IF qos = 0 THEN @ ELSE id,
              !.c.inflight = IF c.cleansession \/ long THEN @
                             ELSE [id |-> id, qos |-> qos, msg |-> msg]]
      d == sendPacket(s, PublishPacket(id, qos, 0, msg))
  IN /\ call.op = "idle" /\ used.calls < MaxCalls
     /\ used' = [used EXCEPT !.calls = @ + 1]
     /\ kept' = IF c.isconnected /\ ~c.cleansession /\ ~long /\ AckOf(qos) # 0
                THEN kept \cup {msg} ELSE kept
     /\ IF ~c.isconnected THEN Return("publish", FAILURE, S)
        ELSE IF long THEN Return("publish", FAILURE, s)
        ELSE IF d.rc = FAILURE
             THEN Return("publish", FAILURE, closeSession(d))
        ELSE IF AckOf(qos) = 0 THEN Return("publish", SUCCESS, d)
        ELSE Wait([Waiting("publish", AckOf(qos)) EXCEPT !.msg = msg,
                                                       !.qos = qos], d)
     /\ UNCHANGED <<broker, got, okd>>

\* subscribe() and unsubscribe().
Ask(op, type, want, topic) ==
  LET s == [S EXCEPT !.c.next = getNext(c.next)]
      d == sendPacket(s, Packet(type, getNext(c.next), 0, topic))
  IN /\ call.op = "idle" /\ used.calls < MaxCalls
     /\ used' = [used EXCEPT !.calls = @ + 1]
     /\ IF ~c.isconnected THEN Return(op, FAILURE, closeSession(S))
        ELSE IF d.rc = FAILURE THEN Return(op, FAILURE, closeSession(d))
        ELSE Wait([Waiting(op, want) EXCEPT !.topic = topic], d)
     /\ UNCHANGED <<broker, got, kept, okd>>
Subscribe(topic) == Ask("subscribe", SUBSCRIBE, SUBACK, topic)
Unsubscribe(topic) == Ask("unsubscribe", UNSUBSCRIBE, UNSUBACK, topic)

Yield ==
  /\ call.op = "idle" /\ ~net.fresh /\ (c.isconnected \/ YieldsAnyway)
  /\ Wait(Waiting("yield", 0), S)
  /\ UNCHANGED <<broker, got, kept, okd, used>>

\* Bound: one DISCONNECT under way.
Disconnect ==
  /\ call.op = "idle" /\ ~net.fresh
  /\ \A i \in DOMAIN net.up : net.up[i].type # DISCONNECT
  /\ LET d == sendPacket(S, Packet(DISCONNECT, 0, 0, 0))
     IN Return("disconnect", d.rc, closeSession(d))
  /\ UNCHANGED <<broker, got, kept, okd, used>>

-----------------------------------------------------------------------------
Others == UNCHANGED <<c, t, seen, call, ret, kept, okd, closed>>
Broker == BrokerStep(used.connections = 1) /\ Others /\ UNCHANGED used
Arrives(topic, qos, long) ==
  BrokerPublishes(topic, qos, long) /\ Others /\ UNCHANGED used
Fails(how) ==
  /\ used.faults < MaxFaults /\ Break(how) /\ Others
  /\ used' = [used EXCEPT !.faults = @ + 1]

Tick ==
  /\ KeepAlive > 0 /\ \E k \in DOMAIN t : t[k] > 0
  /\ t' = [k \in DOMAIN t |-> IF t[k] = 0 THEN 0 ELSE t[k] - 1]
  /\ closed' = [closed EXCEPT !.waited =
                  IF c.ping_outstanding /\ @ < KeepAlive THEN @ + 1 ELSE @]
  /\ UNCHANGED <<c, net, seen, call, ret, broker, got, kept, okd, used>>

-----------------------------------------------------------------------------
MqttInit ==
  /\ use \in DOMAIN Uses
  /\ c = [isconnected |-> FALSE, ping_outstanding |-> FALSE,
          cleansession |-> TRUE, handlers |-> {}, next |-> 0,
          inflight |-> NoInflight, qos2ids |-> {}]
  /\ t = [sent |-> 0, received |-> 0, ping |-> 0]
  /\ net = NewNet
  /\ seen = [m \in Incoming |-> 0] /\ got = [m \in Outgoing |-> 0]
  /\ call = Idle /\ ret = [op |-> "none", rc |-> SUCCESS]
  /\ broker = NoSession /\ kept = {} /\ okd = {}
  /\ closed = [why |-> "no", waited |-> 0]
  /\ used = [connections |-> 1, calls |-> 0, faults |-> 0]

MqttStep ==
  \/ Cycle \/ Expire \/ OpenNetwork \/ Yield \/ Disconnect \/ Tick \/ Broker
  \/ \E clean \in CleanOptions : MqttConnect(clean)
  \/ \E qos \in OutQoS, long \in BOOLEAN : Publish(qos, long)
  \/ \E topic \in Topics : Subscribe(topic) \/ Unsubscribe(topic)
  \/ \E topic \in Topics, qos \in InQoS : Arrives(topic, qos, FALSE)
  \/ \E topic \in Topics : 0 \in InQoS /\ Arrives(topic, 0, TRUE)
  \/ \E how \in {"cut", "closed"} : Fails(how)

MqttNext == MqttStep /\ UNCHANGED use

MqttSpec == MqttInit /\ [][MqttNext]_<<mqttVars, use>>

(* Timers run and expire, a loop that can go on does, and the application  *)
(* calls yield() again and again, as MQTTHandler::keepAlive() does.        *)
MqttFairSpec ==
  /\ MqttSpec
  /\ WF_mqttVars(Cycle) /\ WF_mqttVars(Expire) /\ WF_mqttVars(Tick)
  /\ WF_mqttVars(Yield)

-----------------------------------------------------------------------------
\* Type correctness of the client's session, timers and calls.
MqttTypeOK ==
  /\ c.isconnected \in BOOLEAN /\ c.ping_outstanding \in BOOLEAN
  /\ c.cleansession \in BOOLEAN /\ c.handlers \subseteq Topics
  /\ Cardinality(c.handlers) <= MAX_MESSAGE_HANDLERS
  /\ Cardinality(c.qos2ids) <= MAX_INCOMING_QOS2_MESSAGES
  /\ c.next \in 0..MAX_PACKET_ID /\ c.inflight.id \in 0..MAX_PACKET_ID
  /\ t \in [{"sent", "received", "ping"} -> 0..KeepAlive]
  /\ ret.rc \in {SUCCESS, FAILURE, 5}
  /\ seen \in [Incoming -> 0..2] /\ got \in [Outgoing -> 0..2]

(* publish() at QoS 1 or 2 ends with SUCCESS at the first PUBACK or PUBCOMP *)
(* it sees and never compares the packet id; still the broker has the      *)
(* message, because a failed call always closes the session.               *)
AckedWasReceived == \A m \in okd : got[m] > 0

(* With cleansession off the last publish is kept in pubbuf until its ack: *)
(* a message that was handed to publish() and has not reached the broker   *)
(* is the one connect() will send again, whatever failed in between.       *)
NothingKeptIsLost ==
  \A m \in kept : \/ got[m] > 0
                  \/ c.inflight.id > 0 /\ c.inflight.msg = m

(* The table of incoming QoS 2 ids survives a lost connection, so a publish *)
(* that the broker repeats is handed to the application once.              *)
QoS2AtMostOnce == \A m \in Incoming : seen[m] <= 1

(* In clean sessions a message whose PUBACK has reached the broker, which  *)
(* then forgets it, was handed to a handler before.                        *)
AckedWasDelivered == c.cleansession => \A m \in broker.acked : seen[m] > 0

(* In a clean session every subscription the broker holds for a client     *)
(* that is connected and between calls has its handler.                    *)
SubscribedHasHandler ==
  call.op = "idle" /\ c.isconnected /\ c.cleansession
    => broker.subs \subseteq c.handlers

(* The client's tables agree with the broker's, and packet ids stay in     *)
(* 1..MAX_PACKET_ID when they wrap.                                        *)
TablesAgree == MqttTypeOK /\ SubscribedHasHandler

(* The keep-alive ends a session only when the PINGRESP is missing for a   *)
(* whole keepAliveInterval after the PINGREQ.                              *)
PingHasItsInterval ==
  closed.why = "ping" => closed.waited >= KeepAlive

(* Every call of the client returns.                                       *)
MqttCallsReturn == call.op # "idle" ~> call.op = "idle"

(* When the connection is silently cut, a client that yields finds out.    *)
DeadPeerNoticed == c.isconnected /\ net.link = "cut" ~> ~c.isconnected

(* Nothing waits for ever: calls return, and a dead peer is noticed.       *)
MqttProgress == MqttCallsReturn /\ DeadPeerNoticed
=============================================================================
