------------------------------ MODULE MqttTask ------------------------------
(***************************************************************************)
(* The C client, MQTTClient-C, built with MQTT_TASK: MQTTRun() cycles in a *)
(* thread of its own while another thread makes the calls, and a mutex     *)
(* keeps one out of the client while the other is in it.                   *)
(***************************************************************************)
EXTENDS MqttBroker

CONSTANTS MAX_PACKET_ID, MAX_MESSAGE_HANDLERS

\* What keepAliveInterval holds before MQTTConnect(): MQTTClientInit() does
\* not set it.
StaleInterval == Uses[use].stale
KeepAlive == Uses[use].keepAlive  \* the option keepAliveInterval, in ticks
Topics == Uses[use].topics
OutQoS == Uses[use].outQoS
InQoS == Uses[use].inQoS
MaxConnections == Uses[use].connections
MaxCalls == Uses[use].calls
MaxFaults == Uses[use].faults
MaxUnderWay == Uses[use].underWay \* bound: packets left unread as time passes

ASSUME TaskAssumption ==
  /\ MAX_PACKET_ID \in Nat \ {0} /\ MAX_MESSAGE_HANDLERS \in Nat
  /\ \A u \in DOMAIN Uses :
       /\ Uses[u].stale \in Nat /\ Uses[u].keepAlive \in Nat
       /\ Uses[u].outQoS \cup Uses[u].inQoS \subseteq 0..2

VARIABLES
  c,        \* MQTTClient
  t,        \* ticks left on last_sent and last_received
  seen,     \* how often each of the broker's messages was handed on
  mutex,    \* who holds it
  task,     \* whether MQTTRun() is inside cycle()
  call,     \* the call of the other thread
  ret,      \* what the latest call returned
  stolen,   \* MQTTRun() took the packet a call was waiting for
  used      \* connections, calls and faults so far

taskVars == <<net, broker, got, c, t, seen, mutex, task, call, ret, stolen,
              used>>

Outgoing == 1..MaxCalls
S == [c |-> c, t |-> t, net |-> net, seen |-> seen, rc |-> SUCCESS]
Apply(s) ==
  c' = s.c /\ t' = s.t /\ net' = s.net /\ seen' = s.seen

-----------------------------------------------------------------------------
getNextPacketId(n) == IF n = MAX_PACKET_ID THEN 1 ELSE n + 1

sendPacket(s, p) ==
  IF s.net.link = "closed" THEN [s EXCEPT !.rc = FAILURE]
  ELSE [s EXCEPT !.t.sent = s.c.interval, !.rc = SUCCESS,
          !.net.up = IF s.net.link = "up" THEN Append(@, p) ELSE @,
          !.net.fresh = FALSE]

deliverMessage(s, p) ==
  IF p.what \in s.c.handlers
  THEN [s EXCEPT !.seen[p.msg] = IF @ = 2 THEN 2 ELSE @ + 1] ELSE s

MQTTCloseSession(s) ==
  [s EXCEPT !.c.ping_outstanding = FALSE, !.c.isconnected = FALSE,
            !.c.handlers = IF s.c.cleansession THEN {} ELSE @]

keepalive(s) ==
  LET d == sendPacket(s, Packet(PINGREQ, 0, 0, 0))
  IN CASE s.c.interval = 0 \/ (s.t.sent > 0 /\ s.t.received > 0) -> s
       [] s.c.interval > 0 /\ (s.t.sent = 0 \/ s.t.received = 0) ->
            IF s.c.ping_outstanding
            THEN [s EXCEPT !.rc = FAILURE]
            ELSE [d EXCEPT !.c.ping_outstanding = (d.rc = SUCCESS)]

\* readPacket(): a body that is not there in time counts as nothing read.
readPacket ==
  LET broken == [net EXCEPT !.down = <<>>, !.junk = TRUE]
  IN IF net.junk THEN {[type |-> k, p |-> NoPacket, net |-> net] :
                         k \in {0, 15}}
     ELSE IF net.down = <<>> THEN
       {[type |-> k, p |-> NoPacket, net |-> net] :
          k \in IF net.link = "closed" THEN {0, FAILURE} ELSE {0}}
     ELSE LET p == Head(net.down) IN
       {IF p.qos = TooLong
        THEN [type |-> BUFFER_OVERFLOW, p |-> p, net |-> broken]
        ELSE [type |-> p.type, p |-> p, net |-> [net EXCEPT !.down = Tail(@)]]}
       \cup (IF used.faults < MaxFaults
             THEN {[type |-> 0, p |-> p, net |-> broken]} ELSE {})

cycleAck(s, p) ==
  CASE p.type = PUBLISH /\ p.qos = 1 -> Packet(PUBACK, p.id, 0, 0)
    [] p.type = PUBLISH -> Packet(PUBREC, p.id, 0, 0)
    [] p.type = PUBREC -> Packet(PUBREL, p.id, 0, 0)
    [] OTHER -> Packet(PUBCOMP, p.id, 0, 0)

cycle(r) ==
  LET s0 == [S EXCEPT !.net = r.net,
               !.t.received = IF r.type > 0 /\ r.p.type # 0 /\ c.interval > 0
                              THEN c.interval ELSE @]
      s1 == IF r.type = PUBLISH THEN deliverMessage(s0, r.p) ELSE s0
      s2 == IF r.type \in {PUBREC, PUBREL} \/ (r.type = PUBLISH /\ r.p.qos > 0)
            THEN sendPacket(s1, cycleAck(s1, r.p)) ELSE s1
      s3 == IF r.type = PINGRESP
            THEN [s2 EXCEPT !.c.ping_outstanding = FALSE] ELSE s2
      s4 == CASE r.type < 0 \/ r.type = 15 -> [s0 EXCEPT !.rc = r.type]
              [] s3.rc = FAILURE -> s3
              [] OTHER -> keepalive(s3)
  IN IF s4.rc = SUCCESS THEN [s4 EXCEPT !.rc = r.type]
     ELSE IF s4.c.isconnected THEN MQTTCloseSession(s4) ELSE s4

-----------------------------------------------------------------------------
(* The thread that makes the calls                                         *)
Idle == [op |-> "idle", pc |-> "out", want |-> 0, what |-> 0]

\* A call returns, and unlocks the mutex.
Return(rc, s) ==
  /\ Apply(s) /\ ret' = [op |-> call.op, rc |-> rc]
  /\ call' = Idle /\ mutex' = "free"
Fail(s) == Return(FAILURE, MQTTCloseSession(s))
WaitFor(want, s) ==
  /\ Apply(s) /\ call' = [call EXCEPT !.pc = "wait", !.want = want]
  /\ mutex' = "app" /\ UNCHANGED ret

\* The beginning of each call, once it has the mutex.
MQTTConnect ==
  LET s == [S EXCEPT !.c.interval = KeepAlive, !.c.cleansession = (call.what = 1),
                     !.t.received = KeepAlive]
      d == sendPacket(s, Packet(CONNECT, 0, 0, call.what))
  IN CASE c.isconnected -> Return(FAILURE, S)
       [] ~c.isconnected /\ d.rc = FAILURE -> Return(FAILURE, d)
       [] OTHER -> WaitFor(CONNACK, d)
MQTTPublish ==
  LET qos == call.what
      id == getNextPacketId(c.next)
      s == [S EXCEPT !.c.next = IF qos = 0 THEN @ ELSE id]
      d == sendPacket(s, PublishPacket(IF qos = 0 THEN 0 ELSE id, qos, 0,
                                       used.calls))
  IN CASE ~c.isconnected -> Fail(S)
       [] c.isconnected /\ d.rc = FAILURE -> Fail(d)
       [] c.isconnected /\ d.rc = SUCCESS /\ qos = 0 -> Return(SUCCESS, d)
       [] OTHER -> WaitFor(IF qos = 1 THEN PUBACK ELSE PUBCOMP, d)
MQTTSubscribe(type, want) ==
  LET id == getNextPacketId(c.next)
      d == sendPacket([S EXCEPT !.c.next = id],
                      Packet(type, id, 0, call.what))
  IN CASE ~c.isconnected -> Fail(S)
       [] c.isconnected /\ d.rc = FAILURE -> Fail(d)
       [] OTHER -> WaitFor(want, d)
MQTTDisconnect ==
  LET d == sendPacket(S, Packet(DISCONNECT, 0, 0, 0))
  IN Return(d.rc, MQTTCloseSession(d))

\* Its end: the packet has come, or it has not.
MQTTSetMessageHandler(s) ==
  CASE call.what \in s.c.handlers -> SUCCESS
    [] Cardinality(s.c.handlers) < MAX_MESSAGE_HANDLERS -> SUCCESS
    [] OTHER -> FAILURE
Got(s, p) ==
  CASE call.op = "connect" /\ p.what = SUCCESS ->
         Return(SUCCESS, [s EXCEPT !.c.isconnected = TRUE,
                                   !.c.ping_outstanding = FALSE])
    [] call.op = "connect" /\ p.what # SUCCESS -> Return(p.what, s)
    [] call.op = "subscribe" /\ p.what # 128 ->
         IF MQTTSetMessageHandler(s) = FAILURE THEN Fail(s)
         ELSE Return(SUCCESS, [s EXCEPT !.c.handlers = @ \cup {call.what}])
    [] call.op = "unsubscribe" ->
         Return(SUCCESS, [s EXCEPT !.c.handlers = @ \ {call.what}])
    [] OTHER -> Return(SUCCESS, s)
MissedForever(s) ==
  Apply(s) /\ UNCHANGED <<call, ret, mutex>>
Missed(s) == IF call.op = "connect" THEN Return(FAILURE, s) ELSE Fail(s)

App == <<broker, got, task, stolen>>

\* Bound: MaxCalls calls besides those of MQTTConnect().
Start(op, what) ==
  /\ call.op = "idle"
  /\ op = "connect" => (c.isconnected \/ net.fresh)
  /\ op # "connect" => used.calls < MaxCalls
  /\ call' = [Idle EXCEPT !.op = op, !.pc = "lock", !.what = what]
  /\ used' = [used EXCEPT !.calls = IF op = "connect" THEN @ ELSE @ + 1]
  /\ UNCHANGED <<net, broker, got, c, t, seen, mutex, task, ret, stolen>>

Enter ==
  /\ call.pc = "lock" /\ mutex = "free"
  /\ CASE call.op = "connect" -> MQTTConnect
       [] call.op = "publish" -> MQTTPublish
       [] call.op = "subscribe" -> MQTTSubscribe(SUBSCRIBE, SUBACK)
       [] call.op = "unsubscribe" -> MQTTSubscribe(UNSUBSCRIBE, UNSUBACK)
       [] OTHER -> MQTTDisconnect
  /\ UNCHANGED App /\ UNCHANGED used

\* waitfor()
Short(r) == used' = [used EXCEPT !.faults =
                       IF r.type = 0 /\ r.p.type # 0 THEN @ + 1 ELSE @]
CallCycle ==
  /\ call.pc = "wait"
  /\ \E r \in readPacket :
       LET s == cycle(r) IN
       /\ Short(r)
       /\ CASE s.rc = call.want -> Got(s, r.p)
            [] s.rc # call.want /\ (s.rc < 0 \/ r.type = 0) -> Missed(s)
            [] OTHER -> Apply(s) /\ UNCHANGED <<call, ret, mutex>>
  /\ UNCHANGED App
CallExpires == call.pc = "wait" /\ Missed(S) /\ UNCHANGED App
               /\ UNCHANGED used

-----------------------------------------------------------------------------
(* MQTTRun()                                                               *)
RunEntersUnlocked ==
  /\ task = "out" /\ task' = "in"
  /\ UNCHANGED <<net, broker, got, c, t, seen, mutex, call, ret, stolen,
                 used>>
RunEnters ==
  /\ task = "out" /\ mutex = "free" /\ task' = "in" /\ mutex' = "task"
  /\ UNCHANGED <<net, broker, got, c, t, seen, call, ret, stolen, used>>
RunCycles ==
  /\ task = "in" /\ task' = "out"
  /\ mutex' = IF mutex = "task" THEN "free" ELSE mutex
  /\ \E r \in readPacket :
       /\ Apply(cycle(r)) /\ Short(r)
       /\ stolen' = (stolen \/ (call.pc = "wait" /\ r.type = call.want))
  /\ UNCHANGED <<broker, got, call, ret>>

-----------------------------------------------------------------------------
Client == <<c, t, seen, mutex, task, call, ret, stolen>>
OpenNetwork ==
  /\ call.op = "idle" /\ ~c.isconnected /\ ~net.fresh
  /\ used.connections < MaxConnections
  /\ net' = NewNet /\ broker' = [broker EXCEPT !.conn = FALSE]
  /\ used' = [used EXCEPT !.connections = @ + 1]
  /\ UNCHANGED <<got, Client>>
Broker == BrokerStep(TRUE) /\ UNCHANGED <<Client, used>>
Arrives(topic, qos, long) ==
  BrokerPublishes(topic, qos, long) /\ UNCHANGED <<Client, used>>
Fails(how) ==
  /\ used.faults < MaxFaults /\ Break(how) /\ UNCHANGED Client
  /\ used' = [used EXCEPT !.faults = @ + 1]
Tick ==
  /\ t.sent > 0 \/ t.received > 0
  /\ Len(net.up) + Len(net.down) < MaxUnderWay
  /\ t' = [k \in DOMAIN t |-> IF t[k] = 0 THEN 0 ELSE t[k] - 1]
  /\ UNCHANGED <<net, broker, got, c, seen, mutex, task, call, ret, stolen,
                 used>>

\* MQTTClientInit()
TaskInit ==
  /\ use \in DOMAIN Uses
  /\ c = [isconnected |-> FALSE, ping_outstanding |-> FALSE,
          cleansession |-> FALSE, handlers |-> {}, next |-> 1,
          interval |-> StaleInterval]
  /\ t = [sent |-> 0, received |-> 0] /\ net = NewNet
  /\ seen = [m \in Incoming |-> 0] /\ got = [m \in Outgoing |-> 0]
  /\ mutex = "free" /\ task = "out" /\ call = Idle
  /\ ret = [op |-> "none", rc |-> SUCCESS] /\ broker = NoSession
  /\ stolen = FALSE
  /\ used = [connections |-> 1, calls |-> 0, faults |-> 0]

TaskStep ==
  \/ \E clean \in {0, 1} : Start("connect", clean)
  \/ \E qos \in OutQoS : Start("publish", qos)
  \/ \E topic \in Topics : \E op \in {"subscribe", "unsubscribe"} :
       Start(op, topic)
  \/ Start("disconnect", 0)
  \/ Enter \/ CallCycle \/ CallExpires \/ RunEnters \/ RunCycles
  \/ OpenNetwork \/ Broker \/ Tick
  \/ \E topic \in Topics, qos \in InQoS : Arrives(topic, qos, FALSE)
  \/ \E topic \in Topics : 0 \in InQoS /\ Arrives(topic, 0, TRUE)
  \/ \E how \in {"cut", "closed"} : Fails(how)

TaskNext == TaskStep /\ UNCHANGED use

TaskSpec == TaskInit /\ [][TaskNext]_<<taskVars, use>>

(* Both threads run, timers expire, and a thread that waits for the mutex  *)
(* while the other gives it back again and again gets it in the end.       *)
TaskFairSpec ==
  /\ TaskSpec
  /\ WF_taskVars(CallCycle) /\ WF_taskVars(CallExpires)
  /\ WF_taskVars(RunCycles) /\ WF_taskVars(Tick)
  /\ SF_taskVars(RunEnters) /\ SF_taskVars(Enter)

-----------------------------------------------------------------------------
Longest == IF StaleInterval > KeepAlive THEN StaleInterval ELSE KeepAlive

\* Type correctness of the C client's state.
TaskTypeOK ==
  /\ c.isconnected \in BOOLEAN /\ c.ping_outstanding \in BOOLEAN
  /\ c.handlers \subseteq Topics /\ c.next \in 1..MAX_PACKET_ID
  /\ Cardinality(c.handlers) <= MAX_MESSAGE_HANDLERS
  /\ c.interval \in {StaleInterval, KeepAlive}
  /\ t \in [{"sent", "received"} -> 0..Longest]
  /\ mutex \in {"free", "app", "task"} /\ task \in {"in", "out"}

(* MQTTRun() never takes a packet off the wire that a call of the other    *)
(* thread waits for: the mutex is held for the whole of a call.            *)
AckNotStolen == ~stolen

(* Until the broker has taken CONNECT nothing of a session is sent, on any *)
(* connection: only CONNECT, DISCONNECT and the pings of MQTTRun(), which  *)
(* cycles before MQTTConnect() is called.  Such a ping goes in front of    *)
(* CONNECT unless the interval is 0: after MQTTClientInit() it is what the *)
(* memory held (StaleInterval; MQTTEcho.c:28 has the client on the stack), *)
(* and after a connection it is that connection's.                         *)
IntervalIsZero ==
  StaleInterval = 0 /\ (used.connections = 1 \/ KeepAlive = 0)
ConnectComesFirst ==
  ~broker.conn =>
    /\ \A i \in DOMAIN net.up :
         net.up[i].type \in {CONNECT, DISCONNECT, PINGREQ}
    /\ IntervalIsZero /\ net.up # <<>> => Head(net.up).type # PINGREQ

(* The two threads do not take each other's packets, nor write what only   *)
(* a session may carry before there is one, and the ids they share wrap    *)
(* within 1..MAX_PACKET_ID.                                                *)
TaskSafe == TaskTypeOK /\ AckNotStolen /\ ConnectComesFirst

(* Every call gets the mutex and returns, although MQTTRun() takes the     *)
(* mutex again as soon as it has given it back.                            *)
TaskCallsReturn == call.op # "idle" ~> call.op = "idle"

(* With a keep-alive interval MQTTRun() finds out by itself when the       *)
(* connection is silently cut.                                             *)
TaskDeadPeerNoticed ==
  KeepAlive > 0 /\ c.isconnected /\ net.link = "cut" ~> ~c.isconnected

(* Neither thread waits for ever, for the mutex or for a dead peer.        *)
TaskProgress == TaskCallsReturn /\ TaskDeadPeerNoticed
=============================================================================
