------------------------------- MODULE MCMqtt -------------------------------
EXTENDS MqttClient

CONSTANTS t1, t2  \* topics

\* The QoS 2 build, no keep-alive; topics, sessions, QoS both ways, bounds.
Messages(topics, clean, outQoS, inQoS, yieldsAnyway, n) ==
  [qos2build |-> TRUE, keepAlive |-> 0, ids |-> n.ids, topics |-> topics,
   clean |-> clean, outQoS |-> outQoS, inQoS |-> inQoS,
   hasDefault |-> 2 \in inQoS, yieldsAnyway |-> yieldsAnyway,
   connections |-> n.connections, calls |-> n.calls,
   published |-> n.published, faults |-> n.faults]
Bounds(ids, connections, calls, published, nFaults) ==
  [ids |-> ids, connections |-> connections, calls |-> calls,
   published |-> published, faults |-> nFaults]

(* Publishing at QoS 0 and 1 over connections that break, in sessions kept *)
(* and dropped, with packet ids that wrap; QoS 2 both ways in a session    *)
(* kept over broken connections; subscriptions and their messages in clean *)
(* sessions, with a table of handlers that fills.                          *)
MessageCases ==
  [publish |-> Messages({}, BOOLEAN, {0, 1}, {}, TRUE, Bounds(2, 3, 3, 0, 2)),
   qos2 |-> Messages({t1}, {FALSE}, {2}, {2}, TRUE, Bounds(2, 3, 2, 2, 1)),
   subscribe |-> Messages({t1, t2}, {TRUE}, {}, {0, 1}, FALSE,
                          Bounds(3, 2, 3, 2, 1))]
\* As a function of the case, whose records TLC evaluates only once.
MessageUses == [u \in DOMAIN MessageCases |-> MessageCases[u]]

\* The default build's keep-alive against a broker that may die or be late.
AliveCases ==
  [alive |-> [Messages({}, {TRUE}, {0}, {}, TRUE, Bounds(2, 2, 1, 0, 1))
                EXCEPT !.qos2build = FALSE, !.keepAlive = 2]]
AliveUses == [u \in DOMAIN AliveCases |-> AliveCases[u]]
=============================================================================
