------------------------------- MODULE MCTask -------------------------------
EXTENDS MqttTask

CONSTANTS t1, t2  \* topics

Use(stale, keepAlive, topics, outQoS, inQoS, n) ==
  [stale |-> stale, keepAlive |-> keepAlive, topics |-> topics,
   outQoS |-> outQoS, inQoS |-> inQoS, connections |-> n[1], calls |-> n[2],
   published |-> n[3], underWay |-> n[4], faults |-> n[5]]

(* Calls of one thread while MQTTRun() cycles in another: publishing, and  *)
(* subscribing with messages that arrive; cycles before and between two    *)
(* connections, with an interval of 0 and one left in memory before the    *)
(* first; the keep-alive, with a broker that may die.                      *)
AllCases ==
  [publish |-> Use(0, 0, {}, {0, 1, 2}, {}, <<2, 3, 0, 2, 1>>),
   subscribe |-> Use(0, 0, {t1, t2}, {}, {0, 1, 2}, <<1, 2, 1, 2, 1>>),
   connect |-> Use(0, 1, {}, {}, {}, <<2, 1, 0, 2, 1>>),
   stale |-> Use(2, 0, {}, {0}, {}, <<2, 2, 0, 2, 1>>),
   alive |-> Use(0, 1, {}, {1}, {}, <<1, 1, 0, 2, 1>>)]
\* As a function of the case, whose records TLC evaluates only once.
AllUses == [u \in DOMAIN AllCases |-> AllCases[u]]
=============================================================================
