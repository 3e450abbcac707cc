------------------------------- MODULE MCNmbs -------------------------------
EXTENDS NmbsBus

C == INSTANCE NmbsCrc

\* The table agrees with the code's loop, and with a message of a data sheet.
ASSUME CrcAssumption ==
  /\ \A d \in {<<>>, <<0>>, <<255>>, <<1, 3, 0, 0, 0, 1>>, <<240, 131, 2>>,
               <<17, 6, 0, 1, 0, 3>>} : C!crc_by_table(d) = C!crc_calc(d)
  /\ C!crc_calc(<<17, 6, 0, 1, 0, 3>>) = 154 * 256 + 155

Crc(data) == C!crc_by_table(data)

Op(unit, fc, data) == [unit |-> unit, fc |-> fc, data |-> data, raw |-> 0]
Raw(unit, fc, data, n) == [Op(unit, fc, data) EXCEPT !.raw = n]
Zeros(n) == [i \in 1..n |-> 0]

Succeeds == {NMBS_ERROR_NONE}
MayFail == {NMBS_ERROR_NONE, NMBS_ERROR_TRANSPORT}
AllBut23 == {1, 2, 3, 4, 5, 6, 15, 16, 20, 21}

\* The calls of the controller: single registers of one server.
ControllerOps ==
  {Op(1, 4, read_registers(4, 1)), Op(1, 6, write_single_register(0, 5)),
   Op(1, 6, write_single_register(0, 6))}

\* Every function, at and around its limits.
LimitOps ==
  {Op(1, fc, read_discrete(a, q)) : fc \in {1, 2}, a \in {0, 65535},
                                    q \in {0, 1, 9, 2000, 2001}}
  \cup {Op(1, fc, read_registers(a, q)) : fc \in {3, 4}, a \in {0, 65411},
                                          q \in {0, 1, 125, 126}}
  \cup {Op(1, 5, write_single_coil(a, v)) : a \in {0, 65535}, v \in BOOLEAN}
  \cup {Op(1, 6, write_single_register(65535, 65535))}
  \cup {Op(1, 15, write_multiple_coils(a, q, Zeros(250))) :
          a \in {0, 63569}, q \in {0, 1, 8, 1968, 1969}}
  \cup {Op(1, 16, write_multiple_registers(a, Zeros(q))) :
          a \in {0, 65413}, q \in {0, 1, 123, 124}}
  \cup {Op(1, 20, read_file_record(f, r, q)) :
          f \in {0, 1}, r \in {9999, 10000}, q \in {0, 1, 124, 125}}
  \cup {Op(1, 21, write_file_record(f, r, Zeros(q))) :
          f \in {0, 1}, r \in {9999, 10000}, q \in {0, 1, 122, 123}}
  \cup {Op(1, 23, read_write_registers(a, q, b, Zeros(n))) :
          a \in {0, 65412}, q \in {0, 1, 124, 125}, b \in {0, 65416},
          n \in {0, 1, 120, 121, 122}}

\* Two servers on the bus; 9 is an address nobody has.
BusOps ==
  {Op(u, 1, read_discrete(0, 9)) : u \in {1, 2}}
  \cup {Op(1, 3, read_registers(0, 2)), Op(2, 4, read_registers(0, 1)),
        Op(1, 5, write_single_coil(0, TRUE)), Op(9, 6, write_single_register(0, 1)),
        Op(0, 15, write_multiple_coils(0, 9, Zeros(2))),
        Op(0, 16, write_multiple_registers(0, <<7>>)),
        Op(2, 20, read_file_record(1, 0, 1)),
        Op(1, 21, write_file_record(1, 0, <<7>>)), Raw(1, 3, <<0, 0, 0, 1>>, 3)}

\* One read, one write, and a function the server has no callback for.
ReturnOps ==
  {Op(1, 3, read_registers(0, 1)), Op(1, 6, write_single_register(0, 5)),
   Op(1, 4, read_registers(0, 1))}

TcpOps ==
  {Op(1, 3, read_registers(0, 1)), Op(1, 6, write_single_register(0, 5)),
   Op(1, 1, read_discrete(0, 1))}

Setup(transport, servers, ops, results, tid, nCalls, nFaults) ==
  [transport |-> transport, callbacks |-> AllBut23, servers |-> servers,
   ops |-> ops, results |-> results, tid |-> tid, calls |-> nCalls,
   faults |-> nFaults]

\* A server alone on a line with faults; two servers that hear each other; a
\* TCP connection on which transaction ids wrap; all arguments.
AllCases ==
  [faults |-> Setup("RTU", {1}, ControllerOps, Succeeds, 0, 3, 1),
   bus    |-> Setup("RTU", {1, 2}, BusOps, Succeeds, 0, 2, 0),
   tcp    |-> Setup("TCP", {1}, TcpOps, Succeeds, 65534, 3, 1),
   limits |-> Setup("TCP", {1}, LimitOps, MayFail, 0, 1, 0)]
\* As a function of the case, whose records TLC evaluates only once.
AllSetups == [s \in DOMAIN AllCases |-> AllCases[s]]

\* Two faults; the server has callbacks for two functions only.
ReturnCases ==
  [returns |-> [Setup("RTU", {1}, ReturnOps, Succeeds, 0, 2, 2)
                  EXCEPT !.callbacks = {3, 6}]]
ReturnSetups == [s \in DOMAIN ReturnCases |-> ReturnCases[s]]
=============================================================================
