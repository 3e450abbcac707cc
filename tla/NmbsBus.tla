------------------------------- MODULE NmbsBus -------------------------------
(***************************************************************************)
(* A nanomodbus client and nanomodbus servers on one line.  A node reads   *)
(* its message in the recv() calls of the code, each of which waits until  *)
(* the bytes it wants are there or the time-out takes what there is; what  *)
(* arrives later stays for the next call.  On RTU everybody hears everybody*)
(* else, and the line may lose, alter or delay bytes.                      *)
(***************************************************************************)
EXTENDS Nmbs, Functions

CONSTANT Places     \* where in a message a fault may strike

Servers == Setups[setup].servers  \* address_rtu of the servers
Ops == Setups[setup].ops          \* the client's calls: destination, function
                                  \* code, data, and for nmbs_send_raw_pdu()
                                  \* the length of the answer
CallbackResults == Setups[setup].results  \* what a callback may return
InitTid == Setups[setup].tid      \* current_tid after some earlier calls
MaxCalls == Setups[setup].calls   \* bound: calls of the client
MaxFaults == Setups[setup].faults \* bound: faults of the line

ASSUME BusAssumption ==
  \A s \in DOMAIN Setups :
    Setups[s].transport \in {"RTU", "TCP"} /\ Setups[s].servers \subseteq 1..247

VARIABLES
  node,         \* what each node is receiving
  rx,           \* what has arrived at it
  air,          \* messages under way
  current_tid,
  calls,        \* how many calls the client has made
  result,       \* what the latest of them returned
  executed,     \* writes the servers' callbacks have done
  sent,         \* answers the servers have sent
  calm,         \* nothing was late, lost or altered so far
  faults

busVars == <<node, rx, air, current_tid, calls, result, executed, sent, calm,
             faults>>

Client == 0
Nodes == Servers \cup {Client}

(* msg_state_reset(): stage is the recv() in progress; kind says whether a *)
(* request or the answer to req is read; shape is known once the header is.*)
NoReq == [unit |-> 0, fc |-> 0, tid |-> 0, data |-> <<>>, raw |-> 0]
Waiting(kind, req) ==
  [stage |-> "first", kind |-> kind, buf |-> <<>>, req |-> req,
   shape |-> Fixed(0), ignored |-> FALSE]
Poll == Waiting("req", NoReq)
Idle(req) == [Waiting("res", req) EXCEPT !.stage = "idle"]

BusInit ==
  /\ setup \in DOMAIN Setups
  /\ node = [n \in Nodes |-> IF n = Client THEN Idle(NoReq) ELSE Poll]
  /\ rx = [n \in Nodes |-> <<>>]
  /\ air = <<>> /\ current_tid = InitTid /\ calls = 0
  /\ result = [op |-> NoReq, err |-> NMBS_ERROR_NONE, data |-> <<>>]
  /\ executed = {} /\ sent = {} /\ calm = TRUE /\ faults = 0

-----------------------------------------------------------------------------
(* recv()                                                                  *)
Want(r) == CASE r.stage = "first" -> 1
             [] r.stage = "header" -> HeaderLen - 1
             [] r.stage = "fixed" -> r.shape.fixed
             [] r.stage = "data" -> r.buf[Len(r.buf)]
             [] r.stage = "footer" -> FooterLen

Arrived(n) == Len(rx[n]) >= Want(node[n])

Take(n) == SubSeq(rx[n], 1, Want(node[n]))
Left(n) == SubSeq(rx[n], Want(node[n]) + 1, Len(rx[n]))

\* The message with the bytes of the recv() in progress.
Got(n) == [node[n] EXCEPT !.buf = @ \o Take(n)]

\* recv_res_header()
IsException(r) == FcOf(r.buf) - 128 = r.req.fc
HeaderErrorAnyTid(r) ==
  IF ~MbapOK(r.buf) THEN NMBS_ERROR_INVALID_TCP_MBAP
  ELSE IF Transport = "RTU" /\ UnitOf(r.buf) # r.req.unit
  THEN NMBS_ERROR_INVALID_UNIT_ID
  ELSE IF FcOf(r.buf) # r.req.fc /\ ~IsException(r)
  THEN NMBS_ERROR_INVALID_RESPONSE
  ELSE NMBS_ERROR_NONE
HeaderError(r) ==
  IF ~MbapOK(r.buf) \/ (Transport = "TCP" /\ TidOf(r.buf) # r.req.tid)
  THEN NMBS_ERROR_INVALID_TCP_MBAP
  ELSE IF Transport = "RTU" /\ UnitOf(r.buf) # r.req.unit
  THEN NMBS_ERROR_INVALID_UNIT_ID
  ELSE IF FcOf(r.buf) # r.req.fc /\ ~IsException(r)
  THEN NMBS_ERROR_INVALID_RESPONSE
  ELSE NMBS_ERROR_NONE

\* The recv() after the one in progress, within a message.
Further(r, shape) ==
  CASE r.stage = "first" -> [r EXCEPT !.stage = "header"]
    [] r.stage = "header" -> [r EXCEPT !.stage = "fixed", !.shape = shape]
    [] r.stage = "fixed" ->
         [r EXCEPT !.stage = IF r.shape.counted THEN "data" ELSE "footer"]
    [] r.stage = "data" -> [r EXCEPT !.stage = "footer"]

Receive(n, r) ==
  /\ node' = [node EXCEPT ![n] = r]
  /\ rx' = [rx EXCEPT ![n] = Left(n)]

-----------------------------------------------------------------------------
(* The client                                                              *)
\* A raw answer is asked for before the next call is made.
Free == node[Client].stage = "idle" /\ calls < MaxCalls

NextTid == IF current_tid = 65535 THEN 1 ELSE current_tid + 1

Request(op) == [unit |-> op.unit, fc |-> op.fc, tid |-> NextTid,
                data |-> op.data, raw |-> op.raw]

Broadcast(op) == Transport = "RTU" /\ op.unit = NMBS_BROADCAST_ADDRESS

Return(op, err, data) == result' = [op |-> op, err |-> err, data |-> data]

\* An argument is refused before anything is sent.
CallRefused(op) ==
  /\ Free /\ op.data = Refused
  /\ calls' = calls + 1
  /\ Return(op, NMBS_ERROR_INVALID_ARGUMENT, <<>>)
  /\ UNCHANGED <<node, rx, air, current_tid, executed, sent, calm, faults>>

\* Broadcast writes are not answered; reads wait for an answer all the same.
Call(op) ==
  /\ Free /\ op.data # Refused
  /\ calls' = calls + 1 /\ current_tid' = NextTid
  /\ air' = Append(air, [from |-> Client, bytes |->
       Message(NextTid, op.unit, op.fc, Len(op.data), op.data)])
  /\ IF op.raw > 0 \/ (Broadcast(op) /\ op.fc \notin Reads)
     THEN /\ node' = [node EXCEPT ![Client] =
                [Idle(Request(op)) EXCEPT
                   !.stage = IF op.raw > 0 THEN "sent" ELSE "idle"]]
          /\ Return(op, NMBS_ERROR_NONE, <<>>)
     ELSE /\ node' = [node EXCEPT ![Client] = Waiting("res", Request(op))]
          /\ UNCHANGED result
  /\ UNCHANGED <<rx, executed, sent, calm, faults>>

\* send() writes only a part of the message.
CallFails(op, cut) ==
  /\ Free /\ op.data # Refused /\ faults < MaxFaults
  /\ calls' = calls + 1 /\ current_tid' = NextTid
  /\ LET m == Message(NextTid, op.unit, op.fc, Len(op.data), op.data) IN
       /\ cut < Len(m)
       /\ air' = IF cut = 0 THEN air
                 ELSE Append(air, [from |-> Client,
                                   bytes |-> SubSeq(m, 1, cut)])
  /\ node' = [node EXCEPT ![Client] = Idle(Request(op))]
  /\ Return(op, NMBS_ERROR_TIMEOUT, <<>>)
  /\ calm' = FALSE /\ faults' = faults + 1
  /\ UNCHANGED <<rx, executed, sent>>

nmbs_receive_raw_pdu_response ==
  /\ node[Client].stage = "sent"
  /\ node' = [node EXCEPT ![Client] = Waiting("res", @.req)]
  /\ UNCHANGED <<rx, air, current_tid, calls, result, executed, sent, calm,
                 faults>>

Busy == node[Client].stage \notin {"idle", "sent"}

\* A raw answer is read as long as the caller expects it to be.
ClientShape(r) ==
  IF IsException(r) THEN ExceptionShape
  ELSE IF r.req.raw > 0 THEN Fixed(r.req.raw)
  ELSE ResShape(r.req.fc)

\* The client's call ends with what was received so far, rest bytes unread.
Finish(r, err) ==
  /\ node' = [node EXCEPT ![Client] = Idle(NoReq)]
  /\ Return(r.req, err, IF err = NMBS_ERROR_NONE THEN DataOf(r.buf) ELSE <<>>)

ClientReceive ==
  /\ Busy /\ Arrived(Client) /\ node[Client].stage # "footer"
  /\ LET r == Got(Client) IN
       IF r.stage = "header" /\ HeaderError(r) # NMBS_ERROR_NONE
       THEN /\ Finish(r, HeaderError(r))
            /\ rx' = [rx EXCEPT ![Client] = Left(Client)]
       ELSE Receive(Client, Further(r, ClientShape(r))) /\ UNCHANGED result
  /\ UNCHANGED <<air, current_tid, calls, executed, sent, calm, faults>>

ResponseVerdict(r) ==
  LET d == DataOf(r.buf) IN
    IF ~CrcOK(r.buf) THEN NMBS_ERROR_CRC
    ELSE IF FcOf(r.buf) # r.req.fc
    THEN IF is_exception(d[1]) THEN d[1] ELSE NMBS_ERROR_INVALID_RESPONSE
    ELSE IF r.req.raw > 0 THEN NMBS_ERROR_NONE
    ELSE Accept(r.req.fc, r.req.data, d)

ClientFooter ==
  /\ Busy /\ Arrived(Client) /\ node[Client].stage = "footer"
  /\ Finish(Got(Client), ResponseVerdict(Got(Client)))
  /\ rx' = [rx EXCEPT ![Client] = Left(Client)]
  /\ UNCHANGED <<air, current_tid, calls, executed, sent, calm, faults>>

\* read() returns fewer bytes than recv() wants: they are gone.
ClientTimeoutNoByteTimeout ==
  /\ Busy /\ ~Arrived(Client) /\ node[Client].stage = "first"
  /\ rx' = [rx EXCEPT ![Client] = <<>>]
  /\ Finish(node[Client], NMBS_ERROR_TIMEOUT)
  /\ calm' = FALSE
  /\ UNCHANGED <<air, current_tid, calls, executed, sent, faults>>
ClientTimeout ==
  /\ Busy /\ ~Arrived(Client)
  /\ rx' = [rx EXCEPT ![Client] = <<>>]
  /\ Finish(node[Client], NMBS_ERROR_TIMEOUT)
  /\ calm' = FALSE
  /\ UNCHANGED <<air, current_tid, calls, executed, sent, faults>>

-----------------------------------------------------------------------------
(* nmbs_server_poll(), called in a loop                                    *)
ForMe(s, r) ==
  Transport = "TCP" \/ UnitOf(r.buf) \in {NMBS_BROADCAST_ADDRESS, s}

ServerShape(r) ==
  IF r.kind = "req" THEN ReqShape(FcOf(r.buf))
  ELSE IF IsException(r) THEN ExceptionShape ELSE IgnoredShape(r.req.fc)

\* The header ends the poll: an invalid one, or a function code not known,
\* of which nothing more is read.
HeaderEnds(r) ==
  IF r.kind = "req" THEN ~MbapOK(r.buf) \/ FcOf(r.buf) \notin FunctionCodes
  ELSE HeaderError(r) # NMBS_ERROR_NONE

ServerReceive(s) ==
  /\ node[s].stage # "footer" /\ Arrived(s)
  /\ LET r == Got(s) IN
       Receive(s, IF r.stage # "header" THEN Further(r, r.shape)
                  ELSE IF HeaderEnds(r) THEN Poll
                  ELSE [Further(r, ServerShape(r)) EXCEPT
                          !.ignored = r.kind = "req" /\ ~ForMe(s, r)])
  /\ UNCHANGED <<air, current_tid, calls, result, executed, sent, calm, faults>>

\* The footer of an answer to somebody else, or a wrong one: the poll ends.
\* Of a wrong request to somebody else the rest of the line is flushed; the
\* answer's header has cleared msg.ignored, so of a wrong answer it is not.
ServerDiscard(s) ==
  /\ node[s].stage = "footer" /\ Arrived(s)
  /\ node[s].kind = "res" \/ ~CrcOK(Got(s).buf)
  /\ node' = [node EXCEPT ![s] = Poll]
  /\ rx' = [rx EXCEPT ![s] = IF node[s].ignored THEN <<>> ELSE Left(s)]
  /\ UNCHANGED <<air, current_tid, calls, result, executed, sent, calm, faults>>

\* A good request to another unit: the answer to it is read and dropped.
ServerIgnoreNot(s) ==
  /\ node[s].stage = "footer" /\ Arrived(s) /\ CrcOK(Got(s).buf)
  /\ node[s].kind = "req" /\ node[s].ignored
  /\ Receive(s, Poll)
  /\ UNCHANGED <<air, current_tid, calls, result, executed, sent, calm, faults>>
ServerIgnore(s) ==
  /\ node[s].stage = "footer" /\ Arrived(s) /\ CrcOK(Got(s).buf)
  /\ node[s].kind = "req" /\ node[s].ignored
  /\ LET m == Got(s).buf IN
       Receive(s, Waiting("res", [unit |-> UnitOf(m), fc |-> FcOf(m),
                                  tid |-> TidOf(m), data |-> DataOf(m),
                                  raw |-> 0]))
  /\ UNCHANGED <<air, current_tid, calls, result, executed, sent, calm, faults>>

Reply(s, m, fc, length, data) ==
  /\ air' = Append(air, [from |-> s, bytes |->
       Message(TidOf(m), UnitOf(m), fc, length, data)])
  /\ sent' = sent \cup {[unit |-> UnitOf(m), fc |-> fc, data |-> data,
                         call |-> calls]}

\* send_exception_msg(): also to a broadcast.
ReplyException(s, m, exception) == Reply(s, m, FcOf(m) + 128, 1, <<exception>>)

ExceptionOf(err) == IF is_exception(err) THEN err ELSE DEVICE_FAILURE

Writes == {5, 6, 15, 16, 21, 23}

(* A good request: the callback may fail; function code 23 writes first,   *)
(* and its read may fail after that.  A callback reads the number of the   *)
(* client's call, so that every value tells when it was read.              *)
HandleRequest(s, cb, cbRead, broadcast) ==
  /\ node[s].stage = "footer" /\ Arrived(s) /\ CrcOK(Got(s).buf)
  /\ node[s].kind = "req" /\ ~node[s].ignored
  /\ LET m == Got(s).buf
         fc == FcOf(m)
         d == DataOf(m)
         a == Answer(fc, d, calls)
         bad == Judge(fc, d)
         err == IF bad # NMBS_ERROR_NONE THEN bad
                ELSE IF cb # NMBS_ERROR_NONE THEN ExceptionOf(cb)
                ELSE IF fc = 23 /\ ~broadcast /\ cbRead # NMBS_ERROR_NONE
                THEN ExceptionOf(cbRead)
                ELSE NMBS_ERROR_NONE
     IN /\ IF err # NMBS_ERROR_NONE THEN ReplyException(s, m, err)
           ELSE IF broadcast THEN UNCHANGED <<air, sent>>
           ELSE Reply(s, m, fc, AnswerLength(fc, a), a)
        /\ executed' =
             IF fc \in Writes /\ bad = NMBS_ERROR_NONE /\ cb = NMBS_ERROR_NONE
             THEN executed \cup {[unit |-> s, fc |-> fc, data |-> d]}
             ELSE executed
  /\ Receive(s, Poll)
  /\ UNCHANGED <<current_tid, calls, result, calm, faults>>

Serve(s, cb, cbRead) ==
  HandleRequest(s, cb, cbRead,
    Transport = "RTU" /\ UnitOf(node[s].buf) = NMBS_BROADCAST_ADDRESS)

\* A message or an answer that stops short; an empty poll changes nothing.
ServerTimeout(s) ==
  /\ ~Arrived(s) /\ node[s] # Poll
  /\ node' = [node EXCEPT ![s] = Poll]
  /\ rx' = [rx EXCEPT ![s] = <<>>]
  /\ calm' = FALSE
  /\ UNCHANGED <<air, current_tid, calls, result, executed, sent, faults>>

-----------------------------------------------------------------------------
(* The line (external)                                                     *)
Hear(bytes) ==
  rx' = [n \in Nodes |-> IF n = Head(air).from THEN rx[n] ELSE rx[n] \o bytes]

Deliver ==
  /\ air # <<>>
  /\ Hear(Head(air).bytes) /\ air' = Tail(air)
  /\ UNCHANGED <<node, current_tid, calls, result, executed, sent, calm,
                 faults>>

Fault == /\ air # <<>> /\ faults < MaxFaults
         /\ faults' = faults + 1 /\ calm' = FALSE
         /\ UNCHANGED <<node, current_tid, calls, result, executed, sent>>

\* A part of a message, the rest of which comes later.
Pause(k) == LET m == Head(air) IN
  /\ Fault /\ k < Len(m.bytes)
  /\ Hear(SubSeq(m.bytes, 1, k))
  /\ air' = [air EXCEPT ![1].bytes = SubSeq(m.bytes, k + 1, Len(m.bytes))]

Lose == Fault /\ Transport = "RTU" /\ air' = Tail(air) /\ UNCHANGED rx

Corrupt(k) ==
  /\ Fault /\ Transport = "RTU" /\ k <= Len(Head(air).bytes)
  /\ air' = [air EXCEPT ![1].bytes[k] = (@ + 1) % 256]
  /\ UNCHANGED rx

Line == Deliver \/ Lose \/ \E k \in Places : Pause(k) \/ Corrupt(k)

ClientStep == nmbs_receive_raw_pdu_response \/ ClientReceive \/ ClientFooter
ServerStep(s) ==
  \/ ServerReceive(s) \/ ServerDiscard(s) \/ ServerIgnore(s) \/ ServerTimeout(s)
  \/ \E cb, cbRead \in CallbackResults : Serve(s, cb, cbRead)

BusStep ==
  \/ \E op \in Ops : Call(op) \/ CallRefused(op) \/ \E k \in Places : CallFails(op, k)
  \/ ClientStep \/ ClientTimeout
  \/ \E s \in Servers : ServerStep(s)
  \/ Line

BusNext == BusStep /\ UNCHANGED setup

BusSpec ==
  /\ BusInit /\ [][BusNext]_<<busVars, setup>>
  /\ WF_busVars(ClientStep \/ ClientTimeout)

-----------------------------------------------------------------------------
OnlyBytes(s) == Range(s) \subseteq 0..255

\* Every node is between two recv() calls of one message or of none, and what
\* is under way, arrived or being put together are bytes.
BusTypeOK ==
  /\ \A n \in Nodes :
       /\ node[n].stage \in {"idle", "sent", "first", "header", "fixed", "data",
                             "footer"}
       /\ OnlyBytes(rx[n]) /\ OnlyBytes(node[n].buf)
  /\ \A i \in DOMAIN air : OnlyBytes(air[i].bytes)
  /\ current_tid \in Nat /\ current_tid <= 65535

Done == node[Client].stage = "idle"
Answered(op) == op.data # Refused /\ ~(Broadcast(op) /\ op.fc \notin Reads)

\* Late, lost and altered messages: a function that returns success has read,
\* byte for byte, an answer that the addressed server sent to a request with
\* this function code, and one that returns an exception has read an exception
\* of that server.  It may be the answer to an earlier call: see CalmIsFresh.
AnswersWereSent ==
  Done /\ Answered(result.op) =>
    /\ result.err = NMBS_ERROR_NONE /\ result.op # NoReq =>
         \E m \in sent : /\ m.unit = result.op.unit /\ m.fc = result.op.fc
                         /\ m.data = result.data
    /\ is_exception(result.err) =>
         \E m \in sent : /\ m.unit = result.op.unit
                         /\ m.fc = result.op.fc + 128 /\ m.data = <<result.err>>

\* A write that returns success has been done by the server's callback, with
\* the address and the value of this call.
WritesWereDone ==
  Done /\ result.err = NMBS_ERROR_NONE /\ result.op.fc \in {5, 6, 21}
        /\ result.op.raw = 0 /\ ~Broadcast(result.op) =>
    [unit |-> result.op.unit, fc |-> result.op.fc, data |-> result.op.data]
      \in executed

\* What a call returns is real: its answer was sent, its write was done.
ResultsAreReal == AnswersWereSent /\ WritesWereDone

\* As long as nothing was late, lost or altered, a value that a function
\* returns was read for this very call, although an RTU answer names neither
\* the request nor the address.
CalmIsFresh ==
  calm /\ Done /\ result.op.fc \in Reads \cup {23}
       /\ result.err = NMBS_ERROR_NONE =>
    result.data[Len(result.data)] = calls

\* On TCP the transaction id makes that true whatever came late.
TcpIsFresh ==
  Transport = "TCP" /\ Done /\ result.op.fc \in Reads \cup {23}
       /\ result.err = NMBS_ERROR_NONE /\ result.op.data # Refused =>
    result.data[Len(result.data)] = calls

\* The client's limits on its arguments are within the server's: if nothing
\* was late, lost or altered and callbacks fail only with library errors, a
\* call is refused by the client itself, succeeds, or reports the failure of
\* the callback; the server finds nothing to object to.
CallsAgree ==
  calm /\ Done =>
    result.err \in
      {NMBS_ERROR_NONE, NMBS_ERROR_INVALID_ARGUMENT, DEVICE_FAILURE}

\* Nothing is left over: once a calm line is quiet, every byte was read and
\* every server, those that only listened too, waits for a request.
CalmLineIsClean ==
  calm /\ Done /\ air = <<>>
       /\ (\A s \in Servers : ~Arrived(s)) =>
    (\A n \in Nodes : rx[n] = <<>>) /\ (\A s \in Servers : node[s] = Poll)

\* Only a refusal is ever sent in answer to a broadcast.
BroadcastsUnanswered ==
  Transport = "RTU" =>
    \A m \in sent : m.unit = NMBS_BROADCAST_ADDRESS => m.fc > 128

\* A line on which nothing was late, lost or altered stays in order: values
\* are fresh, nothing is left in a receiver, nobody answers for another.
LineInOrder ==
  BusTypeOK /\ CalmIsFresh /\ CalmLineIsClean /\ BroadcastsUnanswered

\* Every call returns: the read and the byte time-out see to that, whatever
\* the servers and the line do.
CallsReturn == Busy ~> ~Busy
=============================================================================
