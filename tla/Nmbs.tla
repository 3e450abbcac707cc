-------------------------------- MODULE Nmbs --------------------------------
(***************************************************************************)
(* The messages of nanomodbus.c: what the client's functions send, how a   *)
(* server judges and answers each request, and what the client accepts as  *)
(* an answer.  A message is a sequence of bytes, "data" is what follows    *)
(* the function code; get_*, put_*: the position is in the sequence.       *)
(***************************************************************************)
EXTENDS Integers, Sequences

CONSTANTS
  Setups,         \* the ways the library is set up and used, by name
  nmbs_crc_calc(_)

VARIABLE setup    \* which of them this is

Transport == Setups[setup].transport  \* platform.transport: "RTU" or "TCP"
Callbacks == Setups[setup].callbacks  \* the servers' callbacks, by function

NMBS_ERROR_INVALID_UNIT_ID  == -7
NMBS_ERROR_INVALID_TCP_MBAP == -6
NMBS_ERROR_CRC              == -5
NMBS_ERROR_TRANSPORT        == -4
NMBS_ERROR_TIMEOUT          == -3
NMBS_ERROR_INVALID_RESPONSE == -2
NMBS_ERROR_INVALID_ARGUMENT == -1
NMBS_ERROR_NONE             == 0
ILLEGAL_FUNCTION     == 1
ILLEGAL_DATA_ADDRESS == 2
ILLEGAL_DATA_VALUE   == 3
DEVICE_FAILURE       == 4

is_exception(e) == e \in 1..4

NMBS_BROADCAST_ADDRESS == 0

get_2(m, i) == 256 * m[i] + m[i + 1]
put_2(x) == <<x \div 256, x % 256>>

put_regs(rs) ==
  [i \in 1..(2 * Len(rs)) |-> put_2(rs[(i + 1) \div 2])[2 - (i % 2)]]

\* put_msg_header() with the length its caller gives, data and send_msg().
Message(tid, unit, fc, length, data) ==
  IF Transport = "RTU"
  THEN LET m == <<unit, fc>> \o data IN m \o put_2(nmbs_crc_calc(m))
  ELSE put_2(tid) \o <<0, 0>> \o put_2(2 + length) \o <<unit, fc>> \o data

HeaderLen == IF Transport = "RTU" THEN 2 ELSE 8
FooterLen == IF Transport = "RTU" THEN 2 ELSE 0

UnitOf(m) == m[HeaderLen - 1]
FcOf(m) == m[HeaderLen]
TidOf(m) == IF Transport = "RTU" THEN 0 ELSE get_2(m, 1)
DataOf(m) == SubSeq(m, HeaderLen + 1, Len(m) - FooterLen)

\* recv_msg_header()'s own checks, and recv_msg_footer()'s.
MbapOK(m) == Transport = "TCP" => get_2(m, 3) = 0 /\ get_2(m, 5) <= 255
CrcIgnored(m) == TRUE
CrcOK(m) ==
  Transport = "RTU" =>
    get_2(m, Len(m) - 1) = nmbs_crc_calc(SubSeq(m, 1, Len(m) - 2))

(* The recv() calls that follow the header: a fixed part and, when counted,*)
(* as many bytes as the last byte of the fixed part says.                  *)
Fixed(n)   == [fixed |-> n, counted |-> FALSE]
Counted(n) == [fixed |-> n, counted |-> TRUE]

FunctionCodes == {1, 2, 3, 4, 5, 6, 15, 16, 20, 21, 23}
Reads == {1, 2, 3, 4}

ReqShape(fc) == CASE fc \in {1, 2, 3, 4, 5, 6} -> Fixed(4)
                  [] fc \in {15, 16} -> Counted(5)
                  [] fc \in {20, 21} -> Counted(1)
                  [] fc = 23 -> Counted(9)
ResShape(fc) ==
  IF fc \in {5, 6, 15, 16} THEN Fixed(4) ELSE Counted(1)
\* What a server that ignores a request reads as the answer to it.
IgnoredShape(fc) == IF fc = 23 THEN ResShape(16) ELSE ResShape(fc)
ExceptionShape == Fixed(1)

-----------------------------------------------------------------------------
(* The client's functions: the data they send, Refused when an argument is *)
(* invalid.  Register lists are sequences, a bitfield is its bytes.        *)
Refused == <<>>

InSpace(address, quantity) == address + quantity <= 65536

read_discrete(address, quantity) ==
  IF quantity \in 1..2000 /\ InSpace(address, quantity)
  THEN put_2(address) \o put_2(quantity) ELSE Refused

read_registersOffByOne(address, quantity) ==
  IF quantity \in 1..126 /\ InSpace(address, quantity)
  THEN put_2(address) \o put_2(quantity) ELSE Refused
read_registers(address, quantity) ==
  IF quantity \in 1..125 /\ InSpace(address, quantity)
  THEN put_2(address) \o put_2(quantity) ELSE Refused

write_single_coil(address, value) ==
  put_2(address) \o put_2(IF value THEN 65280 ELSE 0)

write_single_register(address, value) == put_2(address) \o put_2(value)

write_multiple_coils(address, quantity, coils) ==
  LET bytes == (quantity + 7) \div 8 IN
    IF 1 <= quantity /\ quantity <= 1968 /\ InSpace(address, quantity)
    THEN put_2(address) \o put_2(quantity) \o <<bytes>>
           \o SubSeq(coils, 1, bytes)
    ELSE Refused

write_multiple_registers(address, registers) ==
  LET quantity == Len(registers) IN
    IF quantity \in 1..123 /\ InSpace(address, quantity)
    THEN put_2(address) \o put_2(quantity) \o <<quantity * 2>>
           \o put_regs(registers)
    ELSE Refused

FileInSpace(file_number, record_number) ==
  file_number # 0 /\ record_number <= 9999

read_file_record(file_number, record_number, count) ==
  IF FileInSpace(file_number, record_number) /\ count <= 124
  THEN <<7, 6>> \o put_2(file_number) \o put_2(record_number) \o put_2(count)
  ELSE Refused

write_file_record(file_number, record_number, registers) ==
  IF FileInSpace(file_number, record_number) /\ Len(registers) <= 122
  THEN <<7 + 2 * Len(registers), 6>> \o put_2(file_number)
         \o put_2(record_number) \o put_2(Len(registers)) \o put_regs(registers)
  ELSE Refused

read_write_registers(read_address, read_quantity, write_address, registers) ==
  LET write_quantity == Len(registers) IN
    IF /\ read_quantity \in 1..125 /\ InSpace(read_address, read_quantity)
       /\ write_quantity \in 1..121 /\ InSpace(write_address, write_quantity)
    THEN put_2(read_address) \o put_2(read_quantity) \o put_2(write_address)
           \o put_2(write_quantity) \o <<write_quantity * 2>>
           \o put_regs(registers)
    ELSE Refused

-----------------------------------------------------------------------------
(* The server's handlers: the exception a request is answered with before  *)
(* any callback runs, NMBS_ERROR_NONE if none is.                          *)
NoCallback(fc) == IF fc \in Callbacks THEN NMBS_ERROR_NONE ELSE ILLEGAL_FUNCTION

JudgeRange(address, quantity, limit, otherwise) ==
  IF quantity \notin 1..limit THEN ILLEGAL_DATA_VALUE
  ELSE IF ~InSpace(address, quantity) THEN ILLEGAL_DATA_ADDRESS
  ELSE otherwise

handle_read_discrete(fc, d) ==
  JudgeRange(get_2(d, 1), get_2(d, 3), 2000, NoCallback(fc))

handle_read_registers(fc, d) ==
  JudgeRange(get_2(d, 1), get_2(d, 3), 125, NoCallback(fc))

handle_write_single_coil(d) ==
  IF 5 \notin Callbacks THEN ILLEGAL_FUNCTION
  ELSE IF get_2(d, 3) \notin {0, 65280} THEN ILLEGAL_DATA_VALUE
  ELSE NMBS_ERROR_NONE

handle_write_single_register(d) == NoCallback(6)

handle_write_multiple_coils(d) ==
  JudgeRange(get_2(d, 1), get_2(d, 3), 1968,
    IF d[5] = 0 \/ (get_2(d, 3) + 7) \div 8 # d[5] THEN ILLEGAL_DATA_VALUE
    ELSE NoCallback(15))

handle_write_multiple_registers(d) ==
  JudgeRange(get_2(d, 1), get_2(d, 3), 123,
    IF d[5] = 0 \/ get_2(d, 3) * 2 # d[5] THEN ILLEGAL_DATA_VALUE
    ELSE NoCallback(16))

\* The sub-request at position i of a file request: type, file, record, length.
Sub(d, i) == [type |-> d[i], file |-> get_2(d, i + 1),
              record |-> get_2(d, i + 3), length |-> get_2(d, i + 5)]

SubOK(s, limit) ==
  s.type = 6 /\ FileInSpace(s.file, s.record) /\ s.length <= limit

ReadSubs(d) == [i \in 1..(d[1] \div 7) |-> Sub(d, 7 * i - 5)]

handle_read_file_record(d) ==
  IF d[1] % 7 # 0 \/ d[1] \notin 7..245 THEN ILLEGAL_DATA_VALUE
  ELSE IF \E i \in DOMAIN ReadSubs(d) : ~SubOK(ReadSubs(d)[i], 124)
  THEN ILLEGAL_DATA_ADDRESS
  ELSE NoCallback(20)

(* The loop over the sub-requests of a write, p bytes into the request.  A *)
(* length past the end wraps the 16-bit remainder, and the loop goes on    *)
(* through what lies behind the request until a check fails there.         *)
handle_write_file_record(d) ==
  LET loop[p \in 0..(d[1] - 7)] ==
        LET end == p + 7 + 2 * Sub(d, p + 2).length IN
          IF ~SubOK(Sub(d, p + 2), 122) \/ end > d[1] THEN ILLEGAL_DATA_ADDRESS
          ELSE IF d[1] - end >= 7 THEN loop[end]
          ELSE IF end # d[1] THEN ILLEGAL_DATA_VALUE
          ELSE NoCallback(21)
  IN IF d[1] \notin 7..251 THEN ILLEGAL_DATA_VALUE ELSE loop[0]

handle_read_write_registers(d) ==
  LET read_quantity == get_2(d, 3)
      write_quantity == get_2(d, 7) IN
    IF \/ read_quantity \notin 1..125 \/ write_quantity \notin 1..123
       \/ d[9] # write_quantity * 2
    THEN ILLEGAL_DATA_VALUE
    ELSE IF \/ ~InSpace(get_2(d, 1), read_quantity)
            \/ ~InSpace(get_2(d, 5), write_quantity)
    THEN ILLEGAL_DATA_ADDRESS
    ELSE IF {3, 16} \subseteq Callbacks THEN NMBS_ERROR_NONE
    ELSE ILLEGAL_FUNCTION

\* handle_req_fc(), for the function codes it knows.
Judge(fc, d) ==
  CASE fc \in {1, 2} -> handle_read_discrete(fc, d)
    [] fc \in {3, 4} -> handle_read_registers(fc, d)
    [] fc = 5 -> handle_write_single_coil(d)
    [] fc = 6 -> handle_write_single_register(d)
    [] fc = 15 -> handle_write_multiple_coils(d)
    [] fc = 16 -> handle_write_multiple_registers(d)
    [] fc = 20 -> handle_read_file_record(d)
    [] fc = 21 -> handle_write_file_record(d)
    [] fc = 23 -> handle_read_write_registers(d)

\* The data of the normal answer; v is what the callback reads everywhere.
\* response_data_size is one byte wide.
Answer(fc, d, v) ==
  LET q == get_2(d, 3)
      regs(n) == put_regs([i \in 1..n |-> v])
      bytes == (q + 7) \div 8
      subs == ReadSubs(d)
      records[k \in 0..Len(subs)] ==
        IF k = 0 THEN <<>>
        ELSE records[k - 1] \o <<subs[k].length * 2 + 1, 6>>
               \o regs(subs[k].length)
  IN CASE fc \in {1, 2} -> <<bytes>> \o [i \in 1..bytes |-> v]
       [] fc \in {3, 4, 23} -> <<q * 2>> \o regs(q)
       [] fc \in {5, 6, 15, 16} -> SubSeq(d, 1, 4)
       [] fc = 20 -> <<Len(records[Len(subs)]) % 256>> \o records[Len(subs)]
       [] fc = 21 -> d

\* The length given to put_res_header(): one short for a file record.
AnswerLength(fc, d) == IF fc = 20 THEN d[1] ELSE Len(d)

-----------------------------------------------------------------------------
(* recv_*_res() after the footer: whether the data d of an answer is taken *)
(* for the answer to the request data r.  Bits are, whatever their number. *)
(* A file record of another size than it says fails in the footer's CRC.   *)
recv_read_registers_res(r, d) == d[1] = 2 * get_2(r, 3)

recv_write_res(r, d) == d = SubSeq(r, 1, 4)

recv_read_file_record_res(r, d) ==
  /\ Len(d) >= 3 /\ d[1] = d[2] + 1 /\ d[3] = 6
  /\ (d[2] - 1) \div 2 = get_2(r, 7)

recv_write_file_record_res(r, d) == Tail(d) = Tail(r)

Accept(fc, r, d) ==
  IF CASE fc \in {1, 2} -> TRUE
       [] fc \in {3, 4, 23} -> recv_read_registers_res(r, d)
       [] fc \in {5, 6, 15, 16} -> recv_write_res(r, d)
       [] fc = 20 -> recv_read_file_record_res(r, d)
       [] fc = 21 -> recv_write_file_record_res(r, d)
  THEN NMBS_ERROR_NONE ELSE NMBS_ERROR_INVALID_RESPONSE
=============================================================================
