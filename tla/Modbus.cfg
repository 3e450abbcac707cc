\* RTU with faults, RTU with two servers, TCP, and every argument limit.
SPECIFICATION BusSpec
CONSTANTS
  Setups <- AllSetups
  nmbs_crc_calc <- Crc
  Places = {1, 3, 6}
INVARIANTS
  ResultsAreReal
  LineInOrder
  TcpIsFresh
  CallsAgree
CHECK_DEADLOCK FALSE
