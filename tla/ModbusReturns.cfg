\* Calls under two faults and a time-out at any moment.
SPECIFICATION BusSpec
CONSTANTS
  Setups <- ReturnSetups
  nmbs_crc_calc <- Crc
  Places = {3}
CHECK_DEADLOCK FALSE
PROPERTY CallsReturn
