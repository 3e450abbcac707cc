SPECIFICATION Spec
CONSTANTS
  HALF = 8
  FAN_MAX = 3
  FAN_STEP = 2
  FAN_SCALE = 2
  PRES_MAX = 2
  MIN_PRESSURE_TARGET = 1
  FAN_GAIN = 1
  SENSOR_SCALE = 2
  RawPressures = {0, 4, 7}
  Uninit = {9}
  BusOutcomes = {TRUE, FALSE}
  MaxText = 0
  WheelStops = {}
  Payloads <- NoPayloads
  Setpoints = {0}
  DEFAULT_NET <- NoNet
  BROKER_IP_LEN = 0
  LinkOutcomes = {FALSE}
INVARIANTS
  TypeOK
  LocalValuesLegal
PROPERTIES
  BumplessToggle
  FollowsPressure
