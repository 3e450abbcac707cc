\* The network screen in use: connecting, typing and leaving it.
SPECIFICATION Spec
CONSTANTS
  HALF = 8
  FAN_MAX = 1
  FAN_STEP = 1
  FAN_SCALE = 2
  PRES_MAX = 1
  MIN_PRESSURE_TARGET = 0
  FAN_GAIN = 1
  SENSOR_SCALE = 2
  RawPressures = {7}
  Uninit = {0}
  BusOutcomes = {TRUE}
  MaxText = 1
  WheelStops = {48}
  Payloads <- NoPayloads
  Setpoints = {9}
  DEFAULT_NET <- OneCharNet
  BROKER_IP_LEN = 1
  LinkOutcomes = {TRUE, FALSE}
INVARIANT NoHiddenPassword
