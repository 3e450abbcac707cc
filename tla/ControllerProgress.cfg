\* Progress under the fairness of main()'s loop and of the timers.
SPECIFICATION FairSpec
CONSTANTS
  HALF = 8
  FAN_MAX = 2
  FAN_STEP = 2
  FAN_SCALE = 3
  PRES_MAX = 1
  MIN_PRESSURE_TARGET = 0
  FAN_GAIN = 1
  SENSOR_SCALE = 2
  RawPressures = {0, 7}
  Uninit = {0}
  BusOutcomes = {TRUE, FALSE}
  MaxText = 0
  WheelStops = {}
  Payloads <- PlainPayloads
  Setpoints = {1}
  DEFAULT_NET <- NoNet
  BROKER_IP_LEN = 0
  LinkOutcomes = {TRUE}
PROPERTIES
  FanGetsThere
  ModeHandedOver
