SPECIFICATION Spec
CONSTANTS
  HALF = 8
  FAN_MAX = 2
  FAN_STEP = 1
  FAN_SCALE = 2
  PRES_MAX = 2
  MIN_PRESSURE_TARGET = 1
  FAN_GAIN = 1
  SENSOR_SCALE = 2
  RawPressures <- NegativePressures
  Uninit = {0}
  BusOutcomes = {TRUE, FALSE}
  MaxText = 0
  WheelStops = {}
  Payloads <- SomePayloads
  Setpoints <- SomeSetpoints
  DEFAULT_NET <- NoNet
  BROKER_IP_LEN = 0
  LinkOutcomes = {TRUE, FALSE}
INVARIANTS
  FanMirror
  OneEdit
  FanObeys
  ModeDurable
PROPERTIES
  TargetsSaved
  SettingsAnswered
