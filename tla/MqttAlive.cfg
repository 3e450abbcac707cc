\* The keep-alive timers against a broker that may die or be late.
SPECIFICATION MqttFairSpec
CONSTANTS
  t1 = t1
  t2 = t2
  MAX_MESSAGE_HANDLERS = 1
  MAX_INCOMING_QOS2_MESSAGES = 1
  Uses <- AliveUses
INVARIANT PingHasItsInterval
PROPERTY MqttProgress
CHECK_DEADLOCK FALSE
