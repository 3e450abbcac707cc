\* Messages at every QoS over connections that break.
SPECIFICATION MqttSpec
CONSTANTS
  t1 = t1
  t2 = t2
  MAX_MESSAGE_HANDLERS = 1
  MAX_INCOMING_QOS2_MESSAGES = 1
  Uses <- MessageUses
INVARIANTS
  AckedWasReceived
  NothingKeptIsLost
  QoS2AtMostOnce
  AckedWasDelivered
  TablesAgree
CHECK_DEADLOCK FALSE
