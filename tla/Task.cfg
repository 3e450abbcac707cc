\* One thread calls, MQTTRun() cycles in another.
SPECIFICATION TaskFairSpec
CONSTANTS
  t1 = t1
  t2 = t2
  Uses <- AllUses
  MAX_PACKET_ID = 2
  MAX_MESSAGE_HANDLERS = 1
INVARIANT TaskSafe
PROPERTY TaskProgress
CHECK_DEADLOCK FALSE
