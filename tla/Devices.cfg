\* Every driver on a small instance; see MCDevices.tla.
SPECIFICATION DevicesSpec
CONSTANTS
  Size = 4
  Bytes = {0, 1}
  Capacity = 2
  Fifo = 2
  Trigger = 1
  MaxWrite = 4
  MaxOut = 6
  MaxIn = 4
  Buttons = {"SW_0"}
  PRESS_DEBOUNCE_DELAY_US = 2
  TimerWrap = 5
  MaxEdges = 3
  MaxTime = 6
  PageSize = 6
  ByteBase = 24
  Chars = {"0", "1"}
  NUL = "nul"
  Blank = "blank"
  Modes <- MCModes
  Targets <- MCTargets
  MaxLosses = 1
  Bits = {1}
INVARIANTS
  UartSafe
  SavesHold
  ReadingIsFresh
PROPERTIES
  ImplementsQueue
  ReportsHold
  DevicesProgress
