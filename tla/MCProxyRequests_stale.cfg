SPECIFICATION Spec
CONSTANTS
  Request = {r1}
  Conn = {c1, c2}
  MaxPending = 1
  MaxStreaming = 1
  MaxFrames = 2
  HalfOpen = TRUE
  None = None
CHECK_DEADLOCK FALSE
PROPERTIES OnlyDisconnectedCleaned
