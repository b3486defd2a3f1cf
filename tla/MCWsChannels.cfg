SPECIFICATION FairSpec
CONSTANTS
  Browser = {b1}
  Local = {l1}
  Conn = {c1, c2}
  MaxChannels = 2
  MaxPending = 1
  MaxSent = 2
  MaxFrames = 2
  MaxRestarts = 1
  HalfOpen = TRUE
  Deletes = TRUE
  SlowClose = FALSE
  None = None
CHECK_DEADLOCK FALSE
INVARIANTS InOrder
PROPERTIES BrowserLetGo LocalLetGo
