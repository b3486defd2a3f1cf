SPECIFICATION Spec
CONSTANTS
  Browser = {b1, b2}
  Local = {l1, l2}
  Conn = {c1, c2, c3}
  MaxChannels = 2
  MaxPending = 1
  MaxSent = 1
  MaxFrames = 1
  MaxRestarts = 1
  HalfOpen = FALSE
  Deletes = FALSE
  SlowClose = TRUE
  None = None
CHECK_DEADLOCK FALSE
SYMMETRY Symmetry
PROPERTY DisconnectClosesAll
