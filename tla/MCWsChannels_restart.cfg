SPECIFICATION Spec
CONSTANTS
  Browser = {b1, b2}
  Local = {l1, l2}
  Conn = {c1, c2}
  MaxChannels = 1
  MaxPending = 1
  MaxSent = 1
  MaxFrames = 1
  MaxRestarts = 1
  HalfOpen = FALSE
  Deletes = FALSE
  SlowClose = FALSE
  None = None
CHECK_DEADLOCK FALSE
SYMMETRY Symmetry
INVARIANTS OpenIsTracked
PROPERTIES PipeSpec
