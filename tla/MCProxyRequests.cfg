SPECIFICATION FairSpec
CONSTANTS
  Request = {r1, r2}
  Conn = {c1, c2}
  MaxPending = 1
  MaxStreaming = 1
  MaxFrames = 2
  HalfOpen = FALSE
  None = None
CHECK_DEADLOCK FALSE
INVARIANTS TimerIsPending CountMatches StreamsBeginWithHead NoOrphan
PROPERTIES ExchangeSpec Answered StreamsReleased
