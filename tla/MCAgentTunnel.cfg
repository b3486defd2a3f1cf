SPECIFICATION FairSpec
CONSTANTS
  BaseDelay = 2
  MaxDelay = 7
  Conn = {c1, c2}
  MaxSessions = 1
  MaxProbes = 1
  MaxFrames = 2
  MaxFaults = 3
  None = None
CHECK_DEADLOCK FALSE
INVARIANTS NeverIdle TimersServeRegistration ProbeGoesOn SessionsAgree
PROPERTIES DeletedStops
