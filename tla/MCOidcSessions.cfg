SPECIFICATION FairSpec
CONSTANTS
  Session = {s1, s2}
  Request = {q1, q2}
  Rotates = TRUE
  NetworkFails = TRUE
  MaxToken = 2
  InitialDelay = 2
  MaxDelay = 5
  Timeout = 7
  InitTime = 1
  None = None
CHECK_DEADLOCK FALSE
INVARIANTS TokenCurrent
PROPERTIES GoneStays AllowedIsLive StaleNotAllowed ReadyOnceBack
