SPECIFICATION Spec
CONSTANTS
  Session = {s1}
  Request = {q1, q2}
  Rotates = TRUE
  NetworkFails = FALSE
  MaxToken = 2
  InitialDelay = 2
  MaxDelay = 5
  Timeout = 7
  InitTime = 1
  None = None
CHECK_DEADLOCK FALSE
PROPERTIES EndsForReason
