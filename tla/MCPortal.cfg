SPECIFICATION FairSpec
CONSTANTS
  InstanceId = {i1}
  Name = {n1, n2}
  Request = {q1, q2, q3}
  MaxAttempts = 2
  MaxChanges = 2
  None = None
CHECK_DEADLOCK FALSE
INVARIANTS OvershootBounded LedgerBalances
PROPERTIES DashboardFresh
