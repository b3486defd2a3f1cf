SPECIFICATION FairSpec
CONSTANTS
  InstanceId = {i1, i2}
  Token = {t1, t2}
  Name = {n1}
  Address = {a1}
  Socket = {s1, s2}
  MaxSessions = 1
  MaxFailures = 1
  None = None
  Off = Off
INVARIANTS TokensResolve OpenIsCurrent DiskIsCurrent
PROPERTIES RemoveStrandsNobody GhostExpires LostIsReleased
