SPECIFICATION FairSpec
CONSTANTS
  Id = {i1, i2}
  Token = {t1, t2, t3}
  MaxDeploys = 3
  MaxFaults = 2
  None = None
CHECK_DEADLOCK FALSE
INVARIANTS NoImpostor SavedPairBelongs
PROPERTIES NeverForgets Returns
