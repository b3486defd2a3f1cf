CONSTANTS
  Id = {i1, i2}
  MaxFlight = 1
  None = None
  Bars = 2
  NoBar = 0
  Lang = {en, zh}
  MaxRenders = 3
  Policies <- MCPolicies
SPECIFICATION FairSpec
INVARIANTS PolicyKept MenuCoherent
PROPERTIES OnlyShownIsSent ControlsRestored LabelsFollow
