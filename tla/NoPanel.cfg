SPECIFICATION CooperativeSpec
CONSTANTS
  s1 = s1
  s2 = s2
  s3 = s3
  Sessions = {s1, s2, s3}
  Confirmers = {c1}
  Hooks = {}
  Worker = Worker
  Adopter = Adopter
  None = None
  Torn = Torn
  ConfiguredModes = {"manual"}
  MaxOps = 1
  MaxRequests = 0
  Budget <- ResumeBudget
CHECK_DEADLOCK FALSE
PROPERTY PanelComesBack
