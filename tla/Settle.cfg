SPECIFICATION CooperativeSpec
CONSTANTS
  s1 = s1
  s2 = s2
  s3 = s3
  Sessions = {s1, s2}
  Confirmers = {c1, c2}
  Hooks = {h1}
  Worker = Worker
  Adopter = Adopter
  None = None
  Torn = Torn
  ConfiguredModes = {"automatic"}
  MaxOps = 1
  MaxRequests = 1
  Budget <- SettleBudget
CHECK_DEADLOCK FALSE
PROPERTIES SwitchSettles
