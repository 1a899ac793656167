SPECIFICATION Spec
CONSTANTS
  s1 = s1
  s2 = s2
  s3 = s3
  Sessions = {s1, s2, s3}
  Confirmers = {}
  Hooks = {h1, h2}
  Worker = Worker
  Adopter = Adopter
  None = None
  Torn = Torn
  ConfiguredModes = {"automatic"}
  MaxOps = 2
  MaxRequests = 2
  Budget <- AutomaticBudget
CHECK_DEADLOCK FALSE
PROPERTY TypedOncePerRequest
