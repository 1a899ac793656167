SPECIFICATION Spec
CONSTANTS
  s1 = s1
  s2 = s2
  s3 = s3
  Sessions = {s1, s2, s3}
  Confirmers = {c1}
  Hooks = {h1}
  Worker = Worker
  Adopter = Adopter
  None = None
  Torn = Torn
  ConfiguredModes = {"automatic"}
  MaxOps = 2
  MaxRequests = 1
  Budget <- MixedBudget
CHECK_DEADLOCK FALSE
SYMMETRY ThreadSymmetry
INVARIANTS OwnershipInv CompletedIsOwn AutoCompletedWasAdopted
PROPERTIES ManualNeverTypesAlone RefinesRollover
