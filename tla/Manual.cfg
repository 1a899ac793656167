SPECIFICATION Spec
CONSTANTS
  s1 = s1
  s2 = s2
  s3 = s3
  Sessions = {s1, s2, s3}
  Confirmers = {c1, c2}
  Hooks = {}
  Worker = Worker
  Adopter = Adopter
  None = None
  Torn = Torn
  ConfiguredModes = {"manual"}
  MaxOps = 2
  MaxRequests = 0
  Budget <- ManualBudget
CHECK_DEADLOCK FALSE
SYMMETRY ThreadSymmetry
INVARIANTS TypeOK SafetyInv SwitchNamesBinding ReceiptNamesBinding SwitchCreateIsExclusive
PROPERTIES SwitchEndHasReceipt BindingMovesOnlyUnderSwitch PendingClearedWhenBound RefinesCreatedFiles
