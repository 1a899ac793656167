SPECIFICATION GateSpec
CONSTANTS
  Sessions = {a}
  MaxBlocks = 3
  OneSecond = 2
  EnvArmed = {a}
  Skews = {3}
  None = None
  Corrupt = Corrupt
  MaxTime = 10
CHECK_DEADLOCK FALSE
INVARIANTS GateTypeOK GateInv BlockLimit SkipOnceIfRecorded DemandNearNow OneShot AnswerCounts NextWindowIsTold
