SPECIFICATION GateSpec
CONSTANTS
  Sessions = {a}
  MaxBlocks = 3
  OneSecond = 1
  EnvArmed = {}
  Skews = {}
  None = None
  Corrupt = Corrupt
  MaxTime = 7
CHECK_DEADLOCK FALSE
PROPERTY NoticeMeansNoLetter
