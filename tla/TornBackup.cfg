SPECIFICATION SharedSpec
CONSTANTS
  UserLines = {"", "small", "tie"}
  BlankLines = {""}
  Originals <- MCOriginals
  NoFile = NoFile
  MaxText = 0
  MaxDeaths = 1
  Files = {Settings, Token, Pending}
  Replaced = {Settings}
  p1 = p1
  p2 = p2
  t1 = t1
  t2 = t2
  k3 = k3
  other = other
  unlisted = unlisted
  Procs = {p1, p2}
  Remover = Remover
  None = None
  Torn = Torn
  Settings = Settings
  Token = Token
  Pending = Pending
  Tokens = {t1, t2}
  Identity = Identity
  Invalid = Invalid
  Thresholds <- MCThresholds
  Values <- MCValues
  Models = {k3, other, unlisted}
  Table <- MCTable
  CapacityLines = {"small", "tie"}
  DeclaredModel = k3
  Declared <- MCDeclared
  Ratios = {5, 70, 99}
  MinTokens = 50000
  MaxTokens = 950000
  StepTokens = 50000
  UnknownMax = 250000
  UnknownDefault = 200000
  NoWire = NoWire
  MaxRows = 2
  MaxCommands = 2
PROPERTY BackedUpFirst
CHECK_DEADLOCK FALSE
