CONSTANTS
  Devices = {0}
  Rank <- MCRank
  Keys = {"Esc", "R1"}
  KeysOf <- MCKeysOf
  AxisDevices = {}
  Axis <- MCAxis
  Positions = {0, 2}
  IntMax = 127
  LowKeys = {"Esc"}
  KeyAction <- MCKeyAction
  MaxSources = 1
  CandidateCap = 2
  BufCap = 2
  QueueCap = 3
  MaxKeys = 5
  MaxPlugs = 0
  MaxRescans = 0
SPECIFICATION Spec
PROPERTIES DesyncEnds
