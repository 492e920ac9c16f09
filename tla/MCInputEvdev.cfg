CONSTANTS
  Devices = {0, 1}
  Rank <- MCRank
  Keys = {"Esc", "R1"}
  KeysOf <- MCKeysOf
  AxisDevices = {1}
  Axis <- MCAxis
  Positions = {0, 2}
  IntMax = 127
  LowKeys = {"Esc"}
  KeyAction <- MCKeyAction
  MaxSources = 2
  CandidateCap = 2
  BufCap = 2
  QueueCap = 3
  MaxKeys = 3
  MaxPlugs = 1
  MaxRescans = 1
SPECIFICATION Spec
INVARIANTS TypeOK HeldIsTheTruth FrameFollowsStick DesyncOnlyAfterRelapse EveryPressOnce
PROPERTIES PressesArrive
