CONSTANTS
  Callers = {"a", "b"}
  MaxNoise = 1
SPECIFICATION BridgeSpec
INVARIANTS OwnOutput RunsTwiceOnlyIfResent
PROPERTY CallsEndAndRun
