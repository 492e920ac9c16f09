CONSTANTS
  MaxScripts = 5
  MaxFaults = 3
SPECIFICATION OwnershipSpec
INVARIANTS StopRestores NothingLost RendererAlone
CHECK_DEADLOCK FALSE
