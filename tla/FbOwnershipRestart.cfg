CONSTANTS
  MaxScripts = 3
  MaxFaults = 1
SPECIFICATION OwnershipSpec
INVARIANT StopSaysRestored
CHECK_DEADLOCK FALSE
