CONSTANTS
  Clients = {c1, c2}
  Pids = {1}
  Interval = 2
  MaxClock = 4
  MaxCalls = 3
  MaxStarts = 1
  MaxFaults = 1
SPECIFICATION Spec
INVARIANT AcceptedAreSpaced
CHECK_DEADLOCK FALSE
