\* Three scenes; frames of 2, rotation every 5, cooldown 4; the clock's range
\* ends at 18, so that a hold of 40 saturates and the deadline arithmetic
\* reaches its end.
CONSTANTS
  SceneCount = 3
  Origin = 1
  FramePeriod = 2
  ScenePeriod = 5
  MinChange = 4
  Max = 18
  Steps <- MCSteps
  Holds <- MCHolds
SPECIFICATION Spec
INVARIANTS SleepBounded ExhaustedOnlyAtEnd OnGrid
PROPERTIES CutsSpaced HoldKept
CHECK_DEADLOCK FALSE
