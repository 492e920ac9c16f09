\* A fade of three frames of two ticks and a cooldown just longer than it.  A
\* frame may be free, on time or late; the clock ends at 21.
CONSTANTS
  SceneCount = 3
  Origin = 1
  FramePeriod = 2
  ScenePeriod = 8
  MinChange = 7
  Max = 21
  FRAMES = 3
  Works <- MCWorks
  Oversleeps <- MCOversleeps
  SignalHold = 40
  InputHold = 8
SPECIFICATION Spec
INVARIANTS OnTimeFadeIsExclusive TimelySignalKept
PROPERTIES NoHardCut FadeTakesTime
