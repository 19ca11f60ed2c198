\* Does pause(); pause(); resume() leave the loop paused?
CONSTANTS
  NULL = NULL
  Funcs = {f1}
  FPS = {0}
  Modes = {1}
  TimingValues = {1}
  ExpectedValues = {1}
  FrameStart = {0}
  CanThrow = FALSE
  MaxGen = 3
  MaxQueue = 0
  MaxUncounted = 1
  MaxTicks = 4

INIT Init
NEXT Next

INVARIANT PauseDepthHonoured

CHECK_DEADLOCK FALSE
