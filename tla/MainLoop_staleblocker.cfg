\* Does a tick of a paused or cancelled loop still run a queued blocker?
CONSTANTS
  NULL = NULL
  Funcs = {f1}
  FPS = {0}
  Modes = {1}
  TimingValues = {1}
  ExpectedValues = {1}
  FrameStart = {0}
  CanThrow = FALSE
  MaxGen = 3
  MaxQueue = 1
  MaxUncounted = 1
  MaxTicks = 4

INIT Init
NEXT Next

PROPERTY StaleTickRunsNoBlocker

CHECK_DEADLOCK FALSE
