\* Date.now() is wall-clock time and may step back (here by 30 ms).
CONSTANTS
  ClockSteps <- ClockStepsBack
  MaxNow = 60
  NoDelay = NoDelay
SPECIFICATION Spec
INVARIANT
  DelayWithinOneFrame
CHECK_DEADLOCK FALSE
