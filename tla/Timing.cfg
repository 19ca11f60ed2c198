\* One loop started at 50 fps (20 ms) or on rAF, retimed to 10 ms, to
\* intervals 1 and 2, or to setImmediate; the C function takes 0 or 25 ms
\* (longer than a frame and than either delay).
CONSTANTS
  ClockSteps = {7}
  MaxNow = 7
  NoDelay = NoDelay
  FpsDelays = {0, 20}
  Delays = {10}
  Intervals = {1, 2}
  Durations = {0, 25}
  MaxTicks = 3
  MaxOther = 1
  MaxForeign = 1
  MaxTime = 120
  NoScheduler = NoScheduler
  Undefined = Undefined
SPECIFICATION TimingSpec
INVARIANTS
  DelayWithinOneFrame
  OneRunnerPending
PROPERTY
  
  LoopKeepsTicking
CHECK_DEADLOCK FALSE
