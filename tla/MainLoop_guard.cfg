\* The generation guard, and MainLoop implementing MainLoopContract: start,
\* pause, resume, cancel, restart with another function, timing changes and
\* aborts, from the page and from inside a tick, with a blocker and
\* throwing ticks.
CONSTANTS
  NULL = NULL
  Funcs = {f1, f2}
  FPS = {0}
  Modes = {0, 1}
  TimingValues = {1, 2}
  ExpectedValues = {0}
  FrameStart = {0}
  CanThrow = TRUE
  MaxGen = 3
  MaxQueue = 1
  MaxUncounted = 1
  MaxTicks = 4

INIT Init
NEXT Next
SYMMETRY FuncSymmetry

INVARIANT SingleLiveChain
INVARIANT LiveChainRunsCurrentFunc
INVARIANT PausedMeansQuiescent
PROPERTY ContractSpec

CHECK_DEADLOCK FALSE
