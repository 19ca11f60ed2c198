\* The blocker queue and its progress accounting: counted and uncounted
\* blockers pushed from the page or from running ticks, expected counts
\* reset at any time, pauses and resumes while blockers are queued; and,
\* under the host's fairness in delivering armed callbacks and payloads
\* that return, that queued blockers run.  Ticks do not throw here (a
\* throw ends the chain, which the guard run covers).
CONSTANTS
  NULL = NULL
  Funcs = {f1}
  FPS = {0}
  Modes = {1}
  TimingValues = {1}
  ExpectedValues = {1, 2}
  FrameStart = {0}
  CanThrow = FALSE
  MaxGen = 2
  MaxQueue = 2
  MaxUncounted = 2
  MaxTicks = 5

SPECIFICATION Spec

INVARIANT TypeOK
INVARIANT ProgressMatchesCountedDrains
PROPERTY BlockersEventuallyRun

CHECK_DEADLOCK FALSE
