\* Pause or abort with callbacks queued, then resume.
CONSTANTS
  MaxRegs = 2
  MaxTicks = 0
SPECIFICATION Spec
PROPERTY
  NoCallbackWhilePaused
CHECK_DEADLOCK FALSE
