\* The pause/abort-aware timers with other registrations around them, and
\* two audio preloads whose fallback timer is one of those timers.
CONSTANTS
  MaxRegs = 3
  MaxTicks = 2
  MaxHandles = 2
  MaxEvents = 2

SPECIFICATION AudioSpec

INVARIANT OneShotExactlyOnce
INVARIANT SettlesOnce
INVARIANT Encode64MatchesReference
PROPERTY AudioEventuallySettles

CHECK_DEADLOCK FALSE
