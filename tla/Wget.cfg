\* Three downloads of any kind, loaded with 200, 404 or 0, failing, or
\* aborted with any handle issued so far.
CONSTANTS
  MaxReqs = 3
  Statuses = {0, 200, 404}

SPECIFICATION Spec

INVARIANT TableTracksInFlight

CHECK_DEADLOCK FALSE
