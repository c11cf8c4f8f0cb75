\* Two auto-named recordings, swept by any number of daemons; a zone in which the
\* user's time is behind the daemon's, one ahead, and a clock set forward.
CONSTANTS
  Recs = {r1, r2}
  Names = {n1, n2}
  Custom = {}
  MaxLen = 2
  Zones <- MCZones
  Slack = 0
  MaxShift = 1
  None = None
SPECIFICATION Spec
SYMMETRY Symmetry
CHECK_DEADLOCK FALSE
INVARIANTS
  NothingHalfVisible
  StoredBeforeRemoved
