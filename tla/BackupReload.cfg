\* Two edits out of four texts, read half-way or whole, and two rotations of
\* the log.
CONSTANTS
  Texts <- MCTexts
  Env <- MCEnv
  MaxEdits = 2
  MaxRotations = 2
SPECIFICATION FairSpec
CONSTRAINT Budget
CHECK_DEADLOCK FALSE
INVARIANTS
  AnnouncedInForce
  LogFollowsRotation
  WarnsOfIgnored
