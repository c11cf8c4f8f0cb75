\* Four recordings, four events typed or resizes, a channel of one.
CONSTANTS
  Recordings <- Casts
  MaxIdle = 3
  MaxWait = 2
  SeekStep = 2
  ScrollStep = 1
  MaxSpeed = 2
  Height = 3
  Events <- Everything
  Cap = 1
  MaxEvents = 4
SPECIFICATION FairPlayerSpec
CHECK_DEADLOCK FALSE
INVARIANTS
  ScreenFollowsLoop
PROPERTIES
  JumpIsExact
  PlaybackRests
