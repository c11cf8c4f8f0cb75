\* Seven recordings of two users, five steps of the others, two workers.
CONSTANTS
  Recordings <- Store
  Commands <- Typed
  Trace <- Lines
  ChunkIds = {1, 2, 3}
  Workers = 2
  MaxSnip = 1
  Slack = 1
  Jump = 3
  MaxNow = 3
  MaxEnv = 5
  GroupGap = 1
  MaxTreeDepth = 2
  RetryThreshold = 2
  RetryWindow = 2
  TopLatency = 2
  MaxOutputBytes = 2
  Second = 2
SPECIFICATION FairToolsSpec
CHECK_DEADLOCK FALSE
INVARIANTS
  SearchFaithful
  TreeKeepsSpans
  AnalysisFaithful
  IncomingGroups
PROPERTIES
  PruneSparesRunning
