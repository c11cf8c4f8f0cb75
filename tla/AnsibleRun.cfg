\* A playbook of two hosts and up to two task results, five lines or ten
\* chunks, through a socket that holds two; one chunk more than the ingest takes.
CONSTANTS
  Hosts <- MCHosts
  MaxTasks = 2
  MaxIngest = 9
  SockCap = 2
SPECIFICATION FairSpec
CHECK_DEADLOCK FALSE
INVARIANTS
  RunLandsWhole
  RecapTellsTheTasks
PROPERTIES
  PlaybookFree
