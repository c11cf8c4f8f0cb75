\* Two chunks of output and a socket that holds one, with fairness.
CONSTANTS
  MaxOutput = 2
  SockCap = 1
SPECIFICATION FairSpec
CHECK_DEADLOCK FALSE
INVARIANTS
  OutputKept
PROPERTIES
  LoginNotBlocked
  RunReturnsUnlessWedged
