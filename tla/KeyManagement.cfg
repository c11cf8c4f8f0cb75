\* Three keys, casts and runs of other kinds.
CONSTANTS
  MaxKeys = 3
  Kinds = {"cast", "ansible"}
SPECIFICATION FairSpec
CHECK_DEADLOCK FALSE
INVARIANTS
  CastsUnderOneKey
PROPERTIES
  KeyServes
