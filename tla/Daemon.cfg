\* Two connections with any two requests, a cap of one or two that is reloaded
\* at any moment, a shutdown at any moment, and fairness.
CONSTANTS
  Conns = {c1, c2}
  c1 = c1
  c2 = c2
  root = root
  user = user
  id = id
  Root = root
  None = None
  Uids = {root, user}
  Names = {id}
  Caps = {1, 2}
  Requests <- Contested
CONSTRAINT Pairs
SPECIFICATION FairSpec
CHECK_DEADLOCK FALSE
INVARIANTS
  SlotsAccountedFor
  ReplyTellsStorage
  CleanExit
PROPERTIES
  CapHonoured
  StoredNeverClobbered
  SlotReturned
  RunExits
