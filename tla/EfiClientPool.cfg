SPECIFICATION FairSpec
CONSTANTS
  Callers = {c1, c2, c3}
  Providers = {p1, p2}
  Configured = {p1}
  NoOne = NoOne
  NoClient = NoClient
CHECK_DEADLOCK FALSE
INVARIANTS TypeOK OneClientPerProvider FilesAccountedFor
PROPERTIES PooledForGood EveryCallReturns
