SPECIFICATION Spec
CONSTANTS
  Commands = {c1}
  ToolCalls = {t1}
  ToolsOf <- AskOrSearch
  Docs = {d1, d2}
  MaxCitations = 1
  MaxInFlight = 2
  Window = 1
  CacheLimit = 3
  Skew = 0
  MaxTime = 2
  MaxChanges = 1
  MaxRoles = 1
  Resent = {t1}
  MaxTroubles = 1
SYMMETRY Symmetry
INVARIANT ProofUsedOnce
INVARIANT FreshNotRefused
INVARIANT SlotsAccounted
PROPERTY ReleasedHolds
CHECK_DEADLOCK FALSE
