SPECIFICATION FairSpec
CONSTANTS
  Docs = {s1, d1}
  Sources = {s1}
  NoDoc = NoDoc
  Messages = {m1}
  Actors = {a1, a2}
  Worker = Worker
  Kinds = {"propose", "review", "api"}
  Asked = {"approved", "archived", "rejected"}
  MaxOps = 4
  Depth = 9
INVARIANT AuditMatches
PROPERTY StaleWithdrawn
CHECK_DEADLOCK FALSE
