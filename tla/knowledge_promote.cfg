SPECIFICATION Spec
CONSTANTS
  Docs = {s1, d1}
  Sources = {s1}
  NoDoc = NoDoc
  Messages = {m1}
  Actors = {a1, a2}
  Worker = Worker
  Kinds = {"promote", "review"}
  Asked = {"proposed", "approved", "superseded"}
  MaxOps = 3
  Depth = 9
INVARIANT AuditMatches
CHECK_DEADLOCK FALSE
