SPECIFICATION FairEventSpec
CONSTANTS
  MaxEvents = 1
  Files = {"f1"}
  FilesOf <- OneMessage
  Replicas = {r1, r2}
  MaxVersion = 2
  MaxEventAttempts = 2
  MaxChanges = 2
  MaxEventTroubles = 2
  MaxDisturbances = 3
INVARIANT StaysIndexed
PROPERTY EvidenceRemoved
PROPERTY EventuallyCaptured
CHECK_DEADLOCK FALSE
