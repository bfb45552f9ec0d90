SPECIFICATION FairSpec
CONSTANTS
  Clients = {c1, c2}
  Publishers = {p1}
  Keys = {k1}
  NoKey = NoKey
  Requests = {r1, r2}
  Revisions = {r2}
  NoRequest = NoRequest
  MaxRequests = 2
  BackoffSteps = 1
  BackoffCap = 1
  MaxCrashes = 1
  MaxOutages = 1
  MaxForeign = 1
INVARIANT TypeOK
INVARIANT RetriesAgree
INVARIANT OneEventPerKey
INVARIANT PublishedHasArtifact
PROPERTY ArtifactImmutable
PROPERTY AuditLogSpec
PROPERTY EventuallyPublished
CHECK_DEADLOCK FALSE
