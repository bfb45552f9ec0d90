SPECIFICATION FairSpec
CONSTANTS
  Calls = {c1, c2}
  Workers = {w1, w2}
  Actors = {"u1"}
  RequestIds = {"q1", "q2"}
  Texts = {t1, t2}
  NoText = NoText
  Limit = 1
  MaxAttempts = 2
  MaxJobs = 2
  MaxOwner = 1
  MaxCrashes = 1
  MaxStalls = 1
  MaxFaults = 1
  MaxTroubles = 2
INVARIANT AdmissionBounded
INVARIANT SubmissionsAgree
INVARIANT CompletedHasDocument
PROPERTY TakeoverFenced
PROPERTY LifecycleKept
PROPERTY EventuallySettled
CHECK_DEADLOCK FALSE
