SPECIFICATION FairSpec
CONSTANTS
  Entries = {e1, e2}
  Raw = {e2}
  Projectors = {p1}
  MaxAttempts = 2
  MaxAdds = 5
  MaxQueued = 1
  MaxReviews = 1
  MaxRequeues = 1
  MaxCrashes = 1
  MaxFaults = 2
  MaxTroubles = 2
INVARIANT ReconciledIsReal
INVARIANT OneInFlight
PROPERTY EventuallyProjected
CHECK_DEADLOCK FALSE
