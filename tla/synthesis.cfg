SPECIFICATION FairSpec
CONSTANTS
  Jobs = {j1, j2}
  Workers = {w1, w2}
  NoWorker = NoWorker
  Batches = 2
  Budget = 1
  MaxAttempts = 2
  MaxInferences = 4
  MaxEdits = 1
  MaxCrashes = 1
  MaxFaults = 2
  MaxLockLosses = 1
  MaxTroubles = 3
INVARIANT BudgetBounded
INVARIANT OneProposal
PROPERTY ClosedPublishesNothing
PROPERTY EventuallySettled
CHECK_DEADLOCK FALSE
