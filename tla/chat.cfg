SPECIFICATION FairSpec
CONSTANTS
  Commands = {c1}
  Asks = {c1}
  Workers = {w1, w2}
  NoWorker = NoWorker
  MaxAttempts = 2
  MaxRuns = 3
  MaxChanges = 1
  MaxCrashes = 1
  MaxFaults = 2
  MaxLockLosses = 1
  MaxTroubles = 2
INVARIANT OneReply
PROPERTY StaleAnswerKept
PROPERTY EventuallyHandled
CHECK_DEADLOCK FALSE
