SPECIFICATION PageSpec
CONSTANTS
  home = home
  other = other
  d1 = d1
  d2 = d2
  Channels = {home, other}
  First = home
  NoChannel = NoChannel
  RoleIn <- AdminAtHome
  Documents = {d1, d2}
  NoDocument = NoDocument
  ChannelOf <- OneDocumentEach
  Texts = {x, y}
  NoText = NoText
  Slots = {k1, k2}
  MaxClicks = 5
  MaxReviews = 1
  MaxRuns = 1
  MaxReloads = 1
  MaxPageTroubles = 1
SYMMETRY Symmetry
INVARIANT ReviewsInScope
INVARIANT OneUnackedJob
PROPERTY CancelledStays
CHECK_DEADLOCK FALSE
