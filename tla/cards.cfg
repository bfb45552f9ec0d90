SPECIFICATION Spec
CONSTANTS
  Users = {u1, u2}
  Docs = {d1, d2}
  NoDoc = NoDoc
  Pressable <- SomeButtons
  MaxMountings = 2
  MaxSends = 2
  MaxTroubles = 1
SYMMETRY Symmetry
INVARIANT DecidedOnce
INVARIANT OneSend
CHECK_DEADLOCK FALSE
