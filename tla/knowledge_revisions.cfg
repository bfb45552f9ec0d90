SPECIFICATION Spec
CONSTANTS
  Docs = {s1, d1, d2}
  Sources = {s1}
  NoDoc = NoDoc
  Messages = {m1}
  Actors = {a1, a2}
  Worker = Worker
  Kinds = {"propose", "review", "promote"}
  Asked = {"approved"}
  MaxOps = 5
  Depth = 9
SYMMETRY Symmetry
INVARIANT OneWinner
INVARIANT BaseRetired
PROPERTY ReviewedAsSeen
CHECK_DEADLOCK FALSE
