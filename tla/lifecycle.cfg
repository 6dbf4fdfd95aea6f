SPECIFICATION Spec
CONSTANTS
  NULL = NULL
  e1 = e1
  e2 = e2
  h1 = h1
  h2 = h2
  Envelope = {e1}
  Deploy = {e1}
  Hash = {h1, h2}
  Lower <- AsWritten
  Matches <- TwoEncodings
  Confirm = {c1, c2}
  Poll = {p1}
  MaxDeployments = 2
SYMMETRY RequestSymmetry
INVARIANTS
  TypeOK
  FinalMeansFinalized
  ExposedMeansReturned
  TrackedIdIsOwn
  ConfirmedIsIndexed
PROPERTIES
  ConsumedForGood
  OnlyOlderTakesBack
CHECK_DEADLOCK FALSE
