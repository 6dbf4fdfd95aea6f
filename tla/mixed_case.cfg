SPECIFICATION Spec
CONSTANTS
  NULL = NULL
  e1 = e1
  e2 = e2
  h1 = h1
  h2 = h2
  Envelope = {e1, e2}
  Deploy = {}
  Hash = {h1, h2}
  Lower <- MixedCase
  Matches <- SharedHash
  Confirm = {c1}
  Poll = {}
  MaxDeployments = 2
INVARIANTS
  OneEnvelopePerTransaction
CHECK_DEADLOCK FALSE
