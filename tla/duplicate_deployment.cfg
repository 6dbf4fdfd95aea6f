SPECIFICATION Spec
CONSTANTS
  NULL = NULL
  e1 = e1
  e2 = e2
  h1 = h1
  h2 = h2
  Envelope = {e1}
  Deploy = {e1}
  Hash = {h1}
  Lower <- AsWritten
  Matches <- OneToOne
  Confirm = {c1, c2}
  Poll = {}
  MaxDeployments = 2
INVARIANTS
  OneDeploymentPerHash
CHECK_DEADLOCK FALSE
