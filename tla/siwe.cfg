SPECIFICATION Spec
CONSTANTS
  NULL = NULL
  Wallet = {w1, w2}
  Nonce = {n1, n2, n3}
  RowId = {r1, r2}
  Ask = {a1, a2}
  Verify = {v1, v2}
SYMMETRY Symmetry
INVARIANTS
  TypeOK
  OneTokenPerChallenge
  TokenWasSigned
  TokenHasOneUser
PROPERTIES
  ImplementsOneShot
CHECK_DEADLOCK FALSE
