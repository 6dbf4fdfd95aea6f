SPECIFICATION Spec
CONSTANTS
  NULL = NULL
  a1 = a1
  a2 = a2
  a3 = a3
  s1 = s1
  h1 = h1
  h2 = h2
  owner = owner
  stranger = stranger
  d1 = d1
  d2 = d2
  d3 = d3
  d4 = d4
  Party = {owner, stranger}
  Owner = owner
  Statement = {s1}
  Url <- Urls
  Hash = {h1, h2, d1, d2, d3, d4}
  MaxOpen = 2
  Claim = {a1, a2, a3}
  HexId = {a1, a2}
  Answer <- Answers
  Draft <- Drafts
  ClaimId <- Digests
  Bypass = {d1, d2, d3, d4}
  Direct <- DirectCalls
  Wanted <- Operations
  Poll = {p1, p2}
  MaxRequests = 2
SYMMETRY Symmetry
INVARIANT EvaluationAwaitsSubmission
CHECK_DEADLOCK FALSE
