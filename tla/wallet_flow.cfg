SPECIFICATION Spec
CONSTANTS
  NULL = NULL
  message = message
  other = other
  wallet = wallet
  friend = friend
  source = source
  method = method
  empty = empty
  new = new
  old = old
  zero = zero
  consensus = consensus
  e1 = e1
  e2 = e2
  f1 = f1
  f2 = f2
  Address = {wallet, friend, zero, consensus}
  ZeroAddress = zero
  ConsensusContract = consensus
  Calldata = {source, method, empty}
  Empty = empty
  Release = {new, old}
  MaxTransferAmount = 4
  Wallet = wallet
  Flow = {f1, f2}
  Envelope = {e1, e2}
  MaxSent = 2
  Network = {"studionet", "localnet"}
  Message = {message, other}
  World <- Worlds
  OtherPrice = {9}
SYMMETRY Slots
INVARIANTS
  TypeOK
  ConfirmedIsReviewed
  AskedIsConfirmable
  DeploymentsAreSentOnce
PROPERTY ImplementsReviewedOrders
