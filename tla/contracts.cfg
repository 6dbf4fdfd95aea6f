SPECIFICATION Spec
CONSTANTS
  NULL = NULL
  Party = {owner, counterparty, stranger}
  Owner = owner
  Counterparty = counterparty
  Amount = 2
  Surplus = {0, 1}
  Value = {0, 2, 3}
  Source = {s1, s2}
  Reference = {r1, r2}
  MaxOpen = 4
INVARIANTS
  TypeOK
  BooksMatchMoney
  PayoutIsEarned
  OnlyGatesRefuse
PROPERTIES
  ImplementsCustody
  FinalDecisionsStay
CHECK_DEADLOCK FALSE
