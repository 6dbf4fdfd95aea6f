SPECIFICATION WillingSpec
CONSTANTS
  NULL = NULL
  Party = {owner, counterparty, stranger}
  Owner = owner
  Counterparty = counterparty
  Amount = 2
  Surplus = {0, 1}
  Value = {0, 2, 3}
  Source = {s1, s2}
  Reference = {r1, r2}
  MaxOpen = 2
PROPERTIES
  DisputesAreResolved
CHECK_DEADLOCK FALSE
