SPECIFICATION SettlementSpec
CONSTANTS
  None = None
  Sale = {2}
  Refund = {1}
  MaxSales = 1
  Source = {s1}
  Settlement = {s1}
  Person = {a, b}
  Ref = {r1, r2}
  Call = {c1, c2}
  MaxTries = 3
PROPERTY ProposedForThisDoubt
CHECK_DEADLOCK FALSE
