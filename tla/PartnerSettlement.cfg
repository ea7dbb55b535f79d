SPECIFICATION SettlementSpec
CONSTANTS
  None = None
  Sale = {2}
  Refund = {1}
  MaxSales = 2
  Source = {s1, s2}
  Settlement = {s1, s2}
  Person = {a, b}
  Ref = {r1, r2}
  Call = {c1, c2}
  MaxTries = 1
SYMMETRY Symmetric
INVARIANTS
  LedgerAgrees
  PaidOnce
  AttemptProvesPayment
PROPERTIES
  ResolvedByTwo
CHECK_DEADLOCK FALSE
