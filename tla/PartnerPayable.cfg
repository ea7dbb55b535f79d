SPECIFICATION Spec
CONSTANTS
  None = None
  Sale = {2}
  Refund = {1}
  MaxSales = 2
  Source = {s1, s2, p1, k1}
  Settlement = {s1, s2}
  Person = {a, b}
  Ref = {r1}
  Call = {c1}
  MaxTries = 1
  Payout = {p1}
  Collection = {k1}
SYMMETRY Symmetric
INVARIANT EveryMoveHasItsRow
CHECK_DEADLOCK FALSE
