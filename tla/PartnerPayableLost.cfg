SPECIFICATION Spec
CONSTANTS
  None = None
  Sale = {2}
  Refund = {}
  MaxSales = 1
  Source = {s1, p1, k1}
  Settlement = {s1}
  Person = {a, b}
  Ref = {r1}
  Call = {c1}
  MaxTries = 0
  Payout = {p1}
  Collection = {k1}
INVARIANT RejectedIsReturned
CHECK_DEADLOCK FALSE
