CONSTANTS
  Refund = {r1, r2}
  Amount = 2
  Sweeper = {s1}
  Settler = {d1}
  None = None
SPECIFICATION Spec
CHECK_DEADLOCK FALSE
INVARIANT PointsReverse
