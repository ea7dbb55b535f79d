CONSTANTS
  Refund = {r1}
  Amount = 1
  Sweeper = {s1}
  Settler = {d1}
  None = None
SPECIFICATION Spec
CHECK_DEADLOCK FALSE
INVARIANT ClaimedMeansAccrued
