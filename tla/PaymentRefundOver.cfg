CONSTANTS
  Refund = {r1, r2, r3}
  Amount = 2
  Sweeper = {s1}
  Settler = {}
  None = None
SPECIFICATION Spec
CHECK_DEADLOCK FALSE
INVARIANT RefundedWithinCaptured
