SPECIFICATION Spec
CONSTANTS
  Amount = 3
  Required = 2
  Gross = 1
  Purchase = {p1, p2, p3}
SYMMETRY Symmetric
INVARIANT NeverReleasedBeyondBooked
CHECK_DEADLOCK FALSE
