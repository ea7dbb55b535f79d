CONSTANTS
  Purchase = {p1}
  Bill = {b1, b2}
  Staff = {}
  MaxTries = 1
  None = None
SPECIFICATION Spec
CHECK_DEADLOCK FALSE
INVARIANT OneUnresolvedBill
