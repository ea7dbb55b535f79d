SPECIFICATION Spec
CONSTANTS
  None = None
  Approver = {a, b}
  Person = {a, b, cashier}
  Request = {r}
  Direct = {d}
  Call = {c1, c2}
  Gross = 2
  Amount = {1}
  MaxFaults = 2
  Pool = 2
  Earned = 1
  Bonus = 1
SYMMETRY Symmetric
INVARIANTS
  OneRefundPerDecision
CHECK_DEADLOCK FALSE
