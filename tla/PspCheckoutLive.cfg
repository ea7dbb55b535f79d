CONSTANTS
  Purchase = {p1}
  Bill = {b1}
  Staff = {s1, s2}
  MaxTries = 3
  None = None
SPECIFICATION FairSpec
CHECK_DEADLOCK FALSE
PROPERTIES
  PaidBillIsAnswered
  OrphanHoldReturns
