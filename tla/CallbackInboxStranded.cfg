CONSTANTS
  Callback = {c1}
  Bill = {b1}
  BillOf <- MCBillOf
  Worker = {w1}
  MaxAttempts = 2
  BatchSize = 1
  None = None
SPECIFICATION FairSpec
CHECK_DEADLOCK FALSE
PROPERTY NeverStranded
