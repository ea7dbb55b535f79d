CONSTANTS
  Callback = {c1, c2}
  Bill = {b1}
  BillOf <- MCBillOf
  Worker = {w1, w2}
  MaxAttempts = 2
  BatchSize = 2
  None = None
SPECIFICATION FairSpec
CHECK_DEADLOCK FALSE
INVARIANTS
  TypeOK
PROPERTIES
  ImplementsDurableWork
  EveryCallbackEnds
