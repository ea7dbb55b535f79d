CONSTANTS
  Purchase = {p1}
  Bill = {b1}
  Staff = {}
  MaxTries = 1
  None = None
SPECIFICATION FairSpec
CHECK_DEADLOCK FALSE
PROPERTY OverdueIsClosed
