CONSTANTS
  Refund = {r1, r2}
  Amount = 2
  Sweeper = {s1}
  Settler = {}
  None = None
SPECIFICATION FairSpec
CHECK_DEADLOCK FALSE
PROPERTY DecisionReachesTheBooks
