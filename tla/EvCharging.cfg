SPECIFICATION FairSpec
CONSTANTS
  None = None
  Connector = {k1, k2}
  Remote = {k1, k2}
  Roaming = {k2}
  Hold = {h1}
  Session = {s1}
  Call = {c1, c2}
  MaxPass = 2
  MaxTries = 2
CHECK_DEADLOCK FALSE
INVARIANTS
  BaysAreAccountedFor
  BilledOnce
  EveryEarningIsBooked
  PointsFollowTheBill
PROPERTY EveryBayComesBack
