CONSTANTS
  Purchase = {p1, p2}
  Bill = {b1, b2}
  Staff = {s1, s2}
  MaxTries = 1
  None = None
SPECIFICATION Spec
SYMMETRY Symmetric
CHECK_DEADLOCK FALSE
INVARIANTS
  TypeOK
  MoneyFollowsPurchase
  EconomicsFollowPurchase
  ChargedIsNotAbandoned
  OneMoneyRoute
  ManualTakesTwo
PROPERTIES
  AnswerIsFinal
  TimeNeverResolves
