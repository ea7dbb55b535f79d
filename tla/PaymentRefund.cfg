CONSTANTS
  Refund = {r1, r2}
  Amount = 2
  Sweeper = {s1}
  Settler = {d1, d2}
  None = None
SPECIFICATION Spec
SYMMETRY Symmetric
CHECK_DEADLOCK FALSE
INVARIANTS
  TypeOK
  BooksFollowTheBank
  BoundedUnlessReleasedTwice
  PointsIssuedOnce
PROPERTY AnswersStay
