SPECIFICATION WalletSpec
CONSTANTS
  Lots = 2
  Most = 2
  Reservation = {h1, h2}
  Sweeper = {s1, s2}
SYMMETRY Symmetric
INVARIANTS
  ReservedIsHeld
  NoPointFromNowhere
  NoPointTwice
PROPERTIES
  HoldEndsOnce
CHECK_DEADLOCK FALSE
