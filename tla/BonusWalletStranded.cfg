SPECIFICATION WalletSpec
CONSTANTS
  Lots = 1
  Most = 2
  Reservation = {h1, h2}
  Sweeper = {s1}
INVARIANTS
  LotsBackBalances
CHECK_DEADLOCK FALSE
