SPECIFICATION Spec
CONSTANTS
  None = None
  Connector = {k1}
  Remote = {}
  Roaming = {}
  Hold = {h1, h2}
  Session = {s1}
  Call = {c1}
  MaxPass = 0
  MaxTries = 2
CHECK_DEADLOCK FALSE
INVARIANT HoldKeepsItsBay
