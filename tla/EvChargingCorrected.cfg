SPECIFICATION Spec
CONSTANTS
  None = None
  Connector = {k1}
  Remote = {k1}
  Roaming = {}
  Hold = {}
  Session = {s1}
  Call = {c1}
  MaxPass = 2
  MaxTries = 2
CHECK_DEADLOCK FALSE
INVARIANT CorrectedIsCorrected
