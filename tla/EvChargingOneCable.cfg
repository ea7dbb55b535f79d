SPECIFICATION Spec
CONSTANTS
  None = None
  Connector = {k1}
  Remote = {}
  Roaming = {}
  Hold = {}
  Session = {s1, s2, s3}
  Call = {c1}
  MaxPass = 0
  MaxTries = 2
SYMMETRY Symmetric
CHECK_DEADLOCK FALSE
INVARIANT OneSessionPerBay
