CONSTANTS
  Grants = {g1, g2}
  Callers = {c1, c2}
  None = None
  MaxRotations = 2
SPECIFICATION Spec
CHECK_DEADLOCK FALSE
INVARIANT ExpiredForCause
