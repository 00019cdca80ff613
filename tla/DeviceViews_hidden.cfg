CONSTANTS
  Devices = {d1}
  Calls = {k1, k2}
  None = None
  MaxVersion = 3
SPECIFICATION Spec
CHECK_DEADLOCK FALSE
INVARIANT ShowsWhatItHas
