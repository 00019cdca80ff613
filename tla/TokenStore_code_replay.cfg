CONSTANTS
  Codes = {c1}
  Grants = {g1}
  Tokens = {t1}
  Requests = {p1, p2}
  None = None
  SharedStore = TRUE
  Expiring = {}
SPECIFICATION Spec
INVARIANT CodeReplayEndsGrant
