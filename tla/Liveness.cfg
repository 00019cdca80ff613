CONSTANTS
  Codes = {c1}
  Grants = {g1}
  Tokens = {t1, t2}
  Requests = {p1, p2}
  None = None
  SharedStore = FALSE
  Expiring = {}
  t1 = t1
  t2 = t2
  d1 = d1
  w1 = w1
  w2 = w2
SPECIFICATION MCSpec
PROPERTIES
  RequestsFinish
  NoSwitchIsStuck
