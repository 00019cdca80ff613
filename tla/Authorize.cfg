CONSTANTS
  Cimd = {c1}
  Dcr = {c2}
  App = app
  Accounts = {a1, a2}
  first = a1
  Ids = {k1, k2, k3, k4}
  Cap = 2
  Ttl = 1
  Delay = 1
  MaxNow = 3
  Browsers = {b1}
  Requests = {r1, r2}
  Pendings = {p1, p2, p3}
  Pushes = {q1}
  Scopes = {read, control}
  Reading = read
  None = None
  MaxVersion = 2
SPECIFICATION MCSpec
SYMMETRY Symmetry
INVARIANTS
  TypeOK
  OneOutcome
  CodeWasApproved
  CapNearlyHolds
  DocumentIsRecent
CHECK_DEADLOCK FALSE
