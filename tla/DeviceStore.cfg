CONSTANTS
  Accounts = {a1, a2}
  Adders = {a1}
  Ids = {d1, d2, d3}
  Names = {n1, n2, n3}
  Keys = {k1}
  Requests = {p1, p2}
  None = None
  Cap = 2
  MaxVersion = 2
SPECIFICATION MCSpec
SYMMETRY Symmetry
INVARIANTS
  TrailIsHistory
  OneChangePerVersion
  AcceptedIsInState
  RepeatsAgree
PROPERTY ImplementsRegister
