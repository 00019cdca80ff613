CONSTANTS
  c2 = c2
  c3 = c3
  g1 = g1
  g2 = g2
  Proofs = {p1}
  Skew = 1
  MaxAge = 6
  ClockTolerance = 1
  Remembered = 12
  Delay = 1
  MaxTime = 12
  Processes = {c2, c3}
  MaxPeppers = 4
  Posts = {q1}
  Tools = {"list_devices", "control_device", "show_auth", "unknown"}
  TokenScopes = {{"devices:read"}, {"devices:read", "devices:control"}}
  MaxCalls = 2
  MaxRotations = 2
  Devices = {d1, d2}
  Calls = {k1, k2}
  MaxVersion = 2
  Creds = {c2, c3}
  Grants = {g1, g2}
  GrantOf <- TwoGrants
  Expiry <- Lifetimes
  Scopes = {s1, s2}
  Requests = {r1, r2}
  None = None
  Split = FALSE
  Lossy = FALSE
  CacheFor = 1
  TokenFor = 2
  Margin = 0
  Tolerance = 0
  Lag = 0
  Rounding = 0
  MaxClock = 0
SPECIFICATION MCSpec
SYMMETRY Symmetry
CHECK_DEADLOCK FALSE
INVARIANTS
  ServedAsOneself
  NoProofTwice
  LoadedVerifies
  NothingRidesAlong
  TheftNeedsLoss
PROPERTIES
  ImplementsAccount
  ShownNeverGoesBack
