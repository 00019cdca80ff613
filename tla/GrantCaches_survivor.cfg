CONSTANTS
  c1 = c1
  g1 = g1
  Sessions = {s2, s3}
  Migrations = 2
  MaxWork = 1
  Creds = {c2}
  Grants = {g1}
  GrantOf <- OneGrant
  Expiry <- Lifetimes
  Scopes = {s1}
  Requests = {r1, r2}
  None = None
  Split = FALSE
  Lossy = FALSE
  CacheFor = 1
  TokenFor = 2
  Margin = 0
  Tolerance = 1
  Lag = 1
  Rounding = 0
  MaxClock = 4
SPECIFICATION MCSpec
CHECK_DEADLOCK FALSE
INVARIANT NoTokenSurvives
