CONSTANTS
  c1 = c1
  g1 = g1
  Sessions = {s2, s3}
  Migrations = 2
  MaxWork = 1
  Creds = {c1, c2}
  Grants = {g1}
  GrantOf <- OneGrant
  Expiry <- Lifetimes
  Scopes = {s1}
  Requests = {r1, r2}
  None = None
  Split = TRUE
  Lossy = TRUE
  CacheFor = 1
  TokenFor = 3
  Margin = 0
  Tolerance = 0
  Lag = 1
  Rounding = 1
  MaxClock = 4
SPECIFICATION MCSpec
SYMMETRY Symmetry
CHECK_DEADLOCK FALSE
INVARIANTS
  RevokedIsTurnedAway
  ServiceEndsAfterRevocation
  ServiceEndsWithCredential
  RefusedTwiceMeansLate
  MigrationsInTurn
  NothingCommitsLater
