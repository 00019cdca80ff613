CONSTANTS
  Sessions = {s1, s2}
  Grants = {g1}
  Requests = {r1, r2}
  None = None
  MaxPassword = 3
  Challenges = {c1, c2, c3}
  Accounts = {a1}
  Browsers = {b1}
  Keys = {k1, k2, k3}
  Maker <- OneMaker
  Cap = 1
  MaxCount = 2
  Devices = {d1}
  PerGrant = 2
  PerDevice = 2
  Window = 2
  Latency = 1
  MaxTime = 4
  MaxHits = 2
SPECIFICATION MCSpec
SYMMETRY Symmetry
CHECK_DEADLOCK FALSE
INVARIANTS
  OldSessionsWereUnderWay
  SignOutEndsWhatItFound
  AcceptedInOrder
  PasskeysNearlyCapped
  AtMostTwice
