CONSTANTS
  Codes = {c1, c2}
  Grants = {g1, g2}
  Tokens = {t1, t2, t3}
  Requests = {p1, p2}
  None = None
  SharedStore = TRUE
  Expiring = {c1, c2, t1, t2, t3}
SPECIFICATION MCSpec
SYMMETRY Symmetry
INVARIANTS
  TypeOK
  NoFork
  OneGrantPerCode
  AnswersAgree
  SealedBeforeVisible
  EndedGrantAnswersNothing
  HonestDuplicateIsSafe
  ReplayEndsItsOwnGrant
  RevokedIsAnnounced
PROPERTY ImplementsFamily
