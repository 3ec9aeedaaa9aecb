SPECIFICATION Spec
CHECK_DEADLOCK FALSE
CONSTANTS
  None = None
  Projects = {p1}
  WriteKeys = {w1, w2}
  SecretKeys = {s1, s2}
  Strays = {x}
  Prefix <- MCPrefix
  Requests = {r1}
  CacheTTL = 1
  QueryLimit = 1
  Burst = 1
  TokenCost = 2
  MaxAsks = 2
  Emails = {e1, e2}
  Tokens = {t1, t2}
  Consoles = {c1, c2}
  SessionTTL = 1
  LastInstant = 2
SYMMETRY MCSymmetry
CONSTRAINT MCBound
INVARIANTS TypeOK RefusedForCause AdmissionsBounded ProjectsAccountedFor
PROPERTIES SetupCloses RotatedByOwners KeysKeepPromise
