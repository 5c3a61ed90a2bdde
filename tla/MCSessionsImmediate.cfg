SPECIFICATION Spec
CONSTANTS
  Users = {u1}
  Roles = {user}
  Requests = {r1, r2}
  Logins = {l1}
  Writers = {w1}
  None = None
  CacheTTL = 1
  ReadBound = 1
  Lifetime = 3
  MaxTokens = 1
  MaxTime = 2
PROPERTIES EffectiveImmediately
SYMMETRY Symmetry
CHECK_DEADLOCK FALSE
