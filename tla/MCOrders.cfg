SPECIFICATION Spec
CONSTANTS
  ProductIds = {p1, p2}
  OrderIds = {o1, o2}
  Users = {u1, u2}
  Slugs = {s1, s2}
  Hidden = {draft}
  Handlers = {h1, h2}
  None = None
INVARIANTS TypeOK OrdersComplete SuccessWasWritten
SYMMETRY Symmetry
CHECK_DEADLOCK FALSE
