SPECIFICATION Spec
CONSTANTS
  Ids = {i1, i2}
  Emails = {e1, e2, e3}
  Tokens = {t1, t2, t3}
  Handlers = {h1, h2}
  None = None
INVARIANTS TypeOK EmailProven SingleUse
SYMMETRY Symmetry
CHECK_DEADLOCK FALSE
