SPECIFICATION Spec
CONSTANTS
  Workers = {w1, w2}
  Sites = {s1}
  Keys = {k1}
  None = None
  Period = 3
  Burst = 2
  Second = 2
  PruneInterval = 1
  MaxTime = 7
INVARIANTS TypeOK RetryAdmitted
PROPERTIES KeepsQuota PruningsApart
SYMMETRY Symmetry
CHECK_DEADLOCK FALSE
