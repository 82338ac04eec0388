SPECIFICATION Spec
CONSTANTS
  Requests = {r1, r2}
  Copies = {c1, c2}
  Window = 2
  Retention = 4
  Skew = 1
  MaxWait = 1
  MaxTime = 9
SYMMETRY MCSymmetry
CHECK_DEADLOCK FALSE
INVARIANT AtMostOnce
INVARIANT OnlyReplaysRefused
