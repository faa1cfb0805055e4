CONSTANTS
  Keys = {k1, k2}
  Callers = {c1, c2}
  Starters = {s1, s2}
  Ttl = 1
  CheckoutTtl = 2
  MaxNow = 1
SPECIFICATION Spec
SYMMETRY Symmetry
CHECK_DEADLOCK FALSE
INVARIANTS RequestedOnce OvertakenOnlyIfRequestedLate
PROPERTIES VerdictStands
