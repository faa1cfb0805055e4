CONSTANTS
  Keys = {k1, k2}
  Callers = {c1}
  Starters = {s1, s2}
  Ttl = 1
  CheckoutTtl = 2
  MaxNow = 2
SPECIFICATION Spec
SYMMETRY Symmetry
CHECK_DEADLOCK FALSE
INVARIANTS AtMostOneChargeable
