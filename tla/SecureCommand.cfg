SPECIFICATION Spec
CONSTANTS
  Callers = {c1, c2}
  Admins = {a1, a2}
  Workers = {w1, w2}
  MaxAttempts = 2
SYMMETRY Symmetry
INVARIANTS RetryOnlyBeforeHandler AtMostOneRun LedgerConsistent ApprovedMeansApproved OneApproval
PROPERTIES KeepsPromise
