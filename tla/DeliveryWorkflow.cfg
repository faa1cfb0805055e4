CONSTANTS
  Riders = {r1, r2}
  Clients = {c1, c2}
  MaxVersion = 4
  Operator = Operator
  None = None
SYMMETRY Interchangeable
SPECIFICATION Spec
CHECK_DEADLOCK FALSE
INVARIANTS AssignedAsTold
PROPERTIES RidersOwn
