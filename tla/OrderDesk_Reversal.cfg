CONSTANTS
  Clients = {c1, c2}
  Tickets = {t1, t2}
  CounterTickets = {t1}
  Sales = {1, 2}
  Sessions = {1, 2}
  Quantities = {1, 2}
  FirstQuantities = {1}
  InitialStock = 2
  MaxWrites = 2
  NoTicket = NoTicket
  Nobody = Nobody
SYMMETRY Interchangeable
SPECIFICATION Spec
CHECK_DEADLOCK FALSE
INVARIANTS ReversedOnce
