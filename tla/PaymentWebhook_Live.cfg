CONSTANTS
  a1 = a1  a2 = a2  f1 = f1
  Intents = {1}
  Events = {a1, f1}
  About <- Disputed
  Kind <- DisputedSays
  Handlers = {h1}
  Makers = {m1}
  MaxAttempts = 2
  MaxFaults = 1
  KitchenOpen = TRUE
SPECIFICATION FairSpec
CHECK_DEADLOCK FALSE
INVARIANTS KitchenOnlyPaid
PROPERTIES EventSettles
