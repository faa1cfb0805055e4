CONSTANTS
  a1 = a1  a2 = a2  f1 = f1
  Intents = {1, 2}
  Events = {a1, a2}
  About <- PaidTwice
  Kind <- PaidTwiceSays
  Handlers = {h1, h2}
  Makers = {}
  MaxAttempts = 2
  MaxFaults = 0
  KitchenOpen = TRUE
SPECIFICATION Spec
CHECK_DEADLOCK FALSE
INVARIANTS DoublePaymentReviewed SuccessIsAccounted
PROPERTIES ReviewIsFinal SettledStays
