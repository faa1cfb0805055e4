SPECIFICATION FairSpec
CONSTANTS
  Workers = {w1, w2}
  MaxAttempts = 3
  MaxCrashes = 1
  Activated = TRUE
INVARIANTS BudgetRespected DeliveredOnce NoFalseSuccess
PROPERTIES SettledForever KeepsPromise EventuallySettled
