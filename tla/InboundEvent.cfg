CONSTANTS
  Handlers = {h1, h2}
  Workers = {k1}
  MaxAttempts = 3
  MaxMoves = 2
  MaxDeaths = 1
  Nothing = Nothing
SPECIFICATION FairSpec
CHECK_DEADLOCK FALSE
INVARIANTS AgentOnce OneReply HandedBeforeReply
PROPERTIES NotForgotten KeepsPromise
