CONSTANTS
  Waiters = {w1}
  Ops = {1, 2}
  Tickets = {t1, t2}
  Handlers = {h1, h2}
  MaxDeskEdits = 1
  None = None
SPECIFICATION FairSpec
CHECK_DEADLOCK FALSE
INVARIANTS TypeOK AppliedOnce
PROPERTIES OverWhatWasFetched QueueMoves
