SPECIFICATION FairSpec
CONSTANTS
  Worker = worker
  Producer = {p, q}
  p = p
  q = q
  Controller = controller
  NoThread = NoThread
  Critical = {p}
  Items = 2
  Visits = 2
  MaxBank = 2
  Valve = TRUE
  SpinsRunOut = TRUE
CHECK_DEADLOCK FALSE
INVARIANTS
  SuspendInv
  NoLostWakeup
PROPERTIES
  ItemsTaken
