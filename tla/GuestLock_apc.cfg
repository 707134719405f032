SPECIFICATION Spec
CONSTANTS
  a = a
  b = b
  timer = timer
  Thread = {a, b, timer}
  Timer = timer
  NoThread = NoThread
  IdleTakesLock = FALSE
  HandoffExpires = TRUE
  SliceDue = 1
  SliceRaised = 2
  MaxNest = 1
  PrioThread = {}
  IrqlThread = {}
  IoThread = {b}
  SuspThread = {a}
INVARIANT GuestCodeHoldsLock
