SPECIFICATION CallsSpec
CONSTANTS
  Thread = {a, b, timer}
  Timer = timer
  NoThread = NoThread
  IdleTakesLock = FALSE
  HandoffExpires = TRUE
  SliceDue = 1
  SliceRaised = 2
  MaxNest = 1
  PrioThread = {b}
  IrqlThread = {a}
  IoThread = {b}
  SuspThread = {}
  CsThread = {t1, t2, t3}
  NoOne = NoOne
  Section = {s1, s2}
  CsSlots = 2
  Addr = {a1, a2, a3}
  NoAddr = NoAddr
  HandleMax = 3
  Caller = {c, d}
  MaxMade = 3
  MaxLost = 1
  ApcRing = 2
  MaxRequest = 4
  MaxCalls = 4
CHECK_DEADLOCK FALSE
INVARIANTS
  LockInv
  CsInv
  TokenNamesItsObject
  RefsCounted
  ApcInv
PROPERTIES
  IdleIsNotLatched
  NoStaleInterrupt
  WaiterHasItsChance
  DeliveryRules
