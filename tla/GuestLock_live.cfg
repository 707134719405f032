SPECIFICATION FairSpec
CONSTANTS
  a = a
  b = b
  timer = timer
  Thread = {a, timer}
  Timer = timer
  NoThread = NoThread
  IdleTakesLock = FALSE
  HandoffExpires = FALSE
  SliceDue = 1
  SliceRaised = 2
  MaxNest = 1
  PrioThread = {a}
  IrqlThread = {a}
  IoThread = {a}
  SuspThread = {a}
PROPERTIES
  NoSwitchWhenRaised
  HandOver
  
  InterruptReaches
