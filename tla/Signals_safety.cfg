SPECIFICATION SignalsSpec
CONSTANTS
  Ack = ack
  Keeper = keeper
  Completer = {ack, keeper}
  Queue = 2
  Wrap = 4
  ta = ta
  tb = tb
  ae = ae
  me = me
  ge = ge
  sem = sem
  mtx = mtx
  NoThread = NoThread
  Thread = {ta, tb}
  AutoEvent = {ae}
  ManualEvent = {me}
  GuestEvent = {ge}
  Semaphore = {sem}
  Mutex = {mtx}
  SemMax = 2
  ReleaseCounts = {1, 2}
  AnyLists <- MCAny
  AllLists <- MCAll
  MaxDepth = 2
CHECK_DEADLOCK FALSE
INVARIANTS
  Nv2aInv
  NoSleeperOnReady
  WaitInv
PROPERTIES
  OldestOnce
  BitsKept
  EveryMethodServed
  VblankServed
  MethodsGoOn
  WaitsForEverOnlyUnready
