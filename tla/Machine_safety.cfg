SPECIFICATION MachineSpec
CONSTANTS
  Space = 16
  Base = 8
  Size = 7
  Instance = 1
  MaxBlocks = 5
  Requests = {0, 2, 3, 8}
  Alignments = {0, 2, 3, 4}
  Claims = {1}
  MaxSerial = 5
  HeapBase = 6
  HeapTop = 16
  MinSize = 2
  MinAlign = 1
  HeapMaxBlocks = 3
  HeapSizes = {0, 3, 20}
  HeapAligns = {0, 4}
  MaxGrants = 4
  RingFrames = 4
  IndexWrap = 12
  BlockSizes = {1, 3}
  PullFrames = 2
  MaxTd = 3
  WalkMax = 2
  MaxWait = 1
  MaxRepeats = 1
  RespLen = 2
  Masks = {{"MIE", "WDH", "RHSC"}}
  Budgets <- MCBudgets
  ControlKinds = {"setup", "in", "refused"}
  PadKinds = {"rumble"}
CHECK_DEADLOCK FALSE
INVARIANTS
  ContigInv
  RefusedOnlyWhenFull
  HeapInv
  UsbInv
PROPERTIES
  AbstractSpec
  AbstractHeapSpec
  AbstractQueue
  StallHolds
  QueuesDrain
  DoneQueueRead
