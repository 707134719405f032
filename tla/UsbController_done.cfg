SPECIFICATION UsbSpec
CONSTANTS
  MaxTd = 3
  WalkMax = 2
  MaxWait = 1
  MaxRepeats = 1
  RespLen = 2
  Masks = {{"MIE", "WDH", "RHSC"}}
  Budgets <- MCBudgets
  ControlKinds = {"setup", "in", "refused"}
  PadKinds = {"rumble"}
CHECK_DEADLOCK FALSE
PROPERTY OneDoneQueue
