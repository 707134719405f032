SPECIFICATION TimerThreadSpec
CONSTANTS
  Timer = {ta, tb, tc}
  NoTimer = NoTimer
  Slots = 2
  MaxArmings = 3
  Waited = {ta}
  Voice = {va, vb}
  End = End
  MaxCalls = 4
CHECK_DEADLOCK FALSE
INVARIANTS
  TimersInv
  VoicesInv
PROPERTIES
  ArmingsFire
  StaysListed
  TitleServed
