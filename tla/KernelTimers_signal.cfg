SPECIFICATION Spec
CONSTANTS
  ta = ta
  tb = tb
  tc = tc
  Timer = {ta, tb, tc}
  NoTimer = NoTimer
  Slots = 2
  MaxArmings = 2
  Waited = {ta}
PROPERTIES
  SignalsTheFired
