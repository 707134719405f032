SPECIFICATION Spec
CONSTANTS
  Ack = ack
  Keeper = keeper
  Completer = {ack}
  Queue = 2
  Wrap = 4
PROPERTY
  StatusAlwaysKept
