SPECIFICATION Spec
CONSTANTS
  MaxMs = 2
  SettleMs = 1
  LoopMs = 1
  NumDevices = 3
  Kinds <- OneKeyboard
  NoDevice = none
  ResetRaises = {FALSE}
INVARIANTS DetachClears
