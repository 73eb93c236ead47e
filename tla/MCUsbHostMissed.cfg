SPECIFICATION FairSpec
CONSTANTS
  MaxMs = 2
  SettleMs = 1
  LoopMs = 1
  NumDevices = 2
  Kinds <- OneKeyboard
  NoDevice = none
  ResetRaises = {FALSE}
PROPERTIES DetachedIsEmpty
