SPECIFICATION Spec
CONSTANTS
  SetLen = 8
  VblLen = 16
  ClearLen = 3
  DrawLen = 26
  DmaLen = 10
  NmiLen = 4
  AccessLen = 2
  OtherLens = {2, 3}
INVARIANTS
  TypeOK
  FrameHasNmi
  QuietFrameHasOneNmi
  PollGetsFlag
  FrameStartsClean
