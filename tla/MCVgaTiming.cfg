SPECIFICATION Spec
CONSTANTS
  HPixels = 11
  VLines = 14
  HVisible = 6
  VVisible = 8
  HSyncFirst = 7
  HSyncEnd = 9
  VSyncFirst = 10
INVARIANTS VsyncAtLines
