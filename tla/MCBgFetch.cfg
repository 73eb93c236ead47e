SPECIFICATION BgSpec
CONSTANTS
  HPixels = 175
  VLines = 24
  HVisible = 132
  VVisible = 20
  HSyncFirst = 134
  HSyncEnd = 140
  VSyncFirst = 22
  Columns = 8
  TileHeight = 2
  TileRows = 5
  ScrollXs <- MCScrollXs
  ScrollYs <- MCScrollYs
  Controls <- MCControls
  WritePixels <- MCWritePixels
INVARIANTS
  HsyncAligned
  TilesAreRight
PROPERTIES
  SyncsAreBlanked
