SPECIFICATION PixelSpec
CONSTANTS
  Size = 12
  MaxFetch = 2
  Height = 2
  LineLen = 43
  ScanEnd = 32
  HandAt = 33
  Picture = 8
  Lines = 9
  Width = 6
  Masked = {9}
  StartAddr <- MCStart
  OamContents <- MCContents
  OamWrites <- MCWrites
  OpaqueBits <- MCOpaqueBits
INVARIANTS
  TypeOK
  ScanEndsInTime
  SlotsAreShown
  SlotZeroIsSpriteZero
  SpriteZeroIsDrawn
  NoneInBlank
  FirstSpriteIsShown
PROPERTIES
  HitIsSpriteZero
