SPECIFICATION Spec
CONSTANTS
  NumAddr = 40
  LowSize = 8
  PatEnd = 8
  TableSize = 2
  PalBase = 24
  PalSize = 8
  MapEnd = 32
  OamSize = 2
  BigStride = 3
  MirrorCfg = TRUE
  Byte <- MCByte
  Chr <- MCChr
  Written <- MCWritten
  MaxStores = 1
  Status <- MCStatus
INVARIANTS
  TypeOK
PROPERTIES
  ImplementsVramPort
