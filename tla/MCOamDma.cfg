SPECIFICATION FairSpec
CONSTANTS
  PageSize = 2
  NumPages = 4
  RamLimit = 2
  RamPages = 1
  RomBase = 3
  PrgRom <- MCPrgRom
  DmaReg <- MCDmaReg
  OamData <- MCOamData
  ReadAddr <- MCReadAddr
  WriteAddr <- MCWriteAddr
INVARIANTS
  TypeOK
  FrozenInRead
  CopiedSoFar
PROPERTIES
  TransferIsExact
  RequestIsServed
  ImplementsPageCopy
