SPECIFICATION Spec
CONSTANTS
  Reports <- MCReports
  NoKey = 0
INVARIANTS
  TypeOK
  SerialBits
PROPERTIES
  NoPhantom
  HeldIsSeen
