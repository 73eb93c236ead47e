SPECIFICATION FairSpec
CONSTANTS
  MaxMs = 2
  SettleMs = 1
  LoopMs = 1
  NumDevices = 3
  Kinds <- MCKinds
  NoDevice = none
  ResetRaises = {TRUE, FALSE}
INVARIANTS TypeOK TracksBus EntriesAreThere
PROPERTIES EachIsReported SettleEnds ComesToRest
