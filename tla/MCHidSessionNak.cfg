SPECIFICATION Spec
CONSTANTS
  NakLimit = 2
  RetryLimit = 2
  HeadLen = 3
  BufLen = 6
  PollLen = 2
  MaxReports = 2
  Devices <- MCFullPacket
INVARIANT NakMeansNoData
