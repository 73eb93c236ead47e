SPECIFICATION FairSpec
CONSTANTS
  NakLimit = 3
  RetryLimit = 3
  HeadLen = 3
  BufLen = 6
  PollLen = 2
  MaxReports = 3
  Devices <- MCDevices
INVARIANTS TypeOK ControlIsExact PolledIsConfigured
PROPERTIES ReadsEachReportOnce CallEnds ReportArrives
