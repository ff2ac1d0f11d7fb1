\* Two scans, one stop request at a time: a request that outlives its scan.
SPECIFICATION FairSpec
CONSTANTS
  Clients = {c1}
  MaxScans = 2
  MaxCodes = 1
  LogCap = 1
INVARIANTS
  OneScanAtATime
  LinesAreOwn
  OverMeansOutcome
PROPERTIES
  CancelSparesLaterScans
  ImplementsSlot
  ScanEnds
