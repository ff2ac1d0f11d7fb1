\* Two scans over two baud rates; the run ends with them.
SPECIFICATION FairSpec
CONSTANTS
  Handles = {h1, h2, h3}
  NoHandle = NoHandle
  Bauds = 2
  AtiTries = 2
  ConfigLast = 1
  MaxScans = 2
INVARIANTS
  NoHandleLeft
  BaudInStep
  TalksToELM
PROPERTIES
  ScanReturns
  HandlesReturn
CHECK_DEADLOCK FALSE
