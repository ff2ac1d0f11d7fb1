\* Three commands on one port; the run ends with them.
SPECIFICATION FairSpec
CONSTANTS
  MaxCommands = 3
  MaxFaults = 2
INVARIANTS
  AnswerIsFresh
  OnlyStuckLeavesReader
PROPERTIES
  CommandReturns
CHECK_DEADLOCK FALSE
