\* Codes in lines of two, so that three of them need a second line, or on CAN a second frame.
SPECIFICATION Spec
CONSTANTS
  Cars <- MCCars
  Pids <- MCPids
  PerLine = 2
  Breaks <- MCBreaks
CHECK_DEADLOCK FALSE
INVARIANTS
  StatusIsRight
  ReportIsTheCars
