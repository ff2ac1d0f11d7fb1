\* Two tabs, two APIs, a user with a short token and one with a long one.
SPECIFICATION Spec
CHECK_DEADLOCK FALSE
CONSTANTS
  Tabs = {t1, t2}
  Apis = {a1, a2}
  Users = {1, 2}
  Flag = a1
  Saved <- MCSaved
  None = None
  Torn = Torn
  MaxLogins = 3
  MaxStarts = 1
SYMMETRY Symmetry
INVARIANTS
  FileFollows
