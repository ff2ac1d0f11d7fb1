\* Two servers, two requests at a time, three e-mails, one of them the super admin's.
SPECIFICATION Spec
CHECK_DEADLOCK FALSE
CONSTANTS
  Servers = {s1, s2}
  Requests = {r1, r2}
  Emails = {boss, e1, e2}
  Boss = boss
  Shops = {o1, o2}
  None = None
  MaxStarts = 3
  MaxRequests = 3
  MaxAdmin = 2
SYMMETRY Symmetry
INVARIANTS
  FounderOwnsShop
  RestartHeals
  RulesInForce
