\* Two servers that start, stop and start again, for longer than a day.
SPECIFICATION Spec
CONSTANTS
  Servers = {s1, s2}
  Drainers = {}
  Cars = {}
  Campaigns = {}
  SeedRows = 0
  MaxAttempts = 1
  TickJobs = 1
  MaxRows = 3
  MaxAged = 2
  MaxFaults = 2
INVARIANTS
  SeedsBounded
