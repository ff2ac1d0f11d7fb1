\* Expected to fail: WorkerDrains.
SPECIFICATION FairSpec
CONSTANTS
  Servers = {s1}
  Drainers = {}
  Cars = {v1}
  Campaigns = {k1}
  SeedRows = 1
  MaxAttempts = 2
  TickJobs = 2
  MaxRows = 2
  MaxAged = 0
  MaxFaults = 1
PROPERTIES WorkerDrains
