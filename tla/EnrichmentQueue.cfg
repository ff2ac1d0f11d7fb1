\* A worker and a drain, one process that dies or statement that is lost.
SPECIFICATION FairSpec
CONSTANTS
  Servers = {s1}
  Drainers = {d1}
  Cars = {v1}
  Campaigns = {k1}
  SeedRows = 1
  MaxAttempts = 2
  TickJobs = 1
  MaxRows = 2
  MaxAged = 0
  MaxFaults = 1
INVARIANTS
  OneOwner
  DoneMeansDone
  RecallsAreInScope
PROPERTIES
  ImplementsTable
  JobsSettle
