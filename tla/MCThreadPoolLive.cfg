SPECIFICATION FairSpec
CONSTANTS
  Workers = {w1, w2}
  Clients = {owner, other}
  Owner = owner
  Waiters = {owner}
  NoThread = NoThread
  NoJob = NoJob
  MaxJobs = 2
  MaxPauses = 1
INVARIANTS
  WaiterHasReason
PROPERTIES
  EveryJobRuns
  WaitReturns
  DestroyReturns
  ResumeReleasesHeld
