SPECIFICATION Spec
CONSTANTS
  Workers = {w1, w2}
  Clients = {owner, other}
  Owner = owner
  Waiters = {owner}
  NoThread = NoThread
  NoJob = NoJob
  MaxJobs = 1
  MaxPauses = 0
INVARIANTS
  FreedAfterThreadsLeft
