SPECIFICATION Spec
CONSTANTS
  Workers = {w1, w2, w3}
  Clients = {owner, other}
  Owner = owner
  Waiters = {owner, other}
  NoThread = NoThread
  NoJob = NoJob
  MaxJobs = 4
  MaxPauses = 0
SYMMETRY WorkerSymmetry
INVARIANTS
  TypeOK
  CountersExact
  NoLostJob
  SomeoneAwake
  ClearAlone
PROPERTIES
  ImplementsJobPool
