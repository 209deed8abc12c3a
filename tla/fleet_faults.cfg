CONSTANTS
  w1 = w1
  w2 = w2
  a = a
  b = b
  j1 = j1
  j2 = j2
  ws = ws
  NoWorker = NoWorker
  NoJob = NoJob
  Workers = {w1, w2}
  Slots = {a, b}
  WorkerOf <- TwoMachines
  Jobs = {j1}
  WorkspaceOf <- OneJobWallet
  Children = {}
  Workspaces = {ws}
  Faults = {"kill", "db"}
  MaxCost = 1
  InitialCredit = 1
  AgingJobs = {j1}
SPECIFICATION Spec
INVARIANTS IInv BilledExactly
PROPERTY LifecycleSpec
