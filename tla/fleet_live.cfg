CONSTANTS
  w1 = w1
  w2 = w2
  a = a
  b = b
  j1 = j1
  j2 = j2
  ws = ws
  NoWorker = NoWorker
  NoJob = NoJob
  Workers = {w1}
  Slots = {a, b}
  WorkerOf <- OneMachine
  Jobs = {j1}
  WorkspaceOf <- OneJobWallet
  Children = {}
  Workspaces = {ws}
  Faults = {"kill"}
  MaxCost = 0
  InitialCredit = 3
  AgingJobs = {j1}
SPECIFICATION FairSpec
PROPERTIES DrainTerminates EveryJobSettles
