CONSTANTS
  w1 = w1
  w2 = w2
  a = a
  b = b
  j1 = j1
  j2 = j2
  ws = ws
  NoWorker = NoWorker
  NoJob = NoJob
  Workers = {w1}
  Slots = {a, b}
  WorkerOf <- OneMachine
  Jobs = {j1, j2}
  WorkspaceOf <- OneWallet
  Children = {j2}
  Workspaces = {ws}
  Faults = {"kill", "db"}
  MaxCost = 1
  InitialCredit = 1
  AgingJobs = {}
SPECIFICATION Spec
INVARIANTS ExclusiveRun NoStranding
PROPERTY RequeueAfterUnwind
