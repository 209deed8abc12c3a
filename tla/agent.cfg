CONSTANTS
  read = read
  send = send
  other = other
  Tools = {read, send, other}
  ConfirmTools = {send}
  SerialTools = {}
  Allowed = {read, send}
  ToolLimit <- OneEach
  Turns <- TurnShapes
  LongestTurn = 2
  HasSchema = TRUE
  EscalateAfter = 1
  MaxSteps = 2
  MaxJobCost = 1
  CheapCost = 1
  PremiumCost = 2
  ToolCost = 1
  ParallelToolLimit = 2
  ApprovalTimeout = 1
  MaxAttempts = 2
  Faults = {"crash", "unsaved", "helper", "provider"}
SPECIFICATION FairSpec
CHECK_DEADLOCK FALSE
INVARIANTS CallsArePermitted OnlyStepInFlightReruns StopsInTime TurnsAreAnswered
PROPERTY AttemptEnds
