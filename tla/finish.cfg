CONSTANTS
    Suites <- MCSuites
    RawScores <- MCRawScores
    Runtimes = {"hosted", "local"}
    RunCosts = {0, 5}
    JudgeCost = 2
    Faults = {"statement", "commit"}
    MaxFaults = 2
    MaxAttempts = 2
    Cases = 2
SPECIFICATION Spec
INVARIANT ChargedWithTheRun
INVARIANT CaseTellsTheRun
INVARIANT VerdictIsTheGraders
