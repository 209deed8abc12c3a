CONSTANTS
    Suites <- MCSuites
    RawScores <- MCRawScores
    Runtimes = {"hosted"}
    RunCosts = {0, 5}
    JudgeCost = 2
    Faults = {"statement", "commit"}
    MaxFaults = 1
    MaxAttempts = 1
    Cases = 2
SPECIFICATION Spec
INVARIANT ScoringNeverFailsTheJob
