SPECIFICATION FairSpec
CONSTANTS
    MaxJobs = 2
    Total = 2
    MaxCalls = 3
    Faults = {"crash", "write", "learn"}
INVARIANTS TypeOK OneLearner RunningIsNotHeld HonestOutcome ReadyHasArtifact
PROPERTY StopEnds
CHECK_DEADLOCK FALSE
