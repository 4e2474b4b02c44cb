SPECIFICATION FairSpec
CONSTANTS
    MaxJobs = 1
    Total = 1
    MaxCalls = 2
    Faults = {"start"}
PROPERTY StopEnds
CHECK_DEADLOCK FALSE
