SPECIFICATION Spec
CONSTANTS
    Trusted = {"k1"}
    MaxEdits = 1
INVARIANT InfeasibleHasNoPlan
CHECK_DEADLOCK FALSE
