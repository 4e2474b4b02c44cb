SPECIFICATION Spec
CONSTANTS
    Trusted = {"k1"}
    MaxEdits = 1
INVARIANT BenefitSharedOnce
CHECK_DEADLOCK FALSE
