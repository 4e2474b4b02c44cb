SPECIFICATION Spec
CONSTANTS
    Requests = {r1, r2}
    Legacy = {l1}
    Faults = {"torn"}
INVARIANT AnsweredIsAudited
CHECK_DEADLOCK FALSE
