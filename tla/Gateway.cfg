SPECIFICATION BothSpec
CONSTANTS
    Dynamic = {a1}
    Registries = {}
    Registry = r
    MaxSequence = 3
    MaxTime = 1
    MaxAge = 0
    AlignMax = 1
    RecentLimit = 2
    Threads = 2
    Faults = {"crash", "persist", "read", "reuse", "resend"}
INVARIANTS
    BothTypeOK BothSavedInOrder BothNewestIsRecognised BothResidentIsRecorded
    BothReleaseIsEvidenced BothReleaseAfterResend
