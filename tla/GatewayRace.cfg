SPECIFICATION Spec
CONSTANTS
    Dynamic = {a1, a2}
    Registries = {}
    MaxSequence = 2
    MaxTime = 2
    MaxAge = 1
    AlignMax = 0
    RecentLimit = 2
    Threads = 1
    Faults = {}
INVARIANT ReleasePassesGates
