SPECIFICATION PlatformSpec
CONSTANTS
    Keys = {k1, k2, k3, k4}
    CacheLimit = 3
    MaxDuration = 3
    Scenarios = {"normal", "disturbance", "communications_loss", "battery_overtemperature"}
    Requests = {r1, r2, r3}
    Legacy = {l1, l2}
    Faults = {"crash", "torn", "raise", "separator"}
    Clients = {c1, c2}
    Limit = 2
    Window = 2
    TableLimit = 1
    MaxTime = 4
SYMMETRY InterchangeableKeys
INVARIANTS
    PlatformTypeOK KeysTakeEffectOnce ScenarioLastsAsAsked
    ChainVerifies VerifiedIsComplete EditsDetected
    LimitIsExact LearnedIsSealed NeverWorseThanMpc ReceiptsTellTheModes
CHECK_DEADLOCK FALSE
