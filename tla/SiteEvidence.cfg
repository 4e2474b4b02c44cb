SPECIFICATION Spec
CONSTANTS
    MaxEdits = 2
    PackageEdits = 1
    Keys = {"k1", "k2"}
    Trusted = {"k1"}
INVARIANTS
    TypeOK
    PassesAsSigned
    PendingLacksOnlyTrust
    FiguresAgree
    DutiesApart
    OrderIsKept
CHECK_DEADLOCK FALSE
