SPECIFICATION Spec
CONSTANTS
    Decisions = {d1}
    Principals = {p1, p2, p3}
    Keys = {k1, k2}
    NoOne = NoOne
    NoKey = NoKey
    MaxDuration = 1
    Scenarios = {"normal"}
    Faults = {"crash", "audit", "persist"}
SYMMETRY Interchangeable
VIEW WithoutSeen
INVARIANTS TypeOK ExecutionAuthorised CommandsInOrder AuthorityInvariant
PROPERTY DurableHistoryGrows
