SPECIFICATION Spec
CONSTANTS
    Decisions = {d1}
    Principals = {p1, p2, p3}
    Keys = {k1, k2}
    NoOne = NoOne
    NoKey = NoKey
    MaxDuration = 1
    Scenarios = {"normal", "battery_overtemperature"}
    Faults = {"crash", "read"}
SYMMETRY Interchangeable
INVARIANTS AuthorityIsDurable AcknowledgedVoteSurvives RecordHashValid DurableEventsAudited ThermalEnvelope
PROPERTIES ImplementsLifecycle DurableHistoryGrows
