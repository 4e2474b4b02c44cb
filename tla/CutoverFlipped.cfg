SPECIFICATION Spec
CONSTANTS
    Domains = {"live_port_data", "long_horizon_shadow"}
    ShadowDomains = {"long_horizon_shadow"}
    Roles = {"port_owner", "independent_verifier"}
    WrongKeys = {}
    MaxEdits = 2
INVARIANT ChangedAfterSigningBlocks
CHECK_DEADLOCK FALSE
