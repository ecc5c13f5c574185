SPECIFICATION Spec
CONSTANTS
    Environments = {"vm", "container"}
    Configured <- MCConfigured
    Replicas = {r1, r2}
    MaxPairs = 2
    MaxFaults = 2
INVARIANTS
    RelayLabelsHold
    LeftoversMeanFailure
    SweptOwnSetting
    TypeOK
    LoopInvariant
PROPERTIES
    LoopEnds
CHECK_DEADLOCK FALSE
