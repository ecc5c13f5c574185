SPECIFICATION Spec
CONSTANTS
    WantRouter = FALSE
    Types = {t1, t2}
    Providers <- FiveProviders
    MaxFaults <- Faults
INVARIANTS
    TypeOK
    ContractInvariant
PROPERTIES
    ImplementsContract
    RecoveringCleanup
    RestartSucceeds
