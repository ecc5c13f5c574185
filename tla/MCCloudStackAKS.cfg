SPECIFICATION Spec
CONSTANTS
    WantRouter = FALSE
    Types = {t1, t2}
    Providers = {"aks"}
    MaxFaults <- Faults
PROPERTIES
    DestroyIsScoped
