SPECIFICATION Spec
CONSTANTS
    Zones <- TwoZones
    Machines <- ControlPlanes
    MaxFaults = 1
    MaxEdits = 1
INVARIANTS
    TypeOK
    FinalizerGuards
    ReadyMeansRegistered
    ProviderIDBacked
    NothingForgotten
CHECK_DEADLOCK FALSE
