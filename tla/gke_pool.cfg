SPECIFICATION FairSpec
CONSTANTS
    Zones <- ThreeZones
    Configs = {1, 2}
    Sparse = {2}
    Wants <- MCWants
    MaxSize = 6
    MaxFaults = 1
    MaxEdits = 2
INVARIANTS
    TypeOK
    FinalizerGuards
PROPERTIES
    RollsOut
    DeletionCompletes
CHECK_DEADLOCK FALSE
