SPECIFICATION FairSpec
CONSTANTS
    Zones <- TwoZones
    Pools <- MCPools
    Domains <- MCDomains
    Contents = {1, 2}
    Sizes = {0, 1}
    MaxFaults = 1
    MaxEdits = 1
INVARIANTS
    TypeOK
    FinalizerGuards
PROPERTIES
    ImplementsLifecycle
    RollsOut
    DeletionCompletes
CHECK_DEADLOCK FALSE
