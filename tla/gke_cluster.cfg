SPECIFICATION FairSpec
CONSTANTS
    Configs = {1, 2}
    Editable = {"config", "logging"}
    Modes = {FALSE}
    MaxFaults = 1
    MaxEdits = 1
INVARIANTS
    TypeOK
    FinalizersGuard
    NetworkUnderCluster
PROPERTIES
    Converges
    DeletionCompletes
CHECK_DEADLOCK FALSE
