SPECIFICATION FairSpec
CONSTANTS
    Zones <- OneZone
    Machines <- PinnedMachines
    MaxFaults = 0
    MaxEdits = 1
PROPERTIES
    DeletionCompletes
    BecomesReady
CHECK_DEADLOCK FALSE
