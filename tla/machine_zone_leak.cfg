SPECIFICATION Spec
CONSTANTS
    Zones <- TwoZones
    Machines <- UnpinnedMachine
    MaxFaults = 0
    MaxEdits = 1
INVARIANTS
    NoInstanceLeft
CHECK_DEADLOCK FALSE
