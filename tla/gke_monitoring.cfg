SPECIFICATION FairSpec
CONSTANTS
    Configs = {1}
    Editable = {"monitoring"}
    Modes = {FALSE}
    MaxFaults = 0
    MaxEdits = 1
PROPERTIES
    MonitoringFollows
CHECK_DEADLOCK FALSE
