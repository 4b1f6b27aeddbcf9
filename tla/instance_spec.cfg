SPECIFICATION Spec
CONSTANTS
    KeyNames = {"k1", "k2"}
    Specs <- MCSpecs
    MaxEdits = 1
INVARIANTS
    HardwareSupported
    DisksEncrypted
CHECK_DEADLOCK FALSE
