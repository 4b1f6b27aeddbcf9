SPECIFICATION Spec
CONSTANTS
    KeyNames = {"k1", "k2"}
    Specs <- MCSpecs
    MaxEdits = 1
INVARIANTS
    DisksHaveTheirKeys
CHECK_DEADLOCK FALSE
