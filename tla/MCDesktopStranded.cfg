CONSTANTS
    Windows = {w1, w2, w3}
    maxRetries = 3
    MaxQuits = 2
SPECIFICATION Spec
INVARIANT InstalledNeverStranded
CHECK_DEADLOCK FALSE
