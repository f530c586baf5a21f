CONSTANTS
    Windows = {w1, w2, w3}
    maxRetries = 3
    MaxQuits = 2
SPECIFICATION Spec

PROPERTY CloseToTray
CHECK_DEADLOCK FALSE
