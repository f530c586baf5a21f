SPECIFICATION Spec
CONSTANTS
    Streams = {s1, s2}
    Fetches = {f1}
    MaxOps = 1
    MaxReloads = 1
    MaxTimers = 2
    s1 = s1
    s2 = s2
    f1 = f1
PROPERTIES
    DeletesOne
CHECK_DEADLOCK FALSE
