CONSTANTS
    Windows = {w1, w2, w3}
    maxRetries = 3
    MaxQuits = 2
SPECIFICATION FairSpec
INVARIANTS AttemptsBounded NoOrphan NeverStranded HandlersSafe
PROPERTIES QuitEnds StartupSettles
CHECK_DEADLOCK FALSE
