CONSTANTS
    h1 = h1
    n1 = n1
    n2 = n2
    Trades = {t1}
    Gateways <- AllGateways
    Handlers = {h1, h2}
    Nodes = {n1}
    NodeOf <- OneNode
    Mutexes = {m1, m2}
    Users = {u1}
    Unit = 2
    Dollars = 1
    Product = 3
    Start = 2
    Invited = TRUE
    Cap = 1
    MaxErrors = 2
    MaxCrashes = 1
SPECIFICATION FairSpec
CHECK_DEADLOCK FALSE
INVARIANTS
    AckedIsApplied
    LockOwned
    CreditedOnce
    CreditedReadsSuccess
PROPERTIES
    PaidIsCredited
    LockIsGranted
