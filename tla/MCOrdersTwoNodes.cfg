CONSTANTS
    h1 = h1
    n1 = n1
    n2 = n2
    Trades = {t1}
    Gateways = {"ipn"}
    Handlers = {h1, h2}
    Nodes = {n1, n2}
    NodeOf <- TwoNodes
    Mutexes = {m1, m2}
    Users = {u1}
    Unit = 2
    Dollars = 1
    Product = 3
    Start = 2
    Invited = TRUE
    Cap = 1
    MaxErrors = 0
    MaxCrashes = 0
SPECIFICATION Spec
CONSTRAINT CallbacksOnly
CHECK_DEADLOCK FALSE
INVARIANTS
    CreditedOnce
