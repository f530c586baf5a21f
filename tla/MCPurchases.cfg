CONSTANTS
    h1 = h1
    n1 = n1
    n2 = n2
    Trades = {t1, t2}
    Gateways = {"pancake", "wallet"}
    Handlers = {h1, h2, h3}
    Nodes = {n1}
    NodeOf <- OneNode
    Mutexes = {m1, m2, m3}
    Users = {u1}
    Unit = 2
    Dollars = 1
    Product = 3
    Start = 2
    Invited = TRUE
    Cap = 1
    MaxErrors = 2
    MaxCrashes = 1
SPECIFICATION Spec
SYMMETRY Perms
CHECK_DEADLOCK FALSE
INVARIANTS
    RewardedOnce
    WalletSquare
