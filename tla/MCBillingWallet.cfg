SPECIFICATION Spec
CONSTANTS
    r1 = r1
    r2 = r2
    Requests = {r1, r2}
    Inputs <- MCWalletInputs
    Subs <- MCNone
    TeamSubs <- MCNone
    SubTotal <- MCNoTotal
    Actuals = {0, 1, 3}
    ViolationFee = 1
    TrustQuota = 3
    TokenUnlimited = FALSE
    MemberLimit = 0
    InitWallet = 4
    InitToken = 4
    Faults = {"token", "wallet", "read"}
INVARIANTS AccountInv TokenMirrorsFunding RowsConserved
SYMMETRY Symmetry
