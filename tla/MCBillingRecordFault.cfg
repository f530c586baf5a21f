SPECIFICATION Spec
CONSTANTS
    r1 = r1
    Requests = {r1}
    Inputs <- MCOneSub
    Subs <- MCSubs
    TeamSubs <- MCTeamSubs
    SubTotal <- MCSubTotal
    Actuals = {2}
    ViolationFee = 0
    TrustQuota = 0
    TokenUnlimited = FALSE
    MemberLimit = 0
    InitWallet = 3
    InitToken = 5
    Faults = {"record"}
INVARIANT NeverOverRefund
