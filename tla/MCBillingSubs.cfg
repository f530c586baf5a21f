SPECIFICATION FairSpec
CONSTANTS
    r1 = r1
    r2 = r2
    Requests = {r1, r2}
    Inputs <- MCSubInputs
    Subs <- MCSubs
    TeamSubs <- MCTeamSubs
    SubTotal <- MCSubTotal
    Actuals = {1, 3}
    ViolationFee = 1
    TrustQuota = 0
    TokenUnlimited = TRUE
    MemberLimit = 2
    InitWallet = 3
    InitToken = 0
    Faults = {"subscription", "member"}
INVARIANTS FundingOutcome SubWithinTotal
PROPERTIES ImplementsReservation EveryRequestFinishes
