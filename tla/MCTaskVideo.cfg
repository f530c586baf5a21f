SPECIFICATION Spec
CONSTANTS
    Tasks = {1, 2}
    Legacy = {2}
    Pollers = {p1, p2}
    Fetches = {}
    Answers = {"IN_PROGRESS"}
    Quotas = {2}
    Actuals = {0, 1}
    QueryLimit = 2
    MaxFailures = 1
    Faults = {"cas", "funding", "token", "channel", "insert"}
    p1 = p1
    p2 = p2
    Platform <- AllVideo
    ChannelOf <- OneChannel
SYMMETRY Symmetry
INVARIANTS
    OneBiller
    NeverOverRefunded
PROPERTIES
    FinalIsFinal
    ImplementsReservation
