SPECIFICATION Spec
CONSTANTS
    Tasks = {1}
    Legacy = {}
    Pollers = {p1, p2}
    Fetches = {}
    Answers = {"IN_PROGRESS"}
    Quotas = {0, 2}
    Actuals = {0, 1}
    QueryLimit = 2
    MaxFailures = 0
    Faults = {}
    p1 = p1
    p2 = p2
    Platform <- AllSuno
    ChannelOf <- OneChannel
INVARIANTS
    NeverOverRefunded
