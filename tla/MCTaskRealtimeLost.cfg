SPECIFICATION Spec
CONSTANTS
    Tasks = {1}
    Legacy = {}
    Pollers = {p1}
    Fetches = {f1}
    Answers = {"IN_PROGRESS"}
    Quotas = {0, 2}
    Actuals = {0, 1}
    QueryLimit = 2
    MaxFailures = 0
    Faults = {}
    p1 = p1
    f1 = f1
    Platform <- AllRealtime
    ChannelOf <- OneChannel
INVARIANTS
    FailedTaskRefunded
