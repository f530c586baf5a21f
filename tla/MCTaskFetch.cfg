SPECIFICATION FairSpec
CONSTANTS
    Tasks = {1, 2}
    Legacy = {1}
    Pollers = {p1}
    Fetches = {f1}
    Answers = {"IN_PROGRESS"}
    Quotas = {1, 2}
    Actuals = {1}
    QueryLimit = 1
    MaxFailures = 1
    Faults = {"settle", "channel", "save", "answer"}
    p1 = p1
    f1 = f1
    Platform <- RealtimeAndSuno
    ChannelOf <- OneChannel
INVARIANTS
    TokenMirrorsFunding
PROPERTIES
    EveryTaskEnds
