SPECIFICATION QuietSpec
CONSTANTS
    q1 = q1
    m1 = m1
    Requests = {q1}
    Masters = {m1}
    Rows = {1, 2}
    Total <- MCTotal
    EndTime <- MCEnd
    Periods = {0, 1}
    Amounts = {2}
    Costs = {0, 3}
    Batch = 1
    MaxCorrections = 1
    MaxTime = 2
PROPERTIES
    EndedRowsExpire
