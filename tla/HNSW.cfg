CONSTANTS
    d1 = d1
    d2 = d2
    c1 = c1
    c2 = c2
    Doc = {d1, d2}
    Client = {c1, c2}
    HNSWMaxLogs = 0
    MaxLog = 3
    MaxFaults = 1
SPECIFICATION FairSpec
INVARIANT SearchByIDsIsExact SearchIsComplete CountIsExact
PROPERTY TaskIsDone SenderReturns
