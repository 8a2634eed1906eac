SPECIFICATION Spec
CONSTANTS
    c1 = c1
    c2 = c2
    d1 = d1
    d2 = d2
    Client = {c1, c2}
    Doc = {d1, d2}
    Sealer = sealer
    Collector = collector
    Deleter = deleter
    None = None
    MaxObj = 2
    Threshold = 1
    Hashed = TRUE
    MaxOps = 2
    MaxSearches = 1
    MaxTasks = 1
    MaxFaults = 0
    MaxSeg = 5
CHECK_DEADLOCK FALSE
SYMMETRY Symmetry
INVARIANT LoadsAgain
