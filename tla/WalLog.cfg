CONSTANTS
    d1 = d1
    d2 = d2
    c1 = c1
    c2 = c2
    Doc = {d1, d2}
    Client = {c1}
    HasVec = FALSE
    MayOmit = FALSE
    SearchFails = TRUE
    Patient = FALSE
    BatchSize = 2
    MaxBatchSize = 3
    MaxOps = 3
    MaxShards = 2
    MaxFaults = 2
SPECIFICATION FairSpec
INVARIANT NothingUnwrittenTruncated
PROPERTY BatchesAreContiguous
 
CHECK_DEADLOCK FALSE
