CONSTANTS
    d1 = d1
    d2 = d2
    c1 = c1
    c2 = c2
    Doc = {d1, d2}
    Client = {c1}
    HasVec = TRUE
    MayOmit = TRUE
    SearchFails = FALSE
    Patient = TRUE
    BatchSize = 2
    MaxBatchSize = 3
    MaxOps = 3
    MaxShards = 2
    MaxFaults = 1
SPECIFICATION Spec
INVARIANT CopiesInOneShard OneCopyWithoutFaults
PROPERTY IndexImplementsDocStore
PROPERTY VectorsImplementDocStore
CHECK_DEADLOCK FALSE
