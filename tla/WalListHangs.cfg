CONSTANTS
    r1 = r1
    r2 = r2
    None = None
    Request = {r1}
    MaxLoad = 1
    Quiet = TRUE
    RollbackFails = FALSE
SPECIFICATION ListFairSpec
PROPERTY DeleteReturns
CHECK_DEADLOCK FALSE
