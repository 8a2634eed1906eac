CONSTANTS
    r1 = r1
    r2 = r2
    None = None
    Request = {r1, r2}
    MaxLoad = 3
    Quiet = TRUE
    RollbackFails = TRUE
SPECIFICATION ListFairSpec
INVARIANT ConsumedWalIsOpen 
PROPERTY CloseReturns
CHECK_DEADLOCK FALSE
