CONSTANTS
    u1 = u1
    u2 = u2
    User = {u1, u2}
    MaxWriter = 3
    MaxClose = 1
    MaxUnpaired = 1
SPECIFICATION FairSpec
CHECK_DEADLOCK FALSE
INVARIANT IInv NoWriterForgotten
PROPERTY LazyClosesUnused UnusedWriterClosed
