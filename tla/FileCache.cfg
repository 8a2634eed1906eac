CONSTANTS
    c1 = c1
    c2 = c2
    b1 = b1
    v1 = v1
    None = None
    Client = {c1, c2}
    BlugePath = {b1}
    VecPath = {v1}
    MaxSize = 1
    RefMod = 8
    MaxVer = 2
    MaxRef = 3
    MaxFaults = 1
SPECIFICATION Spec
SYMMETRY Symmetry
CHECK_DEADLOCK FALSE
INVARIANT  CountCoversHolders
PROPERTY HeldFileStays
