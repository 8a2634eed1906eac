CONSTANTS
  k1 = k1  k2 = k2  p1 = p1  p2 = p2
  Key <- MCKeys
  Prefix <- MCPrefixes
  Lister = {l1, l2}
  Writer = {w1, w2}
  KeysOf <- MCKeysOf
  Nil = Nil
SYMMETRY MCSymmetry
SPECIFICATION Spec
INVARIANT CachedKeysAreStored
PROPERTY ListSeesFinishedChanges
