CONSTANTS
    x1 = x1
    x2 = x2
    a = a
    b = b
    i1 = i1
    i2 = i2
    i3 = i3
    i4 = i4
    None = None
    Txns <- MCTxnsConcurrent
    Keys <- MCKeys
    Ids <- MCIds
SPECIFICATION Spec
SYMMETRY MCSymmetry
INVARIANT
    LenMatchesIter
