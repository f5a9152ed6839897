CONSTANTS
    k1 = k1  k2 = k2  v1 = v1  v2 = v2
    d1 = d1  d2 = d2  d3 = d3  h1 = h1  h2 = h2  h3 = h3
    NoVal = NoVal  Tomb = Tomb
    Keys <- MCKeys
    Values <- MCValues
    Dios <- MCDios2
    Handles <- MCHandles3
SPECIFICATION Spec
SYMMETRY MCSymmetry
PROPERTY DeletedNeverLoads
