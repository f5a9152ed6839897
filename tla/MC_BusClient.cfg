CONSTANTS
    h1 = h1
    h2 = h2
    h3 = h3
    NoHandle = NoHandle
    Handles <- MCHandles
SPECIFICATION Spec
SYMMETRY MCSymmetry
INVARIANT
    InvocationTracked
