CONSTANTS
    t1 = t1
    t2 = t2
    t3 = t3
    NoTask = NoTask
    Tasks <- MCTasks
SPECIFICATION Spec
SYMMETRY MCSymmetry
INVARIANT
    ShutdownOkMeansBackedUp
