CONSTANTS
    c1 = c1
    c2 = c2
    t1 = t1
    t2 = t2
    Handles <- MCHandles
    Topics <- MCTopics
    AbiOk = TRUE
SPECIFICATION Spec
SYMMETRY MCSymmetry
\* Once every call is answered and no work is queued the thread blocks in
\* work_rx.recv(): the system may stop.
CHECK_DEADLOCK FALSE
INVARIANT
    ResultAtMostOnce
