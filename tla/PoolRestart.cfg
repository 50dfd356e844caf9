\* Init, Fini and Init again, with workers that outlive the first array.
CONSTANTS
    MaxNum = 2
    InitialNum = 1
    Tid = {t1, t2, t3}
    Job = {j1, j2}
    Null = Null
    EarlyPost = FALSE
    MaxInits = 2
    MaxFail = 1
SPECIFICATION Spec
SYMMETRY Symmetry
INVARIANT JobsConserved
\* The client may be idle for ever, and the process may end.
CHECK_DEADLOCK FALSE
