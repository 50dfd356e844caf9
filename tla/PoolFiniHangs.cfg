\* Fini of an elastic pool with two jobs.
CONSTANTS
    MaxNum = 2
    InitialNum = 1
    Tid = {t1, t2, t3}
    Job = {j1, j2}
    Null = Null
    EarlyPost = FALSE
    MaxInits = 1
    MaxFail = 0
SPECIFICATION FairSpec
PROPERTY FiniReturns
\* The client may be idle for ever, and the process may end.
CHECK_DEADLOCK FALSE
