\* A pool that grows from one worker to three, and shrinks again.
CONSTANTS
    MaxNum = 3
    InitialNum = 1
    Tid = {t1, t2, t3, t4}
    Job = {j1, j2, j3}
    Null = Null
    EarlyPost = FALSE
    MaxInits = 1
    MaxFail = 0
SPECIFICATION Spec
SYMMETRY Symmetry
INVARIANTS TypeOK SlotOwned WithinMaxNum BusyMeansServing CoreWorkersStay
\* The client may be idle for ever, and the process may end.
CHECK_DEADLOCK FALSE
