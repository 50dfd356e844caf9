\* A list with two entries, in either order.
SPECIFICATION FairSpec
CONSTANTS
    Svc = {s1, s2}
    Null = Null
    Lists <- MCLists
INVARIANT TypeOK
PROPERTIES ControlHasEffect StopListHasEffect StopWaitEnds
