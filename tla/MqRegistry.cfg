\* Three threads and one broker that stays up.
CONSTANTS
    Thread = {t1, t2, t3}
    Url <- OneBroker
    EndsInMq = {"mq"}
    Prod = {p1, p2}
    Null = Null
    ConnMayFail = FALSE
    NoMemory = FALSE
    MaxDrops = 0
    MaxCalls = 6
SPECIFICATION Spec
SYMMETRY Symmetry
INVARIANTS TypeOK RegistryConsistent SendsToItsDestination NoEmptyConnection
PROPERTY ReturnsMeanIt
\* The process stops when it crashes, and after MaxCalls calls.
CHECK_DEADLOCK FALSE
