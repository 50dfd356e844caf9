\* Connections fail or break at any moment, and memory runs out.
CONSTANTS
    Thread = {t1, t2}
    Url <- TwoBrokers
    EndsInMq = {"mq"}
    Prod = {p1, p2, p3}
    Null = Null
    ConnMayFail = TRUE
    NoMemory = TRUE
    MaxDrops = 1
    MaxCalls = 4
SPECIFICATION FairSpec
INVARIANT ProducersOwned
PROPERTY CallsReturn
\* The process stops when it crashes, and after MaxCalls calls.
CHECK_DEADLOCK FALSE
