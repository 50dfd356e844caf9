\* Two calls of Start and two clients; a socket keeps one connection waiting.
CONSTANTS
    Svc = {s1, s2}
    Client = {c1, c2}
    Null = Null
    Backlog = 1
    Seconds = 2
SPECIFICATION FairSpec
INVARIANTS TypeOK NoOrphanListener
PROPERTY StopEnds
