\* One turn with a permission request, a background task and an injected turn; it may be stopped, it closes
\* its client when it completes, and somebody else closes the client at any time.
CONSTANTS
    t1 = t1
    t2 = t2
    r1 = r1
    k1 = k1
    k2 = k2
    Turns = {t1}
    Closing = {t1}
    Callers = {"closer"}
    Requests = {r1}
    Tasks = {k1}
    MaxConnections = 2
    MaxInjected = 1
    InboxBound = 1
SPECIFICATION FairSpec
INVARIANTS
    TypeOK
PROPERTIES
    TurnEnds
    StoppedTurnEnds
    CloseReturns
CHECK_DEADLOCK FALSE
