\* Two turns, the second closes the client when it completes; a control call and a rewind.
CONSTANTS
    t1 = t1
    t2 = t2
    r1 = r1
    k1 = k1
    k2 = k2
    Turns = {t1, t2}
    Closing = {t2}
    Callers = {"control", "rewinder"}
    Requests = {}
    Tasks = {}
    MaxConnections = 2
    MaxInjected = 0
    InboxBound = 2
SPECIFICATION Spec
INVARIANTS
    OneTurnAtATime
    OneConnection
    ProducerKeepsConnection
    LockDiscipline
    AnswerIsOwn
    StopIsForwarded
PROPERTIES
    KeepsPromise
CHECK_DEADLOCK FALSE
