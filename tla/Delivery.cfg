\* One turn, two connections, two sends that time out or requests that fail.
CONSTANTS
    write = write
    Permissions = {write}
    MaxConnections = 2
    MaxTurns = 1
    MaxTexts = 1
    MaxTroubles = 2
SPECIFICATION FairSpec
INVARIANTS
    InOrder
    QuietIsUpToDate
    NobodyWaits
PROPERTIES
    AskedIsDecided
CHECK_DEADLOCK FALSE
