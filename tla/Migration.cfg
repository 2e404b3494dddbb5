\* Two files are migrated three times, by copying, or cut by a rename or across file systems.
CONSTANTS
    old = old
    new = new
    chats = chats
    settings = settings
    Places = {old, new}
    Start = old
    Files = {chats, settings}
    MaxVersion = 3
    Modes = {"copy", "move"}
    MaxRuns = 3
    MaxTroubles = 2
SPECIFICATION Spec
INVARIANTS
    TypeOK
    ConfiguredIsWhole
    NothingLost
PROPERTIES
    SwitchIsVerified
CHECK_DEADLOCK FALSE
