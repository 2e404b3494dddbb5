\* A streamed turn, a turn with two subagents, two edits of one file and a second turn.
CONSTANTS
    user = user
    helper = helper
    deep = deep
    write = write
    edit = edit
    file = file
    Main = user
    Agents = {user, helper, deep}
    Files = {file}
    Contents = {0, 1, 2}
    Unknown = Unknown
    NoUsage = NoUsage
    NoTool = NoTool
    NoNote = NoNote
    Scripts <- All
    MaxBlocks = 3
SPECIFICATION Spec
INVARIANTS
    BlocksHaveOneName
    RepliesAreWhole
    HistoryAgrees
    TurnsEndAlike
    ChangesAreTrue
CHECK_DEADLOCK FALSE
