\* Two prompts for one session.
CONSTANTS
    s1 = s1
    s2 = s2
    folder = folder
    m1 = m1
    m2 = m2
    slash = slash
    send = send
    scheduled = scheduled
    open = open
    ask = ask
    close = close
    rewind = rewind
    restore = restore
    Calls = {slash, send}
    Kind <- KindOf
    Session <- SessionOf
    Config <- ConfigOf
    Workspace <- WorkspaceOf
SPECIFICATION Spec
INVARIANTS
    TurnIsSeen
CHECK_DEADLOCK FALSE
