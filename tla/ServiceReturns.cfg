\* Two prompts with different models, a close and a scheduled task for one session.
CONSTANTS
    s1 = s1
    s2 = s2
    folder = folder
    m1 = m1
    m2 = m2
    slash = slash
    send = send
    scheduled = scheduled
    open = open
    ask = ask
    close = close
    rewind = rewind
    restore = restore
    Calls = {slash, send, close, scheduled}
    Kind <- KindOf
    Session <- SessionOf
    Config <- ConfigOf
    Workspace <- WorkspaceOf
SPECIFICATION FairSpec
PROPERTIES
    RequestsReturn
CHECK_DEADLOCK FALSE
