\* Two prompts, a question, a close and a rewind for one session; another session of the same folder is opened and rewound.
CONSTANTS
    s1 = s1
    s2 = s2
    folder = folder
    m1 = m1
    m2 = m2
    slash = slash
    send = send
    scheduled = scheduled
    open = open
    ask = ask
    close = close
    rewind = rewind
    restore = restore
    Calls = {slash, send, open, ask, close, rewind, restore}
    Kind <- KindOf
    Session <- SessionOf
    Config <- ConfigOf
    Workspace <- WorkspaceOf
SPECIFICATION Spec
INVARIANTS
    TypeOK
    RestoreIsExclusive
    MarkHasOwner
CHECK_DEADLOCK FALSE
