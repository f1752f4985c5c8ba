SPECIFICATION Spec
CONSTANTS
    None = None
    Openers = {c1, c2}
    Storers = {s1}
    PendingReads = {TRUE, FALSE}
    LoadMayFail = TRUE
    HookMayFail = TRUE
    MayClose = TRUE
INVARIANTS
    TypeOK
    LoaderOwnsEntry
    OnlyLoadedHandedOut
    UnloadingEntryIsLive
PROPERTIES
    CallsReturn
CHECK_DEADLOCK FALSE
