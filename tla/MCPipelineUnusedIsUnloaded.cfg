SPECIFICATION Spec
CONSTANTS
    Edits = {e1}
    Clients = {k1}
    Directs = {}
    Flushes = {}
    NoCall = NoCall
    DebounceTime = 1
    MaxDebounce = 2
    UnloadImmediately = TRUE
    StoreMayFail = FALSE
    ChainMayEnd = TRUE
    HookMayFail = FALSE
    SocketMayDie = FALSE
PROPERTIES
    UnusedIsUnloaded
CHECK_DEADLOCK FALSE
