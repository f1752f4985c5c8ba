SPECIFICATION Spec
CONSTANTS
    Edits = {e1, e2, e3}
    Clients = {k1}
    Directs = {}
    Flushes = {}
    NoCall = NoCall
    DebounceTime = 0
    MaxDebounce = 0
    UnloadImmediately = TRUE
    StoreMayFail = TRUE
    ChainMayEnd = TRUE
    HookMayFail = TRUE
    SocketMayDie = TRUE
SYMMETRY Symmetry
INVARIANTS
    TypeOK
    SaverIsStoring
    NoEditForgotten
PROPERTIES
    StoresInOrder
CHECK_DEADLOCK FALSE
