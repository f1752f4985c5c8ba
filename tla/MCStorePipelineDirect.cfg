SPECIFICATION Spec
CONSTANTS
    Edits = {e1}
    Clients = {k1}
    Directs = {d1}
    Flushes = {f1}
    NoCall = NoCall
    DebounceTime = 1
    MaxDebounce = 1
    UnloadImmediately = TRUE
    StoreMayFail = TRUE
    ChainMayEnd = TRUE
    HookMayFail = TRUE
    SocketMayDie = TRUE
CONSTRAINTS SomeEditUnstored TwoAtMost
INVARIANTS
    FlushedIsStored
PROPERTIES
    EveryEditStored
CHECK_DEADLOCK FALSE
