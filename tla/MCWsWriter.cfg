SPECIFICATION Spec
CONSTANTS
    Frames = {f1, f2, f3}
    Closes = {x1, x2}
    None = None
    SocketMayFail = TRUE
INVARIANTS
    TypeOK
    CloseIsLast
PROPERTIES
    FramesInOrder
    FramesAreFlushed
CHECK_DEADLOCK FALSE
