SPECIFICATION Spec
CONSTANTS
    None = None
    Openers = {c1, c2}
    Storers = {}
    PendingReads = {FALSE}
    LoadMayFail = FALSE
    HookMayFail = FALSE
    MayClose = FALSE
INVARIANTS
    SameDocument
CHECK_DEADLOCK FALSE
