SPECIFICATION Spec
CONSTANTS
    k1 = k1
    k2 = k2
    c1 = c1
    c2 = c2
    Keys = {k1, k2}
    Plain <- MCPlain
    Conns = {c1, c2}
    MaxMessages = 3
    None = None
CONSTRAINT InTurn
INVARIANTS
    TypeOK
    LiveIsTracked
    EndedLeavesNothing
    NotStuck
PROPERTIES
    KeyIsFreed
CHECK_DEADLOCK FALSE
