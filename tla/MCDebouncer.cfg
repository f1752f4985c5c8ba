SPECIFICATION Spec
CONSTANTS
    c1 = c1
    c2 = c2
    c3 = c3
    c4 = c4
    Calls = {c1, c2, c3, c4}
    NoCall = NoCall
    DebounceTime = 1
    MaxDebounce = 2
CONSTRAINT InTurn
INVARIANTS
    TypeOK
    BoundedDeferral
PROPERTIES
    NoDroppedWork
    WorkRuns
    CallersReturn
