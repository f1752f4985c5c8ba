SPECIFICATION Spec
CONSTANTS
    Messages = {m1, m2, m3, m4}
    Foreign = {m4}
    None = None
INVARIANTS
    TypeOK
    NoneStranded
    DisconnectAfterMessage
PROPERTIES
    DeliversInOrder
CHECK_DEADLOCK FALSE
