SPECIFICATION Spec
CONSTANTS
    ann = ann
    roy = roy
    Clients = {ann, roy}
    Modes <- MCModes
    Edits <- MCEdits
    Sockets <- MCSockets
    Deletable <- MCDeletable
    MaxOps = 2
INVARIANTS
    TypeOK
    ReadOnlyChangesNothing
    AckIsTrue
    Converged
    EveryUpdateAnswered
CHECK_DEADLOCK FALSE
VIEW View
