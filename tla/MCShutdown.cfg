CONSTANTS
    edited = edited
    untouched = untouched
    Documents = {edited, untouched}
    Executions = {e1, e2, e3}
    Attempts = 1
    Most = 4
    MostStores = 2
SPECIFICATION ShutdownSpec
CHECK_DEADLOCK FALSE
CONSTRAINTS OneEdited Few
INVARIANTS ShutdownTypeOK NobodyWaitsInACircle
VIEW View
