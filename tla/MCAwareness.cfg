SPECIFICATION Spec
CONSTANTS
    alice = alice
    bob = bob
    Clients = {alice, bob}
    Speakers = {alice}
    Sockets <- MCSockets
    MaxClock = 2
    MaxInbox = 1
INVARIANTS
    TypeOK
    FirstIsCharged
    NeverAhead
    PeersAgree
CHECK_DEADLOCK FALSE
