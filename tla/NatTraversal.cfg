SPECIFICATION Spec
CONSTANTS
    left = left
    right = right
    rendezvous = rendezvous
    Natted = {left, right}
    Rendezvous = rendezvous
    EnableRelay = TRUE
    InFlight = 2
    Scenarios <- Troubles
CHECK_DEADLOCK FALSE
INVARIANTS
    TypeOK
    HandledOnce
    PunchedOrRelayed
PROPERTIES
    JoinEnds
