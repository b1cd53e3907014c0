SPECIFICATION Spec
CONSTANTS
    g = g
    a = a
    c = c
    Beacons = {g, a, c}
    Genesis = g
    Space <- OneSpace
    NoSpace = "none"
    BeaconTTL = 1
    ReachableTTL = 1
    BlobGroup = 3
    MaxDelay = 0
    Scenarios <- Inbound
CHECK_DEADLOCK FALSE
INVARIANTS
    ClosedGoesQuiet
