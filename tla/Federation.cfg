SPECIFICATION Spec
CONSTANTS
    g = g
    a = a
    c = c
    Beacons = {g, a, c}
    Genesis = g
    Space <- OneSpace
    NoSpace = "none"
    BeaconTTL = 2
    ReachableTTL = 1
    BlobGroup = 3
    MaxDelay = 0
    Scenarios <- TwoOrThree
CHECK_DEADLOCK FALSE
SYMMETRY Symmetry
INVARIANTS
    TypeOK
    ReachableWasUp
PROPERTIES
    AdvertsLive
    StaleNeverWins
