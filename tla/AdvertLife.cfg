SPECIFICATION Spec
CONSTANTS
    owner = owner
    b1 = b1
    b2 = b2
    Beacons = {owner, b1, b2}
    Owner = owner
    BeaconTTL = 1
    MaxDelay = 0
    MaxTime = 5
CHECK_DEADLOCK FALSE
SYMMETRY Symmetry
INVARIANTS
    TypeOK
    AdvertsDieOut
