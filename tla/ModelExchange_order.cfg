SPECIFICATION Spec
CONSTANTS
    MaxPrototypes = 3
    AbsorbNear = 1
    AbsorbFull = 2
    ConflictRadius = 3
    OverrideTrust = 600
    Stream <- MCStream
    Trusts <- MCTrusts
    MaxVersion = 4
CHECK_DEADLOCK FALSE
INVARIANTS
    OrderInvariant
