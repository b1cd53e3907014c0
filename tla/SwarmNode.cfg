SPECIFICATION Spec
CONSTANTS
    MaxPrototypes = 2
    AbsorbNear = 1
    AbsorbFull = 2
    ConflictRadius = 3
    OverrideTrust = 600
    Self = self
    Peers = {p1}
    Browsers = {b1}
    Classes <- MCClasses
    Stream <- BothStream
    Corrections <- FlippedClaim
    Batches <- VerdictBatches
    HoldoutSize = 1
    HoldoutMin = 1
    QuarantineSize = 1
    Corroboration = 2
    CorroborationRadius = 8
    MaxVersion = 2
    MaxVerdicts = 7
    MaxCalibrations = 2
CHECK_DEADLOCK FALSE
INVARIANTS
    TypeOK
    ForeignClassHasQuorum
    WithinBudget
    SixStrikes
PROPERTIES
    StrangersEvictNothing
