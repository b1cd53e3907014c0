SPECIFICATION Spec
CONSTANTS
    MaxPrototypes = 2
    AbsorbNear = 1
    AbsorbFull = 2
    ConflictRadius = 3
    OverrideTrust = 600
    Self = self
    Peers = {p1, p2}
    Browsers = {b1}
    Classes <- ThreeClasses
    Stream <- ThreeStream
    Corrections <- ForeignClaim
    Batches <- TrustBatches
    HoldoutSize = 1
    HoldoutMin = 1
    QuarantineSize = 3
    Corroboration = 3
    CorroborationRadius = 8
    MaxVersion = 6
    MaxVerdicts = 2
    MaxCalibrations = 0
SYMMETRY Symmetry
CHECK_DEADLOCK FALSE
INVARIANTS
    WithinBudget
