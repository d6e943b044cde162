CONSTANTS
    r1 = r1
    r2 = r2
    NoEpoch = NoEpoch
    Replica = {r1, r2}
    RevisionId = {1, 2, 3}
    Value = {10}
    IdsOf <- SeparateIds
SPECIFICATION Spec
INVARIANTS
    TypeOK
    RestoreAccepts
    EpochDominatesObserved
    ExposedHistoryFrozen
    OneStatementPerId
    MergeNeverRefused
    ExposureIsDurable
    OwnWorkIsLocal
PROPERTIES
    ExposureIsForever
