CONSTANTS
    RevisionId = {1, 2, 3, 4}
    Value <- MCValue
    NoEpoch = NoEpoch
    DomainKey <- MCDomainKey
    PublicationId = {1, 2}
    AtomId = {1, 2}
    ContinuumId = {1, 2}
    MaxSnapshotRevisions = 2
SPECIFICATION Spec
INVARIANTS
    ValidateIsExact
    WalksAreExact
    RoundTrips
    DamageIsRefused
    MergeLaws
CHECK_DEADLOCK FALSE
