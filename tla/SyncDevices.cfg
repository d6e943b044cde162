CONSTANTS
    d1 = d1
    d2 = d2
    k1 = k1
    k2 = k2
    p1 = p1
    p2 = p2
    p3 = p3
    p4 = p4
    p5 = p5
    p6 = p6
    NoEpoch = NoEpoch
    Device = {d1, d2}
    RevisionId = {1, 2}
    Value = {10}
    DomainKey = {k1}
    PublicationId = {p1, p2, p3, p4, p5, p6}
    IdsOf <- OneIdEach
    PubsOf <- ThreePubsEach
    KeysOf <- SameKey
    DirectReceivers = {}
    Republish = FALSE
    MaxForeign = 0
    MaxFaults = 1
    MaxSwitches = 1
    MaxDisturbances = 3
SPECIFICATION FairSpec
INVARIANTS
    TypeOK
    CursorNeverOutrunsState
    ExposureBeforeWire
    NoLostPublication
    CatchUpOnlyNeedsSeals
PROPERTY
    EventuallyDrained
