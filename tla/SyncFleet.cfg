CONSTANTS
    d1 = d1
    d2 = d2
    k1 = k1
    k2 = k2
    p1 = p1
    p2 = p2
    p3 = p3
    NoEpoch = NoEpoch
    Device = {d1, d2}
    RevisionId = {1, 2}
    Value = {10}
    DomainKey = {k1, k2}
    PublicationId = {p1, p2, p3}
    IdsOf <- FleetIds
    PubsOf <- FleetPubs
    KeysOf <- FleetKeys
    DomainOf <- FleetDomains
    DirectReceivers = {d2}
    Republish = TRUE
    MaxForeign = 1
    MaxFaults = 1
    MaxSwitches = 1
    MaxDisturbances = 1
SPECIFICATION FleetSpec
INVARIANTS
    CursorNeverOutrunsState
    ReportsAreDurable
PROPERTY
    ImplementsMultiDomain
