SPECIFICATION ExchangeSpec
CONSTANTS
    p1 = p1
    p2 = p2
    here = here
    elsewhere = elsewhere
    a = a
    b = b
    c = c
    d = d
    e = e
    k1 = k1
    k2 = k2
    PublicationId = {p1, p2}
    Continuum = here
    Wire <- MCWire
    MaxObjects = 7
    Keys <- MCKeys
    KeyOf <- MCKeyOf
    Edits <- MCEdits
    Baseline <- MCBaseline
    MaxExports = 2
INVARIANTS AcceptedIsWhole RefusedForCause PendingIsExact CleanIsPublished ImportsLast
CHECK_DEADLOCK FALSE
