CONSTANTS
    c1 = c1
    c2 = c2
    a = a
    b = b
    NoHead = NoHead
    Client = {c1, c2}
    ObjectsOf <- OneObjectEach
    MaxIncrementalCommits = 2
    MaxCommits = 5
    MaxOutside = 2
SPECIFICATION Spec
INVARIANTS
    CursorIsCovered
PROPERTIES
    LimitIsExact
    RefusedOnlyForCause
