CONSTANTS
    r1 = r1
    r2 = r2
    NoEpoch = NoEpoch
    Replica = {r1, r2}
    RevisionId = {1}
    Value = {10, 20}
    IdsOf <- SharedIds
SPECIFICATION Spec
INVARIANTS
    RestoreAccepts
