CONSTANTS
    s1 = s1
    s2 = s2
    State = {s1, s2}
    NoState = NoState
    LoadError = LoadError
    NoCommit = NoCommit
    Torn = Torn
    NoRoot = NoRoot
    MaxCandidate = 3
SPECIFICATION Spec
PROPERTY
    AcknowledgedSurvives
