CONSTANTS
    MaxStages = 3
    MaxStops = 3
SPECIFICATION Spec
INVARIANTS
    LocalNotAhead
    AlarmOnlyAfterCatchUp
