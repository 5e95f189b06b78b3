SPECIFICATION Spec
CONSTANTS
    Containers = {c1, c2}
    MaxRecords = 2
    MaxDeletes = 1
    MaxResends = 1
INVARIANTS
    LogTypeOK
    DuplicatesOnlyAfterResend
    InOrder
PROPERTIES
    KeepsPromise
    RetriesHaveACause
