CONSTANTS
    WriterCount = 3
    r1 = r1
    r2 = r2
    GhostID = ghost
    Row <- MCRow
    Plans <- MCPlans3
SPECIFICATION Spec
INVARIANTS
    VersionCountsDeltas
    CommittedInOrder
    OkMeansAllCommitted
    ReportedCountBounds
    NoWriterLeftBehind
PROPERTIES
    ImplementsContract
