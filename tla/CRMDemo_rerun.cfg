CONSTANTS
    r1 = r1
    w1 = w1
    NoOwner = none
    Flavor = "redis"
    Row <- MCRow
    Plan <- MCPlanOne
    Worker <- JustW1
    MaxRuns = 3
    Delta <- ThreeRuns
    MaxAttempts = 1
    BatchSize = 2
SPECIFICATION Spec
INVARIANTS
    TypeOK
    ReportIsTrue
    LeftoverHasLanded
    RowsMatchDeltas
PROPERTIES
    CountedIsFinal
