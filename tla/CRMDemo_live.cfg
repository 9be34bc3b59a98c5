CONSTANTS
    r1 = r1
    w1 = w1
    NoOwner = none
    Flavor = "es"
    Row <- MCRow
    Plan <- MCPlan
    Worker <- JustW1
    MaxRuns = 2
    Delta <- TwoRuns
    MaxAttempts = 1
    BatchSize = 2
SPECIFICATION FairSpec
PROPERTIES
    DemoEnds
