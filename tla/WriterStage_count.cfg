CONSTANTS
    WriterCount = 2
    r1 = r1
    r2 = r2
    GhostID = ghost
    Row <- MCRow
    Plans <- MCPlans
SPECIFICATION FairSpec
INVARIANTS
    ReportedIsCommitted
