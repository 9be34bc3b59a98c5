CONSTANTS
    d1 = d1
    d2 = d2
    d3 = d3
    d4 = d4
    c1 = c1
    o1 = o1
    s1 = s1
    s2 = s2
    ThisWorker = w1
    Worker = {w1}
    NoOwner = none
    Absent = absent
    Stale = stale
    Ghost = ghost
    Entity <- MCEntity
    Delta <- ThreeDeltas
    Slot <- TwoSlots
    entityOf <- SameDocument
    RetryEntity <- JustC1
    DeadEntity <- JustO1
    Connections = {TRUE}
    PageSize = 2
    MaxAttempts = 2
    BatchSize = 2
SPECIFICATION Spec
INVARIANTS
    DocStaleIsOwed
PROPERTIES
    ImplementsReadModel
