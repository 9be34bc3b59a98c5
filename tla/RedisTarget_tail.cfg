CONSTANTS
    d1 = d1
    d2 = d2
    d3 = d3
    d4 = d4
    o1 = o1
    o2 = o2
    c1 = c1
    c2 = c2
    s1 = s1
    s2 = s2
    ThisWorker = w1
    Worker = {w1}
    NoOwner = none
    Leftover = noValue
    NoValue = noValue
    Delta <- FourDeltas
    Slot <- OneSlot
    Order <- MCOrder
    Customer <- MCCustomer
    CustomerOf <- MCCustomerOf
    FirstTotal <- MCTotals
    change <- TailPlan
    RetryOrder <- JustO1
    DeadOrder <- JustO2
    Connections = {TRUE}
    MaxGivenUp = 1
    MaxAttempts = 2
    BatchSize = 2
SPECIFICATION Spec
INVARIANTS
    TypeOK
    StaleIsOwed
    ReportStaleIsOwed
    OpsCountSyncedJobs
