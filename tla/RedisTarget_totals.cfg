CONSTANTS
    d1 = d1
    d2 = d2
    d3 = d3
    d4 = d4
    o1 = o1
    o2 = o2
    c1 = c1
    c2 = c2
    s1 = s1
    s2 = s2
    ThisWorker = w1
    Worker = {w1}
    NoOwner = none
    Leftover = leftover
    NoValue = noValue
    Delta <- ThreeDeltas
    Slot <- TwoSlots
    Order <- MCOrder
    Customer <- MCCustomer
    CustomerOf <- MCCustomerOf
    FirstTotal <- MCTotals
    change <- TotalsPlan
    RetryOrder <- None
    DeadOrder <- None
    Connections = {TRUE, FALSE}
    MaxGivenUp = 0
    MaxAttempts = 1
    BatchSize = 2
SPECIFICATION Spec
INVARIANTS
    StaleIsOwed
    ReportStaleIsOwed
PROPERTIES
    ImplementsReadModel
