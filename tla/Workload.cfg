CONSTANTS
    Unset = unset
    Text = text
    Base = 3
    Width = 1
    Default <- MCDefault
    Environments <- MCEnvironments
    Earlier <- MCEarlier
SPECIFICATION Spec
INVARIANTS
    TypeOK
    PlanIsAccepted
    OneDeadLetter
    RetryIsReported
PROPERTIES
    ResetIsAtomic
