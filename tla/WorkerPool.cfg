CONSTANTS
    d1 = d1
    d2 = d2
    w1 = w1
    w2 = w2
    NoOwner = none
    Delta <- TwoDeltas
    Worker <- TwoWorkers
    MaxAttempts = 2
    BatchSize = 2
SPECIFICATION FairSpec
INVARIANTS
    TypeOK
    NilMeansDrained
    ErrorSendNeverBlocks
PROPERTIES
    TerminalIsFinal
    EveryDeltaSettles
    PoolReturns
