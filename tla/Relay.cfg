SPECIFICATION FairSpec
CONSTANTS
    x = x
    y = y
    c1 = c1
    c2 = c2
    t1 = t1
    t2 = t2
    a1 = a1
    Clients <- OneClient
    Frames <- WatchAndOffer
    MaxFrames = 2
    IdMax = 4
    Txs <- OneTx
    Addresses <- MCAddresses
    Outputs <- OneOutputs
    Spends <- OneSpends
    Blocks <- OneBlock
    Capacities <- Remembered
    MaxReorgs = 1
    MaxLost = 0
    MaxLog = 4
CHECK_DEADLOCK FALSE
INVARIANTS
    TypeOK
    NothingFallsBack
PROPERTIES
    ImplementsPubSub
    WatcherHearsBlock
    LeftWatcherEnds
    ClosedSenderPruned
