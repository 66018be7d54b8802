SPECIFICATION FairSpec
CONSTANTS
    t1 = t1
    t2 = t2
    t3 = t3
    a1 = a1
    a2 = a2
    Txs <- MCTxs
    Addresses <- MCAddresses
    Outputs <- MCOutputs
    Blocks <- MCBlocks
    Capacities <- MCCapacities
    MaxReorgs = 1
    MaxLost = 1
    MaxLog = 12
CHECK_DEADLOCK FALSE
INVARIANTS
    TypeOK
    MempoolNoticeFirst
    NoMempoolNoticeAfterBlock
    RepeatedOnlyAfterWindow
PROPERTY
    EveryBlockAnnounced
