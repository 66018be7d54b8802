SPECIFICATION FairSpec
CONSTANTS
    x = x
    y = y
    c1 = c1
    c2 = c2
    t1 = t1
    t2 = t2
    a1 = a1
    Clients <- OneClient
    Frames <- Offers
    MaxFrames = 1
    IdMax = 4
    Txs <- MCTxs
    Addresses <- MCAddresses
    Outputs <- MCOutputs
    Spends <- MCSpends
    Blocks <- LongBlock
    Capacities <- Remembered
    MaxReorgs = 0
    MaxLost = 0
    MaxLog = 4
CHECK_DEADLOCK FALSE
PROPERTY
    PublishedProposalsUnspent
