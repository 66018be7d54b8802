SPECIFICATION FairSpec
CONSTANTS
    x = x
    y = y
    c1 = c1
    c2 = c2
    t1 = t1
    t2 = t2
    a1 = a1
    Clients <- TwoClients
    Frames <- WatchOnly
    MaxFrames = 1
    IdMax = 4
    Txs <- OneTx
    Addresses <- MCAddresses
    Outputs <- OneOutputs
    Spends <- OneSpends
    Blocks <- NoBlock
    Capacities <- Remembered
    MaxReorgs = 0
    MaxLost = 1
    MaxLog = 4
CHECK_DEADLOCK FALSE
PROPERTIES
    ImplementsPubSub
    EveryoneAccepted
