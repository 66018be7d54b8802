SPECIFICATION FairSpec
CONSTANTS
    x = x
    y = y
    c1 = c1
    c2 = c2
    Clients <- OneClient
    Frames <- RequestFrames
    MaxFrames = 4
    IdMax = 4
    NodeTopics = {}
CHECK_DEADLOCK FALSE
INVARIANTS
    RepliesInRequestOrder
    SubscriptionsHold
    PublicationsAreAcknowledged
PROPERTIES
    QueueDrains
    EndsAtNextMessage
