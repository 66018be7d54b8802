SPECIFICATION Spec
CONSTANTS
    x = x
    y = y
    c1 = c1
    c2 = c2
    Clients <- TwoClients
    Frames <- PubSubFrames
    MaxFrames = 2
    IdMax = 4
    NodeTopics = {}
CHECK_DEADLOCK FALSE
SYMMETRY TwoSymmetric
INVARIANTS
    StreamOrder
    RepliesInRequestOrder
    SubscriptionsHold
PROPERTY
    ImplementsPubSub
