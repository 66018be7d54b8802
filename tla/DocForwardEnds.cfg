SPECIFICATION FairSpec
CONSTANTS
    x = x
    y = y
    c1 = c1
    c2 = c2
    Clients <- OneClient
    Frames <- PubSubFrames
    MaxFrames = 1
    IdMax = 4
    NodeTopics = {}
CHECK_DEADLOCK FALSE
PROPERTY
    HandlerFinishes
