SPECIFICATION Spec
CONSTANTS
    x = x
    y = y
    c1 = c1
    c2 = c2
    Clients <- TwoClients
    Frames <- AllFrames
    MaxFrames = 1
    IdMax = 4
    NodeTopics = {}
CHECK_DEADLOCK FALSE
SYMMETRY TwoSymmetric
INVARIANTS
    TypeOK
    NotesAreEarned
