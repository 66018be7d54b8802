SPECIFICATION Spec
CONSTANTS
    t1 = t1
    t2 = t2
    t3 = t3
    t4 = t4
    t5 = t5
    Item <- MCItem
    Capacities <- MCCapacities
    MaxLog = 6
INVARIANTS
    TypeOK
    SetMirrorsQueue
    QueueIsTailOfLog
    ReacceptedOnlyAfterWindow
PROPERTY
    ImplementsWindow
