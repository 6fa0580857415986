CONSTANTS
    init = init
    x = x
    y = y
    z = z
    idle = idle
    Idle = idle
    Init = init
    Task = {idle, init, x, y}
    MaxPrio = 2
    InitPrio = 2
    MaxChildren = 3
    Status = {0, 1}
    MaxPid = 3
    NoExit = NoExit
SPECIFICATION FairTaskSpec
PROPERTIES
    CascadeEnds
    QueuedTaskRuns
    WokenWaiterReturns
