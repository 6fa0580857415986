CONSTANTS
    init = init
    x = x
    y = y
    z = z
    idle = idle
    Idle = idle
    Init = init
    Task = {idle, init, x, y, z}
    MaxPrio = 2
    InitPrio = 2
    MaxChildren = 3
    Status = {0, 1}
    MaxPid = 5
    NoExit = NoExit
SYMMETRY MCSymmetry
SPECIFICATION TaskSpec
INVARIANTS
    NoLostWakeup
    StacksOwned
PROPERTIES
    ImplementsSched
    VictimLeavesNoChild
    ExitStatusDelivered
