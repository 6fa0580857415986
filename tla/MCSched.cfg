CONSTANTS
    Idle = idle
    Task = {idle, a, b, c}
    MaxPrio = 4
SPECIFICATION CycleSpec
INVARIANTS
    QueueInv
    CycleRunsEqualStaticPriority
    NoPriorityInversion
PROPERTIES
    TickIdlesOnlyAlone
    TickSkipsSuspended
    NoStarvation
