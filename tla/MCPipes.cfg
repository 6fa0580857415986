CONSTANTS
    init = init
    p1 = p1
    p2 = p2
    cr = cr
    cw = cw
    n1 = n1
    n2 = n2
    n3 = n3
    Init = init
    Proc = {init, p1, p2}
    NFd = 2
    NStd = 1
    NSlot = 2
    Node = {cr, cw, n1, n2}
    ConsoleRead = cr
    ConsoleWrite = cw
    File = File
    Null = Null
    Capacity = 1
    RefMod = 16
    Length = {2}
SYMMETRY MCSymmetry
CONSTRAINT MCStackFound
SPECIFICATION PipesSpec
INVARIANTS
    RefsMatchFds
    BlockedCallKeepsPipe
PROPERTIES
    EofMeansNoWriter
    BrokenMeansNoReader
CHECK_DEADLOCK FALSE
