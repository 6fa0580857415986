CONSTANTS
    init = init
    p1 = p1
    p2 = p2
    cr = cr
    cw = cw
    n1 = n1
    n2 = n2
    n3 = n3
    Init = init
    Proc = {init, p1}
    NFd = 2
    NStd = 0
    NSlot = 3
    Node = {cr, cw, n1, n2, n3}
    ConsoleRead = cr
    ConsoleWrite = cw
    File = File
    Null = Null
    Capacity = 1
    RefMod = 8
    Length = {2}
CONSTRAINT MCUndoToEnd
SPECIFICATION FairPipesSpec
INVARIANT FdsResolve
PROPERTY HangupIsNoticed
CHECK_DEADLOCK FALSE
