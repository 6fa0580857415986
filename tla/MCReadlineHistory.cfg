CONSTANTS
    Parts = {"editor"}
    WindowMax = 2
    RowMax = 3
    MinHeight = 2
    QueueSize = 2
    RingSize = 3
    Clients = {"p"}
    Places <- MCPlaces
    Pictures = {"pic", "huge"}
    KbRing = 3
    LineMax = 4
    TypedMax = 4
    PacketMax = 4
    Deltas <- MCDeltas
    DeltaMax = 2
    ScreenW = 6
    ScreenH = 6
    Cols = 2
    TermRows = 2
    SbLines = 3
    TabStop = 8
    Texts <- MCTexts
    PressMax = 1
    BufSize = 2
    HistMax = 2
    ParamMax = 3
    Typing = {"enter", "up", "a", "D"}
    FdMax = 8
    Pipe = {1, 2, 3}
    JobMax = 2
    Pid = {1, 2, 3, 4, 5}
    Lines <- MCLines
    Scripts <- MCScripts
    Drive = {0, 1}
    Sectors = 3
    SectorSize = 2
    DeviceMax = 4
    PartMax = 2
    Tables <- MCTables
    Bytes = {"a"}
    GuiCalls = 3
    ConsoleCalls = 3
    KeysTyped = 12
    ShellLines = 3
    BlockCalls = 3
SPECIFICATION MCSpec
PROPERTY HistoryInOrder
VIEW MCView
CHECK_DEADLOCK FALSE
