CONSTANTS
    Components = {"memory", "spaces", "ring", "vfs", "ext2", "grown"}
    VirtMax = 8
    FrameMax = 8
    FreeMax = 2
    Classes = {c1}
    SlotsOf <- MCSlots
    SlabMax = 1
    OverflowMax = 2
    CacheMax = 2
    LargeSizes = {2}
    StackPages = 1
    Dirs = {kernelDir, taskDir}
    KernelDir = kernelDir
    Task = {t1, t2, t3}
    Page = {text, data, 0}
    Image = {text, data}
    TextPages = {text}
    Value = {x, y}
    UserFrame = {1, 2, 3, 4, 5}
    Unmapped = none
    HeapPages = 1
    RefMax = 6
    LeakMax = 2
    WriteProtect = TRUE
    BufSize = 4
    IndexMod = 8
    Byte = {a, b, c}
    PoolSize = 7
    HeapNodes = 2
    RawMax = 3
    SegMax = 3
    MountMax = 3
    SizeMax = 1
    FdMax = 1
    TmpDir = "t"
    Archive <- MCArchive
    DevDir <- MCDevDir
    Devices <- MCDevices
    Inputs <- MCInputs
    BlocksCount = 10
    PerGroup = 6
    FirstBlock = 1
    InodesPerGroup = 4
    BgCount = 2
    Meta = {1, 7, 10}
    NDirect = 2
    PtrMax = 1
    DirCap = 3
    SlotMax = 2
    FileMax = 4
    FileName = {"a", "b"}
    VfsCalls = 7
    Ext2Calls = 4
    GrownCalls = 3
SPECIFICATION MCSpec
INVARIANTS
    PagesInOnePlace
    FramesPrivate
    CountsMatchSharers
    WritableUnshared
    TreeSound
    BlocksOwnedOnce
    FilesKeepContents
    RemountShowsTree
PROPERTIES
    ImplementsPrivateMemory
    ImplementsFifo
    ReadOnlyKept
VIEW MCView
CONSTRAINT MCBound
ACTION_CONSTRAINTS MCFirstFit MCRemount
CHECK_DEADLOCK FALSE
