CONSTANTS
    Layers = {"cache", "log", "blocks"}
    Procs = {p1, p2}
    Blocks = {k1, k2, k3, k4}
    Values = {0, 1}
    LOGSIZE = 4
    MAXOPBLOCKS = 2
    LogBlocks = 5
    OpWrites = 2
    NoBuf = NoBuf
    BufUsers = {p1, p2}
    Bufs = {b1, b2}
    BufBlocks = {k1, k2, k3, k4}
    BufValues = {0, 1}
    MaxPins = 1
    Nil = Nil
    IoProcs = {w1, w2}
    OpenFiles = {"f1", "f2", "f3"}
    InodeOf <- TwoOnOne
    DataBlocks = {1, 2, 3}
    BSIZE = 2
    BPB = 1
    NDIRECT = 1
    NINDIRECT = 2
    OpBlocks = 6
    Counts = {1, 4}
    MaxIo = 3
    NoWriter = NoWriter
SYMMETRY LayerSymmetry
SPECIFICATION LayerSpec
CHECK_DEADLOCK FALSE
INVARIANTS
    NoPanic
    PinnedUntilInstalled
    NoNeedlessSleep
    ReadsLatest
    BufferObtained
    BlocksOwnedOnce
    FileContent
    SharedWritesDisjoint
    ChunkFitsLog
PROPERTY
    ImplementsStore
