CONSTANTS
    Parts = {"addressing", "copy", "heap", "locks", "console"}
    DISKS = 5
    BlocksPerDisk = 8
    UserPages = 3
    PageBytes = 2
    AddrMod = 8
    WordBytes = 3
    Lengths = {0, 1, 3, 5}
    HeapStart = 3
    HeapEnd = 13
    MinCore = 4
    UnitBytes = 2
    ByteCounts = {1, 4, 8}
    MaxHeapOps = 8
    p1 = p1
    p2 = p2
    ProcTable <- TwoThreads
    Harts = {c0, c1}
    Cpu0 = c0
    TickMod = 2
    SleepTimes = {1}
    Victims = {p1}
    NoThread = NoThread
    Readers = {r1}
    Writers = {w1}
    INPUT_BUF_SIZE = 2
    UART_TX_BUF_SIZE = 2
    ConsMod = 4
    ReadSizes = {1, 2}
    MaxKeys = 3
    ConsStart = 3
SPECIFICATION PartSpec
INVARIANTS
    OwnCell
    Rebuildable
    CopiesExact
    HeapPartitioned
    InterruptsSafe
    TicksNoticed
    NoForgottenWork
PROPERTY
    ConsoleImplements
