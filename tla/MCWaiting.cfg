CONSTANTS
    p1 = p1
    p2 = p2
    p3 = p3
    NUM = 4
    IdxMod = 8
    Procs = {p1, p2}
    Bufs = {b1, b2}
    Sectors = {s1, s2}
    Values = {0}
    Transfers <- AnyBuffer
    None = None
    PipeProcs = {p1, p2, p3}
    Bytes = {0, 1}
    PIPESIZE = 2
    PipeMod = 4
    Requests = {1, 3}
    Ends <- Roles
    MaxPipeCalls = 1
    NoProc = NoProc
SPECIFICATION WaitSpec
CHECK_DEADLOCK FALSE
INVARIANTS
    NoIdleSleeper
    PipeFreedOnce
PROPERTIES
    RequestsFinish
    PipeIsQueue
    PipeCallsReturn
