CONSTANTS
    NUM = 4
    IdxMod = 8
    Procs = {p1}
    Bufs = {b1}
    Sectors = {s1}
    Values = {0}
    Transfers <- AnyBuffer
    None = None
SPECIFICATION KillSpec
INVARIANT
    WokenFinished
