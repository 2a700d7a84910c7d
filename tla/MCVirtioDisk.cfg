CONSTANTS
    NUM = 7
    IdxMod = 14
    Procs = {p1, p2, p3}
    Bufs = {s1, s2, s3}
    Sectors = {s1, s2, s3}
    Values = {0, 1}
    Transfers <- OwnBuffer
    None = None
SPECIFICATION Spec
SYMMETRY Symmetry
INVARIANTS
    DescriptorsAccounted
    Transferred
