CONSTANTS
    DISKS = 2
    BlocksPerDisk = 2
    Levels = {"RAID1"}
    Procs = {p1, p2}
    Calls <- LifecycleCalls
    QuietOps = {"init", "repair", "destroy"}
    Pages = 3
    NoProc = NoProc
    Null = Null
    Zero = Zero
    Undef = Undef
    Unused = Unused
    Freed = Freed
SYMMETRY ProcSymmetry
SPECIFICATION LifecycleSpec
INVARIANTS
    TypeOK
    NoUndefined
    ReadsCurrent
