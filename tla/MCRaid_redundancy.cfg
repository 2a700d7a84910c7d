CONSTANTS
    DISKS = 4
    BlocksPerDisk = 3
    Levels = {"RAID1", "RAID0_1", "RAID4", "RAID5"}
    Procs = {p1, p2}
    Calls <- RedundantCalls
    QuietOps = {"repair"}
    Pages = 1
    NoProc = NoProc
    Null = Null
    Zero = Zero
    Undef = Undef
    Unused = Unused
    Freed = Freed
SYMMETRY ProcSymmetry
SPECIFICATION ReadySpec
INVARIANTS
    ReadsCurrent
    HealthyDiskCurrent
    RedundancyCurrent
    WritersApart
    NoLockLeak
CHECK_DEADLOCK FALSE
