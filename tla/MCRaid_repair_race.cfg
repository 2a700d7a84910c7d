CONSTANTS
    DISKS = 4
    BlocksPerDisk = 2
    Levels = {"RAID1"}
    Procs = {p1, p2}
    Calls <- OneBlockCalls
    QuietOps = {}
    Pages = 1
    NoProc = NoProc
    Null = Null
    Zero = Zero
    Undef = Undef
    Unused = Unused
    Freed = Freed
SPECIFICATION ReadySpec
INVARIANT
    HealthyDiskCurrent
CHECK_DEADLOCK FALSE
