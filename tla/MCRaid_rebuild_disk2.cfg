CONSTANTS
    DISKS = 3
    BlocksPerDisk = 2
    Levels = {"RAID5"}
    Procs = {p1}
    Calls <- SecondDiskCalls
    QuietOps = {"repair"}
    Pages = 1
    NoProc = NoProc
    Null = Null
    Zero = Zero
    Undef = Undef
    Unused = Unused
    Freed = Freed
SPECIFICATION ReadySpec
INVARIANT
    NoUndefined
CHECK_DEADLOCK FALSE
