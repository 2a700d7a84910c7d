CONSTANTS
    DISKS = 4
    BlocksPerDisk = 3
    Levels = {"RAID0", "RAID1", "RAID5"}
    Procs = {p1, p2}
    Calls <- StormCalls
    QuietOps = {}
    Pages = 1
    NoProc = NoProc
    Null = Null
    Zero = Zero
    Undef = Undef
    Unused = Unused
    Freed = Freed
SPECIFICATION FairSpec
PROPERTY
    CallsReturn
CHECK_DEADLOCK FALSE
