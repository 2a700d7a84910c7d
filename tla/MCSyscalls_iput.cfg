CONSTANTS
    Tables = {"files"}
    Slots = {init, sh, p3, p4}
    Init1 = init
    Shell = sh
    CPUs = {c1, c2}
    Nobody = Nobody
    Owners = {o1, o2}
    FirstOwner = o1
    NPAGES = 17
    PGSIZE = 2
    PTES = 2
    Increments <- SbrkArgs
    Programs <- ElfFiles
    MaxArgs = 1
    MaxCalls = 5
    Users = {u1, u2}
    Inums = {1, 2, 3, 4, 5}
    NINODE = 4
    NFILE = 2
    NOFILE = 2
    Tree <- OneDir
    Calls <- FileCalls
    MaxSyscalls = 4
    NoUser = NoUser
SYMMETRY UserSymmetry
SPECIFICATION SyscallSpec
INVARIANT
    NoOrphan
