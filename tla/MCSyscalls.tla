----------------------------- MODULE MCSyscalls -----------------------------
(* The system calls of several processes, one part of the kernel at a time:  *)
(* the process table, the pages and page tables, the inode and file tables.  *)
(* A run explores those in Tables; the variables of the others keep their    *)
(* initial values.                                                           *)
EXTENDS ProcLife, Memory, Inodes, TLC

CONSTANT Tables
VARIABLE table

syscallVars == <<table, lifeVars, memVars, inodeVars>>

\* Programs for exec: one page, two segments that grow and two that do not,
\* and a segment that ends at address 0.
ElfFiles == {<<1>>, <<3, 1>>, <<1, 3>>, <<0>>}
SbrkArgs == {-3, 1, 3}

\* A disk with one directory, and calls that create, link, open and remove the
\* same few names in it, also from a process that is in the directory, and that
\* remove the directory and make another one.
OneDir == {<<ROOTINO, "e", 2, "dir">>}
Abs(names) == [abs |-> TRUE, names |-> names]
Rel(names) == [abs |-> FALSE, names |-> names]
PathCall(sys, path) == [sys |-> sys, path |-> path, new |-> path]
FileCalls ==
    {PathCall("create", Abs(<<"e", "f">>)), PathCall("open", Abs(<<"e", "f">>)),
     PathCall("unlink", Abs(<<"e", "f">>)), PathCall("unlink", Rel(<<"f">>)),
     PathCall("mkdir", Abs(<<"e">>)), PathCall("mknod", Abs(<<"e">>)),
     PathCall("chdir", Abs(<<"e">>)), PathCall("unlink", Abs(<<"e">>)),
     [sys |-> "link", path |-> Abs(<<"e", "f">>), new |-> Abs(<<"e", "g">>)]}

SyscallInit == table \in Tables /\ ProcInit /\ MemInit /\ InodeInit

SyscallNext ==
    \/ table = "processes" /\ ProcNext /\ UNCHANGED <<table, memVars, inodeVars>>
    \/ table = "pages" /\ MemNext /\ UNCHANGED <<table, lifeVars, inodeVars>>
    \/ table = "files" /\ InodeNext /\ UNCHANGED <<table, lifeVars, memVars>>

SyscallSpec == SyscallInit /\ [][SyscallNext]_syscallVars

UserSymmetry == Permutations(Users)
=============================================================================
