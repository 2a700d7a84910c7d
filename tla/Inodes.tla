------------------------------- MODULE Inodes -------------------------------
(* Inodes, directories, path names and open files: the inode table of        *)
(* kernel/fs.c, the system calls of kernel/sysfile.c and the file table of   *)
(* kernel/file.c.  Calls of several processes interleave wherever one waits  *)
(* for, or gives up, an inode's sleep lock or drops a reference; what is     *)
(* done under one lock only is one step.  What files contain is the subject  *)
(* of FsBlocks, the transaction around each call that of FsLog.              *)
EXTENDS Naturals, FiniteSets, Sequences

CONSTANTS Users,     \* processes
          Inums,     \* inode numbers on disk, 1 is ROOTINO
          NINODE,    \* entries of the inode table
          NFILE,     \* entries of the file table
          NOFILE,    \* descriptors of a process
          Tree,      \* entries on the disk at boot: <<directory, name, inode, type>>
          Calls,     \* the calls made: system call, path, second path of link
          MaxSyscalls,
          NoUser

ROOTINO == 1
Paths == [abs : BOOLEAN, names : Seq(STRING)]
T(i) == {e \in Tree : e[3] = i}

ASSUME InodeAssumption ==
    /\ ROOTINO \in Inums /\ Inums \subseteq Nat \ {0} /\ IsFiniteSet(Inums)
    /\ NINODE \in Nat /\ NFILE \in Nat /\ NOFILE \in Nat /\ MaxSyscalls \in Nat
    /\ NoUser \notin Users /\ IsFiniteSet(Users) /\ IsFiniteSet(Tree)
    /\ Calls \subseteq [sys : {"open", "chdir", "link", "create", "mkdir", "mknod", "unlink"}, path : Paths, new : Paths]
    /\ \A e \in Tree : e[1] \in Inums /\ e[3] \in Inums \ {ROOTINO} /\ e[4] \in {"file", "dir", "nodev"}
    /\ \A i \in Inums \ {ROOTINO} : Cardinality(T(i)) <= 1

VARIABLES
    dino,    \* the inodes on disk: type ("free" is 0) and nlink
    ents,    \* the directory entries: <<directory, name, inode>>
    lost,    \* ghost: how many names of an inode went with a removed directory
    itab,    \* the inode table, by the inode an entry is for
    ilk,     \* who holds ip->lock
    ftab,    \* the file table: references and the inode (0: no inode behind it)
    ofile,   \* the open descriptors: <<descriptor, file>>
    cwd,     \* p->cwd
    sysc,    \* the call a process is in, with its locals
    made,    \* calls made so far
    fpanic   \* a panic was reached

dirVars == <<dino, ents, lost>>
fileVars == <<ftab, ofile, cwd, made>>
inodeVars == <<dirVars, itab, ilk, fileVars, sysc, fpanic>>

\* The locals: the system call; where it is; where it goes on after namex
\* (then), when namex fails (fail) and when the inodes in puts are put (back);
\* the rest of the path; whether namex stops at the parent; the inodes it
\* holds a reference to (ip, dp, target of link); the last name.
Idle == [sys |-> "none", pc |-> "user", then |-> "user", fail |-> "user", back |-> "user",
         path |-> <<>>, par |-> FALSE, ip |-> 0, dp |-> 0, target |-> 0, name |-> "", puts |-> <<>>, arg |-> <<>>]
Gone == [Idle EXCEPT !.pc = "gone"]

NoEntry == [ref |-> 0, valid |-> FALSE, type |-> "free", nlink |-> 0]

\* A directory has a link from its entry and one from the ".." of each
\* subdirectory; the root's own ".." counts as its entry.
InitLinks(i) == 1 + Cardinality({e \in Tree : e[1] = i /\ e[4] = "dir"})

InodeInit ==
    /\ dino = [i \in Inums |->
        IF i = ROOTINO THEN [type |-> "dir", nlink |-> InitLinks(i)]
        ELSE IF T(i) = {} THEN [type |-> "free", nlink |-> 0]
        ELSE LET e == CHOOSE e \in T(i) : TRUE IN [type |-> e[4], nlink |-> IF e[4] = "dir" THEN InitLinks(i) ELSE 1]]
    /\ ents = {<<e[1], e[2], e[3]>> : e \in Tree}
              \union {<<e[3], "..", e[1]>> : e \in {x \in Tree : x[4] = "dir"}}
    /\ lost = [i \in Inums |-> 0]
    /\ itab = [i \in Inums |-> IF i = ROOTINO THEN [NoEntry EXCEPT !.ref = Cardinality(Users)] ELSE NoEntry]
    /\ ilk = [i \in Inums |-> NoUser]
    /\ ftab = [f \in 1 .. NFILE |-> [ref |-> 0, ip |-> 0]]
    /\ ofile = [p \in Users |-> {}]
    /\ cwd = [p \in Users |-> ROOTINO]
    /\ sysc = [p \in Users |-> Idle]
    /\ made = 0 /\ fpanic = FALSE

-----------------------------------------------------------------------------
(* The inode table.                                                          *)

Iget(tab, i) ==
    IF tab[i].ref > 0 THEN [tab EXCEPT ![i].ref = @ + 1] ELSE [tab EXCEPT ![i] = [NoEntry EXCEPT !.ref = 1]]
TableFull(tab, i) == tab[i].ref = 0 /\ Cardinality({j \in Inums : tab[j].ref > 0}) >= NINODE

\* ilock, once the sleep lock is there: the copy is read if it is not valid.
Ilock(tab, i) ==
    IF tab[i].valid THEN tab
    ELSE [tab EXCEPT ![i] = [ref |-> @.ref, valid |-> TRUE, type |-> dino[i].type, nlink |-> dino[i].nlink]]
NoType(tab, i) == ~tab[i].valid /\ dino[i].type = "free"
LockFree(i) == ilk[i] = NoUser
Iunlock(lk, i) == [lk EXCEPT ![i] = NoUser]

\* A change of the copy and iupdate.
Linked(tab, i, by) == [tab EXCEPT ![i].nlink = @ + by]
Updated(tab, i) == [dino EXCEPT ![i] = [type |-> tab[i].type, nlink |-> tab[i].nlink]]

\* dirlookup: the inode the name stands for, 0 if there is none.
Lookup(d, name) ==
    IF name = "." THEN d
    ELSE IF \E e \in ents : e[1] = d /\ e[2] = name
         THEN (CHOOSE e \in ents : e[1] = d /\ e[2] = name)[3] ELSE 0
\* dirlink of a name that is not in the directory yet.
Dirlink(es, d, name, i) == es \union {<<d, name, i>>}

IsDirEmpty(d) == \A e \in ents : e[1] = d => e[2] = ".."

At(p, where) == sysc[p].pc = where
Goto(c, where) == CASE where = "user" -> Idle [] where = "gone" -> Gone [] OTHER -> [c EXCEPT !.pc = where]
Now(p, c) == sysc' = [sysc EXCEPT ![p] = c]

\* Put the inodes one after the other, then go on.
PutThen(c, inodes, where) == [c EXCEPT !.pc = "put", !.puts = inodes, !.back = where]
PutDone(c) == IF Len(c.puts) = 1 THEN Goto([c EXCEPT !.puts = <<>>], c.back)
              ELSE [c EXCEPT !.pc = "put", !.puts = Tail(@)]

\* iput: the last reference to an inode without links frees it.  The check is
\* made under itable.lock, and the sleep lock taken before that is released.
LastRef_Shared(i) == itab[i].valid /\ itab[i].nlink = 0
LastRef(i) == itab[i].ref = 1 /\ itab[i].valid /\ itab[i].nlink = 0

Iput(p) ==
    LET i == Head(sysc[p].puts) IN
    /\ At(p, "put")
    /\ \/ /\ ~LastRef(i)
          /\ itab' = [itab EXCEPT ![i].ref = @ - 1]
          /\ Now(p, PutDone(sysc[p]))
          /\ UNCHANGED ilk
       \/ /\ LastRef(i) /\ LockFree(i)
          /\ ilk' = [ilk EXCEPT ![i] = p]
          /\ Now(p, [sysc[p] EXCEPT !.pc = "free"])
          /\ UNCHANGED itab
    /\ UNCHANGED <<dirVars, fileVars, fpanic>>

\* itrunc, type = 0 and iupdate: from here ialloc may hand the inode out.
IputFree(p) ==
    LET i == Head(sysc[p].puts) IN
    /\ At(p, "free")
    /\ dino' = [dino EXCEPT ![i] = [type |-> "free", nlink |-> itab[i].nlink]]
    /\ ents' = {e \in ents : e[1] # i}
    /\ lost' = [j \in Inums |-> lost[j] + Cardinality({e \in ents : e[1] = i /\ e[2] # ".." /\ e[3] = j})]
    /\ itab' = [itab EXCEPT ![i].type = "free"]
    /\ Now(p, [sysc[p] EXCEPT !.pc = "invalidate"])
    /\ UNCHANGED <<ilk, fileVars, fpanic>>

IputInvalidate_Late(p) ==
    LET i == Head(sysc[p].puts) IN
    /\ At(p, "invalidate")
    /\ ilk' = [ilk EXCEPT ![i] = NoUser]
    /\ Now(p, [sysc[p] EXCEPT !.pc = "unref"])
    /\ UNCHANGED <<dirVars, itab, fileVars, fpanic>>

IputInvalidate(p) ==
    LET i == Head(sysc[p].puts) IN
    /\ At(p, "invalidate")
    /\ itab' = [itab EXCEPT ![i].valid = FALSE]
    /\ ilk' = [ilk EXCEPT ![i] = NoUser]
    /\ Now(p, [sysc[p] EXCEPT !.pc = "unref"])
    /\ UNCHANGED <<dirVars, fileVars, fpanic>>

IputUnref(p) ==
    /\ At(p, "unref")
    /\ itab' = [itab EXCEPT ![Head(sysc[p].puts)].ref = @ - 1]
    /\ Now(p, PutDone(sysc[p]))
    /\ UNCHANGED <<dirVars, ilk, fileVars, fpanic>>

-----------------------------------------------------------------------------
(* namex                                                                     *)

\* iget of the root or idup of the current directory.
Start(p, path) == IF path.abs THEN ROOTINO ELSE cwd[p]

\* What the first call of namex in a system call looks for.
Looks(p, call) ==
    [Idle EXCEPT !.sys = call.sys, !.pc = "walk", !.then = call.sys, !.path = call.path.names,
                 !.par = call.sys \in {"create", "mkdir", "mknod", "unlink"},
                 !.ip = Start(p, call.path), !.arg = <<call.new>>]

Syscall(p, call) ==
    /\ At(p, "user") /\ made < MaxSyscalls
    /\ itab' = Iget(itab, Start(p, call.path))
    /\ fpanic' = (fpanic \/ TableFull(itab, Start(p, call.path)))
    /\ Now(p, Looks(p, call))
    /\ made' = made + 1
    /\ UNCHANGED <<dirVars, ilk, ftab, ofile, cwd>>

\* The path has been used up: namei returns the inode, nameiparent fails.
NamexEnd(p) ==
    LET c == sysc[p] IN
    /\ At(p, "walk") /\ c.path = <<>>
    /\ Now(p, IF c.par THEN PutThen([c EXCEPT !.ip = 0], <<c.ip>>, c.fail) ELSE [c EXCEPT !.pc = c.then])
    /\ UNCHANGED <<dirVars, itab, ilk, fileVars, fpanic>>

\* One turn of the loop, under the lock of the inode reached.
Namex(p) ==
    LET c == sysc[p]
        i == c.ip
        tab == Ilock(itab, i)
        next == Lookup(i, Head(c.path))
    IN
    /\ At(p, "walk") /\ c.path # <<>> /\ LockFree(i)
    /\ \/ /\ tab[i].type = "dir" /\ c.par /\ Len(c.path) = 1
          /\ itab' = tab
          /\ Now(p, [c EXCEPT !.pc = c.then, !.ip = 0, !.dp = i, !.name = Head(c.path), !.path = <<>>])
          /\ fpanic' = (fpanic \/ NoType(itab, i))
       \/ /\ tab[i].type = "dir" /\ ~(c.par /\ Len(c.path) = 1) /\ next # 0
          /\ itab' = Iget(tab, next)
          /\ Now(p, PutThen([c EXCEPT !.ip = next, !.path = Tail(@)], <<i>>, "walk"))
          /\ fpanic' = (fpanic \/ NoType(itab, i) \/ TableFull(tab, next))
       \/ /\ tab[i].type # "dir" \/ (~(c.par /\ Len(c.path) = 1) /\ next = 0)
          /\ itab' = tab
          /\ Now(p, PutThen([c EXCEPT !.ip = 0, !.path = <<>>], <<i>>, c.fail))
          /\ fpanic' = (fpanic \/ NoType(itab, i))
    /\ UNCHANGED <<dirVars, ilk, fileVars>>

-----------------------------------------------------------------------------
(* Open files.                                                               *)

FreeFiles == {f \in 1 .. NFILE : ftab[f].ref = 0}
FreeFds(p) == {fd \in 0 .. NOFILE - 1 : \A o \in ofile[p] : o[1] # fd}
Least(S) == CHOOSE x \in S : \A y \in S : x <= y

\* argfd: the open file of a descriptor, if there is one.
Argfd(p, fd) == {o[2] : o \in {q \in ofile[p] : q[1] = fd}}

\* sys_open with the inode locked, whether it was found or created: a file and
\* a descriptor, or iunlockput.  Directories open for reading only; a device
\* must have a driver.
Opened(p, tab, i, allowed) ==
    LET f == Least(FreeFiles)
        fd == Least(FreeFds(p))
    IN
    \/ /\ allowed /\ FreeFiles # {} /\ FreeFds(p) # {}
       /\ ftab' = [ftab EXCEPT ![f] = [ref |-> 1, ip |-> i]]
       /\ ofile' = [ofile EXCEPT ![p] = @ \union {<<fd, f>>}]
       /\ itab' = tab
       /\ Now(p, Idle)
    \/ /\ ~allowed \/ FreeFiles = {} \/ FreeFds(p) = {}
       /\ itab' = tab
       /\ Now(p, PutThen([sysc[p] EXCEPT !.ip = 0], <<i>>, "user"))
       /\ UNCHANGED <<ftab, ofile>>

Open(p, rdonly) ==
    LET i == sysc[p].ip
        tab == Ilock(itab, i)
    IN
    /\ At(p, "open") /\ LockFree(i)
    /\ Opened(p, tab, i, (tab[i].type = "dir" => rdonly) /\ tab[i].type # "nodev")
    /\ fpanic' = (fpanic \/ NoType(itab, i))
    /\ UNCHANGED <<dirVars, ilk, cwd, made>>

\* fileclose: the last reference puts the inode.
Close(p, fd, where) ==
    LET f == CHOOSE g \in Argfd(p, fd) : TRUE
        last == ftab[f].ref = 1
    IN
    /\ ofile' = [ofile EXCEPT ![p] = {o \in @ : o[1] # fd}]
    /\ ftab' = [ftab EXCEPT ![f] = IF last THEN [ref |-> 0, ip |-> 0] ELSE [ref |-> @.ref - 1, ip |-> @.ip]]
    /\ Now(p, IF last /\ ftab[f].ip # 0 THEN PutThen([sysc[p] EXCEPT !.sys = "close"], <<ftab[f].ip>>, where)
              ELSE Goto(sysc[p], where))

SysClose(p, fd) ==
    /\ At(p, "user") /\ made < MaxSyscalls /\ Argfd(p, fd) # {}
    /\ Close(p, fd, "user")
    /\ made' = made + 1
    /\ UNCHANGED <<dirVars, itab, ilk, cwd, fpanic>>

SysDup(p, fd) ==
    \E f \in Argfd(p, fd) :
    /\ At(p, "user") /\ made < MaxSyscalls
    /\ FreeFds(p) # {}
    /\ ofile' = [ofile EXCEPT ![p] = @ \union {<<Least(FreeFds(p)), f>>}]
    /\ ftab' = [ftab EXCEPT ![f].ref = @ + 1]
    /\ made' = made + 1
    /\ UNCHANGED <<dirVars, itab, ilk, cwd, sysc, fpanic>>

\* sys_pipe takes two files and two descriptors, or gives back what it got;
\* the descriptors are also given back if they cannot be copied out.
SysPipe(p) ==
    LET f == Least(FreeFiles)
        g == Least(FreeFiles \ {f})
        fd == Least(FreeFds(p))
        gd == Least(FreeFds(p) \ {fd})
    IN
    /\ At(p, "user") /\ made < MaxSyscalls
    /\ Cardinality(FreeFiles) >= 2 /\ Cardinality(FreeFds(p)) >= 2
    /\ ftab' = [ftab EXCEPT ![f].ref = 1, ![g].ref = 1]
    /\ ofile' = [ofile EXCEPT ![p] = @ \union {<<fd, f>>, <<gd, g>>}]
    /\ made' = made + 1
    /\ UNCHANGED <<dirVars, itab, ilk, cwd, sysc, fpanic>>

\* fork duplicates the descriptors and the current directory; exit closes and
\* puts them one after the other.
Shares(p, f) == Cardinality({o \in ofile[p] : o[2] = f})

ForkFiles(p, q) ==
    /\ At(p, "user") /\ At(q, "gone") /\ made < MaxSyscalls
    /\ ofile' = [ofile EXCEPT ![q] = ofile[p]]
    /\ ftab' = [f \in 1 .. NFILE |-> [ftab[f] EXCEPT !.ref = @ + Shares(p, f)]]
    /\ cwd' = [cwd EXCEPT ![q] = cwd[p]]
    /\ itab' = [itab EXCEPT ![cwd[p]].ref = @ + 1]
    /\ Now(q, Idle)
    /\ made' = made + 1
    /\ UNCHANGED <<dirVars, ilk, fpanic>>

ExitFiles(p) ==
    /\ At(p, "user") /\ made < MaxSyscalls
    /\ Now(p, [Idle EXCEPT !.pc = "exit"])
    /\ made' = made + 1
    /\ UNCHANGED <<dirVars, itab, ilk, ftab, ofile, cwd, fpanic>>

ExitClose(p) ==
    /\ At(p, "exit")
    /\ \/ /\ ofile[p] # {}
          /\ Close(p, Least({o[1] : o \in ofile[p]}), "exit")
          /\ UNCHANGED cwd
       \/ /\ ofile[p] = {}
          /\ Now(p, PutThen(sysc[p], <<cwd[p]>>, "gone"))
          /\ cwd' = [cwd EXCEPT ![p] = 0]
          /\ UNCHANGED <<ftab, ofile>>
    /\ UNCHANGED <<dirVars, itab, ilk, made, fpanic>>

SysChdir(p) ==
    LET i == sysc[p].ip
        tab == Ilock(itab, i)
    IN
    /\ At(p, "chdir") /\ LockFree(i)
    /\ itab' = tab
    /\ fpanic' = (fpanic \/ NoType(itab, i))
    /\ \/ /\ tab[i].type = "dir"
          /\ cwd' = [cwd EXCEPT ![p] = i]
          /\ Now(p, PutThen([sysc[p] EXCEPT !.ip = 0], <<cwd[p]>>, "user"))
       \/ /\ tab[i].type # "dir"
          /\ Now(p, PutThen([sysc[p] EXCEPT !.ip = 0], <<i>>, "user"))
          /\ UNCHANGED cwd
    /\ UNCHANGED <<dirVars, ilk, ftab, ofile, made>>

-----------------------------------------------------------------------------
(* create: sys_open with O_CREATE, sys_mkdir, sys_mknod                      *)

NewType(c) == CASE c.sys = "create" -> "file" [] c.sys = "mkdir" -> "dir" [] OTHER -> "nodev"

\* Under the lock of the parent: the name exists, or the lock is kept.
CreateLook(p) ==
    LET c == sysc[p]
        tab == Ilock(itab, c.dp)
        i == Lookup(c.dp, c.name)
    IN
    /\ c.pc \in {"create", "mkdir", "mknod"} /\ LockFree(c.dp)
    /\ \/ /\ i # 0
          /\ itab' = Iget(tab, i)
          /\ Now(p, PutThen([c EXCEPT !.dp = 0, !.ip = i], <<c.dp>>, "found"))
          /\ fpanic' = (fpanic \/ NoType(itab, c.dp) \/ TableFull(tab, i))
          /\ UNCHANGED ilk
       \/ /\ i = 0
          /\ itab' = tab
          /\ ilk' = [ilk EXCEPT ![c.dp] = p]
          /\ Now(p, [c EXCEPT !.pc = "ialloc"])
          /\ fpanic' = (fpanic \/ NoType(itab, c.dp))
    /\ UNCHANGED <<dirVars, fileVars>>

\* An existing file or device may be opened, nothing else.
CreateFound(p) ==
    LET i == sysc[p].ip
        tab == Ilock(itab, i)
    IN
    /\ At(p, "found") /\ LockFree(i)
    /\ Opened(p, tab, i, sysc[p].sys = "create" /\ tab[i].type = "file")
    /\ fpanic' = (fpanic \/ NoType(itab, i))
    /\ UNCHANGED <<dirVars, ilk, cwd, made>>

Ialloc(p) ==
    LET c == sysc[p]
        avail == {i \in Inums : dino[i].type = "free"}
        i == Least(avail)
    IN
    /\ At(p, "ialloc")
    /\ \/ /\ avail # {}
          /\ dino' = [dino EXCEPT ![i] = [type |-> NewType(c), nlink |-> 0]]
          /\ itab' = Iget(itab, i)
          /\ fpanic' = (fpanic \/ TableFull(itab, i))
          /\ Now(p, [c EXCEPT !.pc = "fill", !.ip = i])
       \/ /\ avail = {}
          /\ Now(p, [c EXCEPT !.pc = "release"])
          /\ UNCHANGED <<dino, itab, fpanic>>
    /\ UNCHANGED <<ents, lost, ilk, fileVars>>

\* The new inode is locked too: the process that freed it may still hold it.
\* Then its link count and its entry, unless the directory cannot grow.
CreateFill(p) ==
    LET c == sysc[p]
        isdir == c.sys = "mkdir"
        tab == [Ilock(itab, c.ip) EXCEPT ![c.ip].nlink = 1]
        linked == IF isdir THEN Linked(tab, c.dp, 1) ELSE tab
        dot == {<<c.ip, "..", c.dp>> : x \in {y \in {1} : isdir}}
    IN
    /\ At(p, "fill") /\ LockFree(c.ip)
    /\ fpanic' = (fpanic \/ NoType(itab, c.ip))
    /\ \/ /\ ents' = Dirlink(ents \union dot, c.dp, c.name, c.ip)
          /\ itab' = linked
          /\ dino' = [Updated(linked, c.ip) EXCEPT ![c.dp].nlink = linked[c.dp].nlink]
          /\ ilk' = [Iunlock(ilk, c.dp) EXCEPT ![c.ip] = p]
          /\ Now(p, PutThen([c EXCEPT !.dp = 0], <<c.dp>>, "created"))
       \/ /\ ents' = ents \union dot
          /\ itab' = [tab EXCEPT ![c.ip].nlink = 0]
          /\ dino' = Updated(itab', c.ip)
          /\ Now(p, PutThen([c EXCEPT !.ip = 0], <<c.ip>>, "release"))
          /\ UNCHANGED ilk
    /\ UNCHANGED <<lost, fileVars>>

\* iunlockput of the parent, on the way out.
Release(p) ==
    LET d == sysc[p].dp IN
    /\ At(p, "release")
    /\ ilk' = Iunlock(ilk, d)
    /\ Now(p, PutThen([sysc[p] EXCEPT !.dp = 0], <<d>>, "user"))
    /\ UNCHANGED <<dirVars, itab, fileVars, fpanic>>

Created(p) ==
    LET i == sysc[p].ip IN
    /\ At(p, "created")
    /\ ilk' = Iunlock(ilk, i)
    /\ Opened(p, itab, i, sysc[p].sys = "create")
    /\ UNCHANGED <<dirVars, cwd, made, fpanic>>

-----------------------------------------------------------------------------
(* sys_link, sys_unlink                                                      *)

\* The count goes up before the second path is looked up.
LinkCount(p) ==
    LET c == sysc[p]
        i == c.ip
        tab == Ilock(itab, i)
        new == Head(c.arg)
        from == Start(p, new)
    IN
    /\ At(p, "link") /\ LockFree(i)
    /\ \/ /\ tab[i].type = "dir"
          /\ itab' = tab
          /\ Now(p, PutThen([c EXCEPT !.ip = 0], <<i>>, "user"))
          /\ fpanic' = (fpanic \/ NoType(itab, i))
          /\ UNCHANGED dino
       \/ /\ tab[i].type # "dir"
          /\ itab' = Iget(Linked(tab, i, 1), from)
          /\ dino' = Updated(Linked(tab, i, 1), i)
          /\ Now(p, [c EXCEPT !.target = i, !.ip = from, !.path = new.names, !.par = TRUE,
                              !.then = "dirlink", !.fail = "undo", !.pc = "walk"])
          /\ fpanic' = (fpanic \/ NoType(itab, i) \/ TableFull(tab, from))
    /\ UNCHANGED <<ents, lost, ilk, fileVars>>

\* dirlink fails if the name exists, whose inode dirlookup gets and dirlink
\* puts under the lock of the directory, or if the directory cannot grow.
LinkEnter(p) ==
    LET c == sysc[p]
        tab == Ilock(itab, c.dp)
        i == Lookup(c.dp, c.name)
    IN
    /\ At(p, "dirlink") /\ LockFree(c.dp)
    /\ \/ /\ i # 0
          /\ itab' = Iget(tab, i)
          /\ ilk' = [ilk EXCEPT ![c.dp] = p]
          /\ Now(p, PutThen(c, <<i>>, "exists"))
          /\ fpanic' = (fpanic \/ NoType(itab, c.dp) \/ TableFull(tab, i))
          /\ UNCHANGED ents
       \/ /\ i = 0
          /\ itab' = tab
          /\ fpanic' = (fpanic \/ NoType(itab, c.dp))
          /\ \/ /\ ents' = Dirlink(ents, c.dp, c.name, c.target)
                /\ Now(p, PutThen([c EXCEPT !.dp = 0, !.target = 0], <<c.dp, c.target>>, "user"))
             \/ /\ Now(p, PutThen([c EXCEPT !.dp = 0], <<c.dp>>, "undo"))
                /\ UNCHANGED ents
          /\ UNCHANGED ilk
    /\ UNCHANGED <<dino, lost, fileVars>>

\* iunlockput of the directory that has the name already.
LinkExists(p) ==
    LET d == sysc[p].dp IN
    /\ At(p, "exists")
    /\ ilk' = Iunlock(ilk, d)
    /\ Now(p, PutThen([sysc[p] EXCEPT !.dp = 0], <<d>>, "undo"))
    /\ UNCHANGED <<dirVars, itab, fileVars, fpanic>>

LinkUndo(p) ==
    LET i == sysc[p].target IN
    /\ At(p, "undo") /\ LockFree(i)
    /\ itab' = Linked(Ilock(itab, i), i, 0 - 1)
    /\ dino' = Updated(itab', i)
    /\ Now(p, PutThen([sysc[p] EXCEPT !.target = 0], <<i>>, "user"))
    /\ fpanic' = (fpanic \/ NoType(itab, i))
    /\ UNCHANGED <<ents, lost, ilk, fileVars>>

UnlinkLook(p) ==
    LET c == sysc[p]
        tab == Ilock(itab, c.dp)
        i == Lookup(c.dp, c.name)
    IN
    /\ At(p, "unlink") /\ LockFree(c.dp)
    /\ \/ /\ c.name \in {".", ".."} \/ i = 0
          /\ itab' = tab
          /\ Now(p, PutThen([c EXCEPT !.dp = 0], <<c.dp>>, "user"))
          /\ fpanic' = (fpanic \/ NoType(itab, c.dp))
          /\ UNCHANGED ilk
       \/ /\ c.name \notin {".", ".."} /\ i # 0
          /\ itab' = Iget(tab, i)
          /\ ilk' = [ilk EXCEPT ![c.dp] = p]
          /\ Now(p, [c EXCEPT !.ip = i, !.pc = "erase"])
          /\ fpanic' = (fpanic \/ NoType(itab, c.dp) \/ TableFull(tab, i))
    /\ UNCHANGED <<dirVars, fileVars>>

\* Both locked: the entry goes, unless it is a directory with entries.
UnlinkErase(p) ==
    LET c == sysc[p]
        tab == Ilock(itab, c.ip)
        isdir == tab[c.ip].type = "dir"
        kept == isdir /\ ~IsDirEmpty(c.ip)
    IN
    /\ At(p, "erase") /\ LockFree(c.ip)
    /\ fpanic' = (fpanic \/ NoType(itab, c.ip) \/ tab[c.ip].nlink < 1)
    /\ \/ /\ kept
          /\ itab' = tab
          /\ Now(p, PutThen([c EXCEPT !.ip = 0], <<c.ip>>, "release"))
          /\ UNCHANGED <<dino, ents, ilk>>
       \/ /\ ~kept
          /\ ents' = ents \ {<<c.dp, c.name, c.ip>>}
          /\ itab' = IF isdir THEN Linked(tab, c.dp, 0 - 1) ELSE tab
          /\ dino' = Updated(itab', c.dp)
          /\ ilk' = [Iunlock(ilk, c.dp) EXCEPT ![c.ip] = p]
          /\ Now(p, PutThen([c EXCEPT !.dp = 0], <<c.dp>>, "drop"))
    /\ UNCHANGED <<lost, fileVars>>

UnlinkDrop(p) ==
    LET i == sysc[p].ip IN
    /\ At(p, "drop")
    /\ itab' = Linked(itab, i, 0 - 1)
    /\ dino' = Updated(itab', i)
    /\ ilk' = Iunlock(ilk, i)
    /\ Now(p, PutThen([sysc[p] EXCEPT !.ip = 0], <<i>>, "user"))
    /\ UNCHANGED <<ents, lost, fileVars, fpanic>>

-----------------------------------------------------------------------------
InodeStep(p) ==
    \/ Iput(p) \/ IputFree(p) \/ IputInvalidate(p) \/ IputUnref(p)
    \/ NamexEnd(p) \/ Namex(p)
    \/ \E rdonly \in BOOLEAN : Open(p, rdonly)
    \/ ExitClose(p) \/ SysChdir(p)
    \/ CreateLook(p) \/ CreateFound(p) \/ Ialloc(p) \/ CreateFill(p) \/ Release(p) \/ Created(p)
    \/ LinkCount(p) \/ LinkEnter(p) \/ LinkExists(p) \/ LinkUndo(p)
    \/ UnlinkLook(p) \/ UnlinkErase(p) \/ UnlinkDrop(p)

InodeCall(p) ==
    \/ \E call \in Calls : Syscall(p, call)
    \/ \E fd \in 0 .. NOFILE - 1 : SysClose(p, fd) \/ SysDup(p, fd)
    \/ SysPipe(p) \/ ExitFiles(p)
    \/ \E q \in Users : ForkFiles(p, q)

\* All calls were made and have returned.
Quiet == \A p \in Users : At(p, "gone") \/ (At(p, "user") /\ made = MaxSyscalls)

\* A panic stops the machine.
InodeNext ==
    \/ ~fpanic /\ \E p \in Users : InodeStep(p) \/ InodeCall(p)
    \/ (Quiet \/ fpanic) /\ UNCHANGED inodeVars

InodeSpec == InodeInit /\ [][InodeNext]_inodeVars

-----------------------------------------------------------------------------
(* Properties.                                                               *)

Holds(c, i) ==
    Cardinality({r \in {"ip", "dp", "target"} : c[r] = i}) + Cardinality({k \in DOMAIN c.puts : c.puts[k] = i})

Locals(i) == [p \in Users |-> Holds(sysc[p], i) + IF cwd[p] = i THEN 1 ELSE 0]

\* As many pairs as the counts add up to, and the descriptors of a file.
Upto(count) == {r \in Users \X (1 .. 6) : r[2] <= count[r[1]]}
Naming(f) == {d \in Users \X (0 .. NOFILE - 1) : <<d[2], f>> \in ofile[d[1]]}

\* Every reference count is the number of references: those of an inode are
\* the current directories, the open files and what the calls in progress
\* hold; those of an open file are the descriptors that name it.
RefsExact ==
    /\ \A i \in Inums :
        itab[i].ref = Cardinality(Upto(Locals(i))) + Cardinality({f \in 1 .. NFILE : ftab[f].ip = i})
    /\ \A f \in 1 .. NFILE : ftab[f].ref = Cardinality(Naming(f))

\* An entry of the table that nobody has locked shows what is on the disk, also
\* when the inode was freed and allocated again in between.
CopyIsDisk ==
    \A i \in Inums : itab[i].ref > 0 /\ itab[i].valid /\ LockFree(i) =>
        itab[i].type = dino[i].type /\ itab[i].nlink = dino[i].nlink

\* A directory that can still be reached by name.
Named(d) == d = ROOTINO \/ \E e \in ents : e[3] = d /\ e[2] # ".."

\* The links of an inode: its names, the ".." of its subdirectories that have a
\* name themselves, and the entry that the root does not have.
Links(i) ==
    Cardinality({e \in ents : e[3] = i /\ (e[2] = ".." => Named(e[1]))}) + (IF i = ROOTINO THEN 1 ELSE 0)

\* The link count on disk is the number of links, plus one for every link that
\* has been counted but not entered yet, or erased but not uncounted yet, and
\* one for every name made in a directory that was removed and is gone by now;
\* and a name never leads to a free inode.
LinksExact ==
    /\ \A i \in {j \in Inums : dino[j].type # "free"} :
        dino[i].nlink =
            Links(i) + lost[i]
            + Cardinality({p \in Users : \/ sysc[p].target = i
                                         \/ sysc[p].ip = i /\ "drop" \in {sysc[p].pc, sysc[p].back}})
    /\ \A e \in ents : e[2] # ".." => dino[e[3]].type # "free"

\* The one panic that is reached is "iget: no inodes", when there are more
\* inodes in use than entries: ilock never finds an inode without a type, and
\* unlink never one without links.
OnlyTableFull == fpanic => Cardinality({i \in Inums : itab[i].ref > 0}) > NINODE

\* The tables in memory are exact, whatever two processes do to the same names:
\* the counts of inode and file table with the references, and, as long as
\* nothing has panicked, the copies with the disk.
TablesExact == RefsExact /\ (~fpanic => CopyIsDisk)

\* The names on the disk are exact too, also when a directory is removed between
\* the nameiparent and the lock of a create, link or unlink in it: links agree
\* with names, a name leads to an inode in use, and only a full inode table
\* stops the kernel.
NamesExact == LinksExact /\ OnlyTableFull

\* An inode that nobody uses and that has no links is free: "If that was the
\* last reference and the inode has no links to it, free the inode (and its
\* content) on disk" (fs.c, iput).
NoOrphan == \A i \in Inums : itab[i].ref = 0 /\ dino[i].nlink = 0 => dino[i].type = "free"
=============================================================================
