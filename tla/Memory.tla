------------------------------- MODULE Memory -------------------------------
(* Physical pages and user address spaces: kernel/kalloc.c, kernel/vm.c,     *)
(* the memory side of allocproc, fork, growproc and freeproc (kernel/proc.c) *)
(* and of exec (kernel/exec.c, sys_exec).  Processes share the page pool, so *)
(* any of them may find it empty at any page: one turn of an allocating loop *)
(* is one step.  Giving pages back cannot fail and is part of the step that  *)
(* does it.  Which of the free pages kalloc hands out is not told apart: it  *)
(* is the lowest.                                                            *)
EXTENDS Integers, FiniteSets, Sequences, Functions

CONSTANTS Owners,      \* the slots of the process table that hold memory
          FirstOwner,  \* the process that userinit made
          NPAGES,      \* the pages between end and PHYSTOP
          PGSIZE,
          PTES,        \* the entries of a page-table page (512 in riscv.h)
          Increments,  \* the arguments of sbrk
          Programs,    \* what exec finds: the ends of the segments of an ELF file
          MaxArgs,
          MaxCalls     \* how many system calls are made

Pages == 1 .. NPAGES
NoPage == 0
TrampolinePage == NPAGES + 1   \* kernel text, never in the pool

ASSUME MemoryAssumption ==
    /\ FirstOwner \in Owners /\ IsFiniteSet(Owners)
    /\ NPAGES \in Nat /\ NPAGES >= 7   \* what userinit needs
    /\ PGSIZE \in Nat \ {0} /\ PTES \in Nat \ {0} /\ MaxArgs \in Nat /\ MaxCalls \in Nat
    /\ Increments \subseteq Int /\ Programs \subseteq Seq(Nat)

VARIABLES
    free,     \* kmem.freelist
    mem,      \* what each page holds; "guard" is zeroes without PTE_U
    tf,       \* p->trapframe
    cur,      \* p->pagetable: the page behind each mapped slot
    size,     \* p->sz
    mpc,      \* what the process is doing
    call,     \* the locals of its system call
    expect,   \* ghost: what the process last put, or was given, in each page
    calls,    \* the system calls made so far
    panicked  \* a panic of vm.c was reached

memVars == <<free, mem, tf, cur, size, mpc, call, expect, calls, panicked>>

Nothing == [s \in {} |-> NoPage]
PGROUNDUP(a) == ((a + PGSIZE - 1) \div PGSIZE) * PGSIZE
NumPages(a) == PGROUNDUP(a) \div PGSIZE

\* The slots of a page table.  walk passes through the root, a level 1 and a
\* level 0 page; trampoline and trapframe sit at the top of the address space.
Root == <<"root", 0>>
Spare == <<"spare", 0>>   \* a page not mapped yet
User(n) == <<"user", n>>
TablesOf(slot) ==
    IF slot[1] = "user" THEN << <<"low1", 0>>, <<"low0", slot[2] \div PTES>> >>
                        ELSE << <<"high1", 0>>, <<"high0", 0>> >>
Trampoline == <<"trampoline", 0>>
Trapframe == <<"trapframe", 0>>
Leaves(pt) == {s \in DOMAIN pt : s[1] \in {"user", "trampoline", "trapframe"}}

-----------------------------------------------------------------------------
(* The allocator and the page-table operations work on a record of the pool, *)
(* the contents, one page table, and whether they succeeded or panicked.     *)

Work(pt) == [free |-> free, mem |-> mem, pt |-> pt, ok |-> TRUE, panic |-> FALSE]

Put(pt, slot, page) == [s \in DOMAIN pt \union {slot} |-> IF s = slot THEN page ELSE pt[s]]
Without(pt, slots) == [s \in DOMAIN pt \ slots |-> pt[s]]

\* kalloc, into a slot of the table; what the page holds is up to the caller.
Kalloc(w, slot, content) ==
    IF w.free = {} THEN [w EXCEPT !.ok = FALSE]
    ELSE LET pg == CHOOSE q \in w.free : \A r \in w.free : q <= r IN
         [w EXCEPT !.free = @ \ {pg}, !.mem[pg] = content, !.pt = Put(@, slot, pg)]

\* kfree fills the page with junk.
Kfree(w, pages) ==
    [w EXCEPT !.free = @ \union pages,
              !.mem = [pg \in Pages |-> IF pg \in pages THEN "freed" ELSE w.mem[pg]]]

\* walk(.., 1) adds the page-table pages that are missing and keeps them when
\* it fails half way.
AddTable(w, t) == IF ~w.ok \/ t \in DOMAIN w.pt THEN w ELSE Kalloc(w, t, "table")
WalkAlloc(w, slot) == AddTable(AddTable(w, TablesOf(slot)[1]), TablesOf(slot)[2])

\* mappages, for one page.
MapPage(w, slot, page) ==
    LET v == WalkAlloc(w, slot) IN
    IF ~v.ok THEN v
    ELSE IF slot \in DOMAIN v.pt THEN [v EXCEPT !.panic = TRUE]
    ELSE [v EXCEPT !.pt = Put(@, slot, page)]

\* uvmunmap.
Unmap(w, slots, doFree) ==
    LET held == slots \intersect DOMAIN w.pt
        v == IF doFree THEN Kfree(w, {w.pt[s] : s \in held}) ELSE w
    IN [v EXCEPT !.pt = Without(@, held), !.panic = @ \/ ~(slots \subseteq DOMAIN w.pt)]

UserSlots(from, to) == {User(n) : n \in from .. to - 1}

\* uvmdealloc: nothing happens unless newsz < oldsz.
UvmDealloc(w, oldsz, newsz_) == Unmap(w, UserSlots(NumPages(newsz_), NumPages(oldsz)), TRUE)

\* freewalk: only page-table pages may be left.
FreeWalk(w) ==
    [Kfree(w, {w.pt[s] : s \in DOMAIN w.pt \ Leaves(w.pt)})
        EXCEPT !.pt = Nothing, !.panic = @ \/ Leaves(w.pt) # {}]

UvmFree(w, sz) == FreeWalk(Unmap(w, UserSlots(0, NumPages(sz)), TRUE))

\* One turn of the loops of uvmalloc and uvmcopy: a page, then its mapping.
\* The page goes back if the mapping fails.
AddPage(w, n, content) ==
    LET fresh == Kalloc(w, Spare, content) IN
    IF ~fresh.ok THEN fresh
    ELSE LET pg == fresh.pt[Spare]
             v == MapPage([fresh EXCEPT !.pt = w.pt], User(n), pg)
         IN IF v.ok THEN v ELSE Kfree(v, {pg})

UvmCreate(w) == Kalloc(w, Root, "table")

\* proc_pagetable: the root, then trampoline and trapframe.
ProcPagetable(w, frame) ==
    LET root == UvmCreate(w)
        one == MapPage(root, Trampoline, TrampolinePage)
        two == MapPage(one, Trapframe, frame)
    IN CASE ~root.ok -> root
         [] root.ok /\ ~one.ok -> [UvmFree(one, 0) EXCEPT !.ok = FALSE]
         [] root.ok /\ one.ok /\ ~two.ok -> [UvmFree(Unmap(two, {Trampoline}, FALSE), 0) EXCEPT !.ok = FALSE]
         [] OTHER -> two

\* proc_freepagetable: the two special pages are unmapped, not freed.
ProcFreePagetable(w, sz) == UvmFree(Unmap(w, {Trampoline, Trapframe}, FALSE), sz)

\* freeproc: the trapframe page and the page table, if they exist.
FreeProc_KeepsFrame(w, frame, sz) == IF w.pt = Nothing THEN w ELSE ProcFreePagetable(w, sz)
FreeProc(w, frame, sz) ==
    LET v == IF frame = NoPage THEN w ELSE Kfree(w, {frame}) IN
    IF v.pt = Nothing THEN v ELSE ProcFreePagetable(v, sz)

-----------------------------------------------------------------------------
\* The locals: the loop variable and the end of uvmalloc and uvmcopy, the new
\* process of fork; of exec the new page table and its size, the segments still
\* to be loaded and the pages of the argument strings.
NoCall(p) == [at |-> 0, goal |-> 0, kid |-> p, new |-> Nothing, newsz |-> 0, segs |-> <<>>, argv |-> <<>>]

\* kinit frees every page.
Kinit == [free |-> Pages, mem |-> [pg \in Pages |-> "freed"], pt |-> Nothing, ok |-> TRUE, panic |-> FALSE]

\* uvmfirst: the code of the first process is the page at 0.
UvmFirst(w) == AddPage(w, 0, "text")

\* userinit made the first process, with one page, before anything else ran.
MemInit ==
    LET made == UvmFirst(ProcPagetable([Kinit EXCEPT !.free = @ \ {1}], 1))
    IN /\ free = made.free /\ mem = [made.mem EXCEPT ![1] = "frame"] /\ panicked = made.panic
       /\ tf = [p \in Owners |-> IF p = FirstOwner THEN 1 ELSE NoPage]
       /\ cur = [p \in Owners |-> IF p = FirstOwner THEN made.pt ELSE Nothing]
       /\ size = [p \in Owners |-> IF p = FirstOwner THEN PGSIZE ELSE 0]
       /\ mpc = [p \in Owners |-> IF p = FirstOwner THEN "user" ELSE "unused"]
       /\ expect = [p \in Owners |-> IF p = FirstOwner THEN <<"text">> ELSE <<>>]
       /\ call = [p \in Owners |-> NoCall(p)] /\ calls = 0

\* The pool and the contents after an operation, and its panics.
Pool(w) == free' = w.free /\ mem' = w.mem /\ panicked' = (panicked \/ w.panic)
Doing(p, what) == mpc' = [mpc EXCEPT ![p] = what]
InUser(p) == mpc[p] = "user"
MayCall(p) == InUser(p) /\ calls < MaxCalls

\* The system call is over: its locals are gone.
Return(p) == Doing(p, "user") /\ call' = [call EXCEPT ![p] = NoCall(p)]

\* The process writes to a page it may write to.
UserWrite(p, n) ==
    /\ InUser(p) /\ n \in 1 .. Len(expect[p]) /\ expect[p][n] # "guard"
    /\ mem' = [mem EXCEPT ![cur[p][User(n - 1)]] = "written"]
    /\ expect' = [expect EXCEPT ![p][n] = "written"]
    /\ UNCHANGED <<free, tf, cur, size, mpc, call, panicked, calls>>

-----------------------------------------------------------------------------
(* sys_sbrk, growproc                                                        *)

\* The new size is computed modulo 2^64: below zero it is huge, and uvmdealloc
\* then leaves everything as it is.
Shrunk(p, n) == IF size[p] + n < 0 THEN size[p] ELSE size[p] + n

SbrkShrink(p, n) ==
    /\ MayCall(p) /\ n <= 0
    /\ LET w == UvmDealloc(Work(cur[p]), size[p], Shrunk(p, n)) IN
       /\ Pool(w)
       /\ cur' = [cur EXCEPT ![p] = w.pt]
    /\ size' = [size EXCEPT ![p] = Shrunk(p, n)]
    /\ expect' = [expect EXCEPT ![p] = SubSeq(@, 1, NumPages(Shrunk(p, n)))]
    /\ calls' = calls + 1
    /\ UNCHANGED <<tf, mpc, call>>

SbrkGrow(p, n) ==
    /\ MayCall(p) /\ n > 0
    /\ call' = [call EXCEPT ![p].at = PGROUNDUP(size[p]), ![p].goal = size[p] + n]
    /\ Doing(p, "grow")
    /\ calls' = calls + 1
    /\ UNCHANGED <<free, mem, tf, cur, size, expect, panicked>>

\* A turn of uvmalloc; on failure the pages of this call go back.
Regrow_Keeps(w, from, to) == w
Regrow(w, from, to) == UvmDealloc(w, from, to)

GrowPage(p) ==
    LET at == call[p].at
        w == AddPage(Work(cur[p]), at \div PGSIZE, "zero")
        undone == Regrow(w, at, PGROUNDUP(size[p]))
    IN
    /\ mpc[p] = "grow" /\ at < call[p].goal
    /\ \/ /\ w.ok
          /\ Pool(w)
          /\ cur' = [cur EXCEPT ![p] = w.pt]
          /\ call' = [call EXCEPT ![p].at = @ + PGSIZE]
          /\ UNCHANGED mpc
       \/ /\ ~w.ok
          /\ Pool(undone)
          /\ cur' = [cur EXCEPT ![p] = undone.pt]
          /\ Return(p)
    /\ UNCHANGED <<tf, size, expect, calls>>

GrowDone(p) ==
    LET goal == call[p].goal IN
    /\ mpc[p] = "grow" /\ call[p].at >= goal
    /\ size' = [size EXCEPT ![p] = goal]
    /\ expect' = [expect EXCEPT ![p] = @ \o [i \in 1 .. NumPages(goal) - Len(@) |-> "zero"]]
    /\ Return(p)
    /\ UNCHANGED <<free, mem, tf, cur, panicked, calls>>

-----------------------------------------------------------------------------
(* fork, exit                                                                *)

\* allocproc: a trapframe and a page table, or freeproc of what there is.
AllocProcMemory(p, c) ==
    LET frame == Kalloc(Work(Nothing), Spare, "frame")
        page == frame.pt[Spare]
        w == ProcPagetable([frame EXCEPT !.pt = Nothing], page)
    IN
    /\ MayCall(p) /\ mpc[c] = "unused" /\ frame.ok
    /\ \/ /\ w.ok
          /\ Pool(w)
          /\ tf' = [tf EXCEPT ![c] = page]
          /\ cur' = [cur EXCEPT ![c] = w.pt]
          /\ call' = [call EXCEPT ![p].kid = c]
          /\ mpc' = [mpc EXCEPT ![p] = "fork", ![c] = "embryo"]
       \/ /\ ~w.ok
          /\ Pool(FreeProc(w, page, 0))
          /\ UNCHANGED <<tf, cur, mpc, call>>
    /\ calls' = calls + 1
    /\ UNCHANGED <<size, expect>>

\* A turn of uvmcopy.  On failure it unmaps what it mapped and fork frees the
\* child, whose size is still 0.
Undone(w, i) == Unmap(w, UserSlots(0, i), TRUE)

CopyPage(p) ==
    LET c == call[p].kid
        i == call[p].at \div PGSIZE
        w == AddPage(Work(cur[c]), i, mem[cur[p][User(i)]])
        undone == FreeProc(Undone(w, i), tf[c], 0)
    IN
    /\ mpc[p] = "fork" /\ call[p].at < size[p]
    /\ \/ /\ w.ok
          /\ Pool(w)
          /\ cur' = [cur EXCEPT ![c] = w.pt]
          /\ call' = [call EXCEPT ![p].at = @ + PGSIZE]
          /\ UNCHANGED <<tf, mpc>>
       \/ /\ ~w.ok
          /\ Pool(undone)
          /\ cur' = [cur EXCEPT ![c] = undone.pt]
          /\ tf' = [tf EXCEPT ![c] = NoPage]
          /\ mpc' = [mpc EXCEPT ![p] = "user", ![c] = "unused"]
          /\ call' = [call EXCEPT ![p] = NoCall(p)]
    /\ UNCHANGED <<size, expect, calls>>

ForkDone(p) ==
    LET c == call[p].kid IN
    /\ mpc[p] = "fork" /\ call[p].at >= size[p]
    /\ size' = [size EXCEPT ![c] = size[p]]
    /\ expect' = [expect EXCEPT ![c] = expect[p]]
    /\ mpc' = [mpc EXCEPT ![p] = "user", ![c] = "user"]
    /\ call' = [call EXCEPT ![p] = NoCall(p)]
    /\ UNCHANGED <<free, mem, tf, cur, panicked, calls>>

\* exit, and the freeproc of the parent's wait.
Reap(p) ==
    /\ InUser(p) /\ p # FirstOwner
    /\ LET w == FreeProc(Work(cur[p]), tf[p], size[p]) IN
       /\ Pool(w)
       /\ cur' = [cur EXCEPT ![p] = w.pt]
    /\ tf' = [tf EXCEPT ![p] = NoPage]
    /\ size' = [size EXCEPT ![p] = 0]
    /\ expect' = [expect EXCEPT ![p] = <<>>]
    /\ Doing(p, "unused")
    /\ UNCHANGED <<call, calls>>

-----------------------------------------------------------------------------
(* sys_exec, exec                                                            *)

SysExec(p) ==
    /\ MayCall(p)
    /\ Doing(p, "args")
    /\ calls' = calls + 1
    /\ UNCHANGED <<free, mem, tf, cur, size, call, expect, panicked>>

FreeArgs(w, p) == Kfree(w, Range(call[p].argv))

\* sys_exec copies the argument strings into pages of their own.
ExecArg(p) ==
    LET w == Kalloc(Work(Nothing), Spare, "arg") IN
    /\ mpc[p] = "args" /\ Len(call[p].argv) < MaxArgs
    /\ \/ /\ w.ok
          /\ Pool(w)
          /\ call' = [call EXCEPT ![p].argv = Append(@, w.pt[Spare])]
          /\ UNCHANGED mpc
       \/ /\ ~w.ok
          /\ Pool(FreeArgs(w, p))
          /\ Return(p)
    /\ UNCHANGED <<tf, cur, size, expect, calls>>

\* A string or the array cannot be read (fetchaddr, fetchstr), there are too
\* many arguments, or the file is missing or no program.
ExecRefused(p) ==
    /\ mpc[p] = "args"
    /\ Pool(FreeArgs(Work(Nothing), p))
    /\ Return(p)
    /\ UNCHANGED <<tf, cur, size, expect, calls>>

\* bad: the new page table is freed, then sys_exec frees the arguments.
ExecBad(p, w, sz) == FreeArgs(ProcFreePagetable(w, sz), p)

GiveUpExec(p, w, sz) == Pool(ExecBad(p, w, sz)) /\ Return(p)

\* proc_pagetable; prog lists the ends of the segments to load.
ExecStart(p, prog) ==
    LET w == ProcPagetable(Work(Nothing), tf[p]) IN
    /\ mpc[p] = "args" /\ prog # <<>>
    /\ \/ /\ w.ok
          /\ Pool(w)
          /\ call' = [call EXCEPT ![p].new = w.pt, ![p].goal = Head(prog), ![p].segs = Tail(prog)]
          /\ Doing(p, "load")
       \/ /\ ~w.ok
          /\ Pool(FreeArgs(w, p))
          /\ Return(p)
    /\ UNCHANGED <<tf, cur, size, expect, calls>>

\* A turn of uvmalloc for a segment or for guard and stack.
ExecPage(p) ==
    LET at == call[p].at
        sz == call[p].newsz
        w == AddPage(Work(call[p].new), at \div PGSIZE, "zero")
    IN
    /\ mpc[p] \in {"load", "stack"} /\ at < call[p].goal
    /\ \/ /\ w.ok
          /\ Pool(w)
          /\ call' = [call EXCEPT ![p].new = w.pt, ![p].at = @ + PGSIZE]
          /\ UNCHANGED mpc
       \/ /\ ~w.ok
          /\ GiveUpExec(p, UvmDealloc(w, at, PGROUNDUP(sz)), sz)
    /\ UNCHANGED <<tf, cur, size, expect, calls>>

\* The pages of the image that is being built, from one address to another.
NewPages(p, from, to) == {call[p].new[User(n)] : n \in NumPages(from) .. NumPages(to) - 1}

\* loadseg, then the next segment, or the two pages after the last one.  A
\* segment that ends below the size reached allocates nothing.
LoadSegment(p) ==
    LET sz == call[p].goal
        top == PGROUNDUP(sz)
        loaded == NewPages(p, call[p].newsz, sz)
    IN
    /\ mpc[p] = "load" /\ call[p].at >= sz /\ sz > 0
    /\ mem' = [pg \in Pages |-> IF pg \in loaded THEN "text" ELSE mem[pg]]
    /\ \/ /\ call[p].segs = <<>>
          /\ call' = [call EXCEPT ![p].newsz = top, ![p].at = top, ![p].goal = top + 2 * PGSIZE]
          /\ Doing(p, "stack")
       \/ /\ call[p].segs # <<>>
          /\ LET to == Head(call[p].segs) IN
             call' = [call EXCEPT ![p].newsz = sz, ![p].at = top, ![p].segs = Tail(@),
                                  ![p].goal = IF to < sz THEN sz ELSE to]
          /\ UNCHANGED mpc
    /\ UNCHANGED <<free, tf, cur, size, expect, panicked, calls>>

\* A header makes no sense, so nothing of its segment is allocated; or the file
\* is shorter than its headers say, or a segment ends at address 0, which
\* uvmalloc cannot tell from a failure; or the arguments do not fit the stack.
LoadFails(p) ==
    LET c == call[p] IN
    /\ mpc[p] \in {"load", "stack"}
    /\ \/ mpc[p] = "load" /\ c.at < c.goal /\ c.at = PGROUNDUP(c.newsz) /\ GiveUpExec(p, Work(c.new), c.newsz)
       \/ c.at >= c.goal /\ GiveUpExec(p, Work(c.new), c.goal)
    /\ UNCHANGED <<tf, cur, size, expect, calls>>

\* uvmclear takes the guard page from the user; the arguments are copied to the
\* stack; then the new image replaces the old one, which is freed with the size
\* it had.
UvmClear(w, page) == [w EXCEPT !.mem[page] = "guard"]
OldSize(p) == size[p]

ExecCommit(p) ==
    LET sz == call[p].goal
        top == NumPages(sz)
        w == [UvmClear(Work(cur[p]), call[p].new[User(top - 2)])
                 EXCEPT !.mem[call[p].new[User(top - 1)]] = "args"]
    IN
    /\ mpc[p] = "stack" /\ call[p].at >= sz
    /\ Pool(FreeArgs(ProcFreePagetable(w, OldSize(p)), p))
    /\ expect' = [expect EXCEPT ![p] = [i \in 1 .. top - 2 |-> "text"] \o <<"guard", "args">>]
    /\ cur' = [cur EXCEPT ![p] = call[p].new]
    /\ size' = [size EXCEPT ![p] = sz]
    /\ Return(p)
    /\ UNCHANGED <<tf, calls>>

-----------------------------------------------------------------------------
\* All calls were made and have returned.
MemQuiet == calls = MaxCalls /\ \A p \in Owners : mpc[p] \in {"user", "unused"}

MemStep(p) ==
    \/ \E n \in 1 .. NPAGES : UserWrite(p, n)
    \/ \E n \in Increments : SbrkShrink(p, n) \/ SbrkGrow(p, n)
    \/ GrowPage(p) \/ GrowDone(p)
    \/ \E c \in Owners : AllocProcMemory(p, c)
    \/ CopyPage(p) \/ ForkDone(p) \/ Reap(p)
    \/ SysExec(p) \/ ExecArg(p) \/ ExecRefused(p)
    \/ \E prog \in Programs : ExecStart(p, prog)
    \/ ExecPage(p) \/ LoadSegment(p) \/ LoadFails(p) \/ ExecCommit(p)

MemNext == (\E p \in Owners : MemStep(p)) \/ (MemQuiet /\ UNCHANGED memVars)

MemSpec == MemInit /\ [][MemNext]_memVars

-----------------------------------------------------------------------------
(* Properties.                                                               *)

\* The pages a page table owns: all it maps but trampoline and trapframe.
OwnedBy(p, which, pt) == {<<p, which, s, pt[s]>> : s \in DOMAIN pt \ {Trampoline, Trapframe}}
Holdings ==
    UNION {OwnedBy(p, "cur", cur[p]) \union OwnedBy(p, "new", call[p].new)
           \union {<<p, "argv", <<"arg", i>>, call[p].argv[i]>> : i \in DOMAIN call[p].argv}
           \union {<<p, "tf", Root, pg>> : pg \in {tf[p]} \ {NoPage}} : p \in Owners}

\* Every page is free or is held in exactly one place, at every failure of
\* every allocating loop: none is lost, none freed twice, none shared.
PagesAccounted ==
    /\ {h[4] : h \in Holdings} = Pages \ free
    /\ Cardinality(Holdings) + Cardinality(free) = NPAGES

\* Between system calls a process has exactly the pages its size promises and
\* finds in them what it wrote or was given there: a fork gets a copy of its
\* own, and a failing fork, exec or sbrk of anyone leaves nothing behind and
\* damages nothing.
ImageIntact ==
    /\ ~panicked
    /\ \A p \in Owners :
        /\ mpc[p] = "user" =>
            /\ {s \in DOMAIN cur[p] : s[1] = "user"} = UserSlots(0, NumPages(size[p]))
            /\ cur[p][Trapframe] = tf[p]
            /\ \A n \in 1 .. Len(expect[p]) : mem[cur[p][User(n - 1)]] = expect[p][n]
        /\ mpc[p] = "unused" => cur[p] = Nothing /\ tf[p] = NoPage /\ size[p] = 0
=============================================================================
