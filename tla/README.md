# TLA+ models of the RAID kernel

The repository is the xv6-riscv kernel extended with a software RAID layer: one
system disk (virtio disk 0) that carries the file system, and `DISKS` RAID disks
(virtio disks 1 .. DISKS) that user programs reach only through seven system
calls (`init_raid`, `read_raid`, `write_raid`, `disk_fail_raid`,
`disk_repaired_raid`, `info_raid`, `destroy_raid`). This directory models the
RAID layer, the disk driver below it, and the parts of the kernel that keep state
of their own: log, buffer cache, file contents, inodes and descriptors, pipes,
console, processes, memory, spin locks and interrupts.

## 1. Inventory

| Component | State | Operations | Interacts with | What makes it correct |
|---|---|---|---|---|
| RAID layer (`raid.c`, `sysraid.c`) | `raid_device` (is_init, superblock page, health cache, a sleeplock per disk, metadata_lock); row 0 of every disk; the data rows | the seven system calls, each a sequence of block transfers | driver, sleep locks, page allocator | a read returns the last write; mirror and parity agree with the data; a failed disk is out of service; no lock is left behind; no page is used after it is freed |
| virtio driver (`virtio_disk.c`) | descriptors, avail and used rings, `info`, `vdisk_lock` per disk; transfer buffers | `virtio_disk_rw`, `virtio_disk_intr` | device, `sleep`/`wakeup`, buffer cache, RAID layer | each request is executed once and its data delivered; descriptors are neither shared nor lost; every request returns |
| log (`log.c`) | header in memory and on disk, outstanding, committing | begin_op, log_write, end_op, commit, recovery | buffer cache, file system | calls are atomic with respect to crashes; the log never overflows; nobody waits in begin_op without a reason |
| buffer cache (`bio.c`), sleep locks (`sleeplock.c`) | buffers, reference counts, LRU list; locked, pid | bread, bwrite, brelse, bpin, bunpin; acquiresleep, releasesleep | driver, log | one buffer per block; a referenced or pinned buffer is not recycled; a buffer has one user; waiters are woken |
| file contents (`fs.c`, `file.c`) | bitmap, data and indirect blocks, size and block map of an inode, offset of an open file | balloc, bfree, bmap, itrunc, readi, writei, fileread, filewrite | buffer cache, log | a block has one owner; a file holds what was written; a chunk fits into a transaction |
| inodes, directories, file table (`fs.c`, `file.c`, `sysfile.c`) | inodes and entries on disk, inode table, file table, descriptors, current directories | open, create, mkdir, mknod, link, unlink, chdir, close, dup, pipe, fork, exit | log, buffer cache, pipes | counts are exact; cached copies show the disk; links agree with names; no panic but that of a full inode table |
| pipes (`pipe.c`) | ring of 512 bytes, counters, open flags | pipewrite, piperead, pipeclose | processes | bytes arrive once and in order; nobody sleeps with work to do; the page is freed once |
| console, UART (`console.c`, `uart.c`) | input ring, transmit ring | consoleread, consolewrite, consoleintr, uartputc, uartstart, uartintr | processes, interrupts, the device | lines are edited and handed over whole, output leaves in order, nobody sleeps with work to do |
| processes (`proc.c`) | process table, states, channels, parents | fork, exit, wait, sleep, wakeup, kill, yield, scheduler | everything that sleeps | a process runs on one CPU; no wakeup is lost; a zombie is reaped by its parent or by init |
| page allocator, virtual memory, exec (`kalloc.c`, `vm.c`, `exec.c`) | free list, page tables, sizes | kalloc, kfree, uvmalloc, uvmdealloc, uvmcopy, uvmfree, growproc, exec | everyone | a page has one owner, however an allocation fails; a process finds in its memory what it put there |
| copies (`vm.c`, `syscall.c`) | user memory and its permissions | copyin, copyout, copyinstr, fetchaddr, fetchstr | system calls | exactly the bytes asked for are copied and no byte of the kernel |
| spin locks, traps, clock (`spinlock.c`, `trap.c`, `sysproc.c`) | holder of a lock, noff and intena of a CPU, ticks | acquire, release, push_off, pop_off, usertrap, kerneltrap, clockintr, sys_sleep | everyone | no CPU waits for itself; no tick is missed by a sleeper |
| user allocator (`umalloc.c`) | circular free list | malloc, morecore, free | sbrk | every unit of the heap is free or handed out once |
| boot, printing, strings, registers, user programs | | | | straight-line code, not modelled |

What is hard here: system calls of several processes interleave at every disk
transfer, sleep and wait for a lock; the RAID layer reads and writes its health
cache and its superblock pointer without the lock that is meant to protect them;
disks fail and are repaired while others use them; the machine restarts and
forgets its memory; the devices complete requests in any order and interrupt any
CPU; pages, buffers, blocks, log space and table entries run out in the middle of
a call. The places where this bites are the "hazards" of PROJECT.json.

## 2. Modules

| Module | Models |
|---|---|
| `RaidLayout` | the pure arithmetic of the RAID device: superblock of a level, disk and row of a block, mirror, parity disk, recovery partner and sources |
| `RaidAddressing` | requests against that layout, and what the layout must satisfy |
| `Raid` | the RAID system calls as processes, with disks, cache, locks, superblock pages, restart |
| `VirtioDisk` | the driver of one disk, its interrupt handler, the device (external) |
| `AtomicStore`, `FsLog` | what the log promises, and the log with crashes and recovery, which implements it |
| `BufferCache` | the buffer cache and the sleep locks of its buffers |
| `FsBlocks` | block allocation and the contents of files |
| `Inodes` | inodes, directories, paths, open files |
| `BoundedQueue`, `Pipe` | a queue, and the pipe that implements it |
| `LineDiscipline`, `Console` | line editing, and the console with its UART, which implements it |
| `ProcLife` | processes, their locks and the schedulers |
| `Memory` | pages, page tables, fork, sbrk and exec |
| `UserCopy` | copies between kernel and user memory |
| `Interrupts` | spin locks, interrupts, traps and the clock |
| `UserHeap` | malloc and free of user programs |
| `MCRaid`, `MCVirtioDisk` | workloads and symmetry for `Raid` and `VirtioDisk` |
| `MCWaiting`, `MCStorage`, `MCSyscalls`, `MCParts` | several modules in one run (below) |
| `RaidLayoutProofs`, `RaidProofs`, `RaidDataProofs` | theorems about the RAID layer |
| `FsLogProofs`, `StorageProofs` | theorems about log, inode and file tables, buffer cache and file contents |
| `RingProofs` | theorems about disk driver, pipe and console |
| `SyscallProofs` | theorems about the process table, user copies and physical memory |
| `PartsProofs` | theorems about the RAID addresses, and about spin locks and interrupts |

A definition whose name ends in `_Xyz` (for instance `LockOrder_ByRole`) is the
definition before the underscore with a plausible slip in it. No specification
uses it; it exists to show that a property notices the slip.

`MCWaiting`, `MCStorage`, `MCSyscalls` and `MCParts` put the specifications of
several parts side by side. A variable (`place`, `layer`, `table`, `part`),
chosen in the initial state, says which part a behaviour is about; the variables
of the others do not move. The parts are not interleaved: each is checked alone,
against what its neighbours promise it. Those promises are the seams of the
model:

- `Raid` takes a transfer as one step (`VirtioDisk`: `Transferred`,
  `RequestsFinish`);
- `FsLog` takes the cache as at most one copy of a block, with one user at a time,
  dropped only when nobody uses or pins it (`BufferCache`: `ReadsLatest`);
- `FsBlocks` and `Inodes` take a system call between begin_op and end_op as atomic
  with respect to crashes (`FsLog`: `ImplementsStore`) and sleep locks as locks
  (`BufferCache`: `BufferObtained`); what a release without log_write may
  lose (`BufferCache`: `ReadsLatest`) is the action `Forget` of `FsBlocks`;
- `Pipe`, `Console`, `VirtioDisk`, `BufferCache` and `FsLog` take sleep, from the
  `acquire` of `p->lock` on, with its condition lock as one step, because `p->lock` is held from before the release of
  that lock until the switch (`Interrupts`: `TicksNoticed`, where the two are
  apart, and `ProcLife`: `ZombiesNoticed`).

### Raid

*State.* `rows[d][r]` are the data rows and `sblock[d]` is row 0 of disk `d`.
`is_init`, `superblock`, `disk_status`, `disk_lock` are the fields of
`raid_device`. `heap` holds the superblock pages, so that a use after `kfree` is
visible. `pc`, `call` and `loc` are a process's place in its handler, its system
call and the handler's local variables. `latest` and `expect` are history: the
value of the last write that took effect for each block, and the values a read
that is running may return.

*Steps.* A step ends where another process can see a difference: each
`read_block` and `write_block`, each `acquiresleep` and `releasesleep`, each
unlocked read or store of `raid_device`, each critical section of
`metadata_lock`. `read_block` and `write_block` are one step because they hold
the transfer buffer's lock during the whole transfer; `VirtioDisk` looks inside.
`get_disk_health` is two steps, the read of the disk and the unlocked store into
the cache; the labels at which it is called are those of `HealthDisk`. Two places
are coarser than that: the unlocked reads of `is_init`, `superblock` and the page
behind it at the start of `load_metadata` (raid.c:38-40, `LoadFast`) are one step, and
so are those at its end (raid.c:79-82, `LoadFinal`). A `destroy_raid` between two of
them makes the code use a null or a freed page one step earlier than the model, which
sends the process to `wild` at its next use of the page.

*Data.* A block holds one bit. All data paths copy blocks or XOR them byte by
byte, so each bit of a block behaves like every other and none influences
another; the comparison of a parity write with the old contents is per block, and
skipping it for one bit is the case in which all bits agree.

*Undefined behaviour.* A process that dereferences a freed superblock page, or
takes a lock behind the end of `disks[]`, goes to the label `wild` and has no
further step; it keeps the locks it has (`LockOutside`). `read_block(0, ...)` (a null transfer buffer), `kfree(0)` and a row
past the end of a disk (the device reports an error and `virtio_disk_intr`
panics) set `panicked`.

*Bounds.* `Pages` superblock pages; a call that may take a page starts only while
enough are left (`PageLeft`). `QuietOps` are operations issued only while no
other call runs: the code gives no guarantee when, for instance, a repair runs
together with a write (see the findings), and the quiet workloads show what holds
under that discipline. `FailureApart`, in `raid_lifecycle` only, keeps a
`disk_fail_raid` out of the window between the two steps of `get_disk_health`
(raid.c:26-28), in which the failure is lost. Everything else is unrestricted.

*Fairness* (`FairSpec`): weak fairness of each process's steps. A process inside
a system call is RUNNABLE or waits for a transfer or a lock; the scheduler's loop
over the process table reaches every runnable process, and transfers finish by
`RequestsFinish` of `VirtioDisk`. Lock acquisition needs no more than weak
fairness here because `CallsReturn` speaks of executions in which, eventually, no
new calls start.

### VirtioDisk

*State.* `free`, `desc`, `info`, `avail`, `used`, `used_idx`, `vdisk_lock` are the
fields of `struct disk`; `desc` carries what its address points to, so the
request header `ops[i]` is inside it. `buf` are the buffers with their sleeplock
holder. The device's state is how far it has read the avail ring (`fetched`), the
chains it works on (`inflight`), the disk contents (`media`) and the interrupt
line (`pending`).

*Steps.* A process takes `vdisk_lock` and allocates and formats a chain in one
step, writes the ring entry in the next and the index, the notification and the
`sleep` in the third, because the device looks at the rings without the lock. The
interrupt handler takes the lock, handles one used entry per step and leaves.
`kill` is in `KillSpec` only.

*External.* The device (`Fetch`, `Execute`) is modelled from how the driver uses
it: chains are fetched in ring order, finished in any order, the status byte is
0, an interrupt is raised for each used entry.

*Bounds.* `NUM` is 7 or 4 instead of 16, so that descriptors run out with three
or two processes; `IdxMod` is a small multiple of `NUM` instead of 2^16, so that
the indices wrap. `Transfers` says which buffer may serve which sector: a buffer
of its own for each in `virtio_safety`, any buffer in `waiting`. No two requests
on one sector run at once, which is what the sleeplocks of the buffers give the
driver's callers for one block.

### FsLog, AtomicStore

*State.* `home`, `dlog`, `dhead` are on the disk: the blocks at home, the blocks of
the log, its header. `cache` and `pins` stand for the buffer cache; `lh`,
`outstanding`, `committing` are the fields of `log`. A process at `op` or
`modified` is between begin_op and end_op.

*Steps.* Every block that `write_log`, `write_head` and `install_trans` write is a
step, and `PowerOff` is possible between any two of them, also during
`recover_from_log`, which runs again after the next start. Everything under
`log.lock` is one step.

*Refinement.* `stable` of `AtomicStore` is what recovery would restore (the home
blocks overwritten by what a header that counts them points to), `current` what a
call reads. A commit is then exactly the write of the header.

*Bounds.* Two processes, four blocks, `LOGSIZE` 4 with `MAXOPBLOCKS` 2: two calls
fill the log, and a third must wait. `LogBlocks` (`sb.nlog`) is one more than
`LOGSIZE`, see the observations.

### BufferCache

`bget` is one step under `bcache.lock` for a hit and for a recycling, then
`acquiresleep` (which may sleep) a second one; the transfer of a miss, `bwrite`,
`log_write`'s pin, `brelse`'s `releasesleep` and its reference are steps of their
own. A user is a pair of bread and brelse: a process that holds two buffers at once
(`bmap` and `itrunc`, `write_log` and `install_trans`) is two of them. Any buffer may
be released with changes that were neither logged nor written, as `writei` does when
copyin fails; `latest` and `safe` are what was last put into a block, and what was
last in it when it was logged or written. Nothing is assumed about the number
of buffers: `bget` panics when all of them are referenced, and keeps `bcache.lock`.
Two users, two buffers, four blocks and one pin make every buffer be recycled and
the panic happen (both buffers in use or one in use and one pinned).

The limits of the code are tighter than its tables suggest. `NBUF` is 30, as is
`LOGSIZE`, `NPROC` is 64, and a process may hold two buffers: thirty pinned blocks,
or thirty processes inside a bread, and the next miss panics. `BufferObtained` does
not say that this cannot happen, but that it happens for no other reason.

### FsBlocks

One turn of the loop of `writei` or `readi` is a step, taken with the lock of the
inode, because writers of other files compete for blocks. A block has two bytes, a
file one direct and two indirect blocks, a bitmap block one bit, and three blocks
are free in all, so that an allocation fails at every point of a write. The
bytes of a call tell which call wrote them. `blk` is what bread returns, `saved` what
the log or the disk has. A copyin may fail at any block and after any number of
bytes: these are then in the buffer, which `writei` releases unlogged. They reach the
disk if the buffer is in a transaction already, and otherwise vanish when it
is recycled (`Forget`); they are in no count that the caller gets. `content` is the set
of bytes that each place of a file may hold, the last one written and those of failed
copies since, and `spans` the bytes that chunks wrote. `fileread` may leave the offset
where it is (copyout fails).
`OpBlocks` stands for MAXOPBLOCKS in the chunk size of `filewrite`.

### Inodes

*State.* `dino` and `ents` are on the disk, `itab`, `ftab`, `ofile`, `cwd` in memory.
`sysc` holds the locals of a call: which inodes it has references to, what is left of
its path, where it continues.

*Steps.* A call proceeds from lock to lock: `namex` takes one step per path element
(lock, look up, unlock, then give back the directory), `iput` is split where it gives up
`itable.lock` and where it gives up the inode (`IputInvalidate`), and the steps of
`link` and `unlink` between two directories are apart. What a call does under one
inode's lock is one step, because everything it touches belongs to that inode.

*Data.* A path is a sequence of names; a directory is a set of entries. Names
`.` and `..` are entries like others.

*Panics.* `iget` panics when the inode table is full; `NINODE` (50) is smaller than
`NFILE` (100), so open files alone can fill it, and the run has one inode more than entries,
so that it happens. After a panic nothing moves. Modelled too are the panics of
`ilock` (no type) and `unlink` (nlink < 1), which the run shows not to be reached.
The panics on directories that cannot be read or written are not modelled.

*Ghost.* `lost[i]` counts the names of inode `i` that went with a directory which
was removed before `create` or `link` made them in it: the inode keeps the link for ever.

*Bounds.* The root with one removable directory and three free inodes, four table entries,
two open files, two descriptors each, and five calls in all out of a small workload
(`FileCalls`) that creates, opens, links and removes the same names in that directory, by
its path and from the inside, and removes and makes the directory itself.

### Pipe, BoundedQueue

`pi->lock` is held from the first step of a call to its return or sleep; between
them one byte is a step. The test of `killed` (`WriteWaits`, `ReadWaits`) and the sleep
(`PipeSleep`) are two steps. Kills may come at any time, since `kill` takes `p->lock`
only; one between the two is not seen, and the killed process sleeps until the next
wakeup at the pipe. `silent` remembers that a killed writer left without waking
the readers; a process closes its end after
`MaxPipeCalls` calls, so that "eventually closed" is part of the fairness
(`PipeStep`). Ring of two bytes, counters modulo 4, one reader and two writers or
two readers and one writer. `PipeIsQueue` maps the bytes between `nread` and
`nwrite` to the queue.

### Console, LineDiscipline

The receive interrupt edits the line (`consoleintr`), echoes character by character
with `cons.lock` held (`uartputc_sync` spins on the transmitter), hands a line
over at its end; readers take ended lines; writers fill the transmit ring and sleep
while it is full; `uartstart` is called by writers and by the interrupt. The
device is external: it finishes a character some time after it got it, and raises an
interrupt for that and for each key. Rings of two characters, indices that start before
their wrap-around, three keys.

### ProcLife

`p->lock`, `wait_lock` and the switch to and from the scheduler are explicit:
`plk[p] = p` also while a process switches, the lock being handed to the scheduler.
`wakeup` scans the table one entry per step. `wait` tests `killed` (`WaitStays`) and
sleeps (`SleepLock`) in two steps; a process killed in between sleeps until a child
exits. init and the shell never exit
(`user/init.c` loops for ever); init, the shell and two more entries on two CPUs.

### Memory

*State.* `mem` holds what each physical page is used for, `cur` the pages behind a page table
(its own pages included), `tf` the trapframe. `expect` is what the process put into,
or was given in, each of its pages.

*Steps.* One turn of an allocating loop (`uvmalloc`, `uvmcopy`, `walk`'s page-table
pages, the segments and the stack of `exec`, the argument pages of `sys_exec`) is a
step, since any of them may find no page. Clean-up cannot fail and is part of the
failing step. Seventeen pages for two processes make every loop run out at some
turn. Page-table pages have two entries, so that growing takes new ones.

### UserCopy, UserHeap

`UserCopy` enumerates all addresses, lengths and permissions of three pages of two
bytes, addresses modulo 8: every byte is different, so a byte shows where it came
from. `UserHeap` models one turn of the loops of malloc and free as a step, in
header units, over a heap of ten units with at most eight calls. It is about requests
whose bytes fit the `int` that `sbrk` takes (`HeapAssumption`): umalloc.c:54 passes
a larger number truncated, and the heap would not get what `morecore` believes it got.

### Interrupts

What a thread still has to do is a sequence of operations (`acquire`, `release`,
`sched`, ...), and an interrupt puts the handler's in front: `push_off` and `pop_off`
count per CPU, `sched` saves `intena` and restores it on the CPU on which the thread
goes on. The scheduler calls `intr_on` at the start of a round of the table; the model
does not say at which process a round starts, so interrupts may or may not be turned
on before each. Two CPUs, two processes that call sleep, are killed and yield at
timer interrupts at any point where interrupts are on; ticks count modulo 2.
What exit does before it switches for good is in `ProcLife`.

### Fairness of MCWaiting

`WaitSpec`: a process that can run does (the scheduler's loop over the process table
reaches every runnable process); a pending interrupt is taken once `vdisk_lock` is
free; the device serves what it was given; a process of the pipe goes on with its
calls and closes its end after `MaxPipeCalls` of them, as one that exits does.

## 3. Runs

Passing runs:

| Run | Question | Instance |
|---|---|---|
| `raid_redundancy` | do data, mirrors and parity stay current while disks fail and are repaired, and are the disk locks kept? `ReadsCurrent`, `HealthyDiskCurrent`, `RedundancyCurrent`, `WritersApart`, `NoLockLeak` | 4 disks, 2 data rows, RAID1, RAID0_1, RAID4 and RAID5, 2 processes, repairs alone, the block past the end of the mirrored arrays included |
| `raid_lifecycle` | from a cold boot through init, use, failure, repair, info, destroy and restart: `TypeOK`, `NoUndefined`, and do reads return the last write while the health cache fills? `ReadsCurrent` | 2 disks, 1 data row, 2 processes, 3 pages; init, repair and destroy alone |
| `raid_live` | do calls return, with no discipline at all? `CallsReturn` | 4 disks, 2 data rows, RAID0, RAID1 and RAID5, 2 processes: two blocks whose data and parity disks are crossed, blocks past the end, a rebuild that panics, destroy |
| `virtio_safety` | is each request executed once, with descriptors of its own? `DescriptorsAccounted`, `Transferred` | 3 processes, 7 descriptors (two chains), indices modulo 14 |
| `waiting` | does waiting end? disk requests: `RequestsFinish`; pipe: `PipeIsQueue`, `NoIdleSleeper`, `PipeFreedOnce`, `PipeCallsReturn` | 2 processes, 4 descriptors (one chain); 3 processes at a pipe of 2 bytes |
| `storage` | log: `ImplementsStore`, `NoPanic`, `PinnedUntilInstalled`, `NoNeedlessSleep`; cache: `ReadsLatest`, `BufferObtained`; files: `BlocksOwnedOnce`, `FileContent`, `SharedWritesDisjoint`, `ChunkFitsLog` | as described with each module |
| `syscalls` | processes: `OneCpuEach`, `ZombiesNoticed`; memory: `PagesAccounted`, `ImageIntact`; files: `TablesExact`, `NamesExact` | as described with each module |
| `parts` | layout: `OwnCell`, `Rebuildable`; copies: `CopiesExact`; heap: `HeapPartitioned`; interrupts: `InterruptsSafe`, `TicksNoticed`; console: `ConsoleImplements`, `NoForgottenWork` | 5 disks of 8 rows (odd, and more rows than disks, so that RAID5's parity rotates past the start); the others as described with each module |

Two data rows and two processes are enough for the questions asked of the RAID
layer: the code treats rows independently, the interactions are between two calls
(a writer and a writer, a writer and a failure), and a third process adds only
another independent pair. The runs that do not check for deadlock are those whose
system may stop: after a panic (`raid_live`, whose property covers a deadlock,
since a deadlocked call never returns), when a lock is lost with the writer of the block
past the end (`raid_redundancy`), after the bounded number of
calls (`storage`) and once every end of the pipe is closed (`waiting`). The others
check for deadlock; where a part has a bound on its calls, it
may stutter once all of them have returned, and only then.

Runs that show a disagreement between the code and what the repository says of it
(details, with quotations, under "findings" in PROJECT.json):

| Run | Shows |
|---|---|
| `raid_repair_race` | a repair that runs together with a write resurrects the old value on a disk that is then marked healthy |
| `raid_rebuild_disk2` | rebuilding any disk of a parity array but disk 1 makes `raid4_and_5_recovery` read disk 0, which has no transfer buffer |
| `virtio_kill` | `kill` ends a disk request before the device does |
| `fs_iput_race` | an inode that is allocated again while `iput` has freed it but still counts its own reference can be left without links, without references and not free |

Other behaviour met while modelling. Unless the item says otherwise, the workloads of
the passing runs avoid it (`QuietOps`, the choice of blocks, disks and paths,
`FailureApart`, no restart after a failure):

- raid.c:493 accepts block `max_blknum`, one past the end of RAID0, RAID1 and
  RAID0_1 arrays; it is mapped past the end of a disk or onto a mirror disk. A write of
  it to a RAID1 array on an even number of disks locks the first disk (raid.c:158) and
  then takes the lock of a disk that does not exist (raid.c:159): the first disk stays
  locked. `raid_live` and `raid_redundancy` include such requests; the theorems on data exclude them.
- raid.c:28 stores the health it read from the disk without a lock: the first
  lookup of a disk can undo a `disk_fail_raid` that came in between, and the disk is
  then served as healthy although writes had bypassed it. Without `FailureApart`, TLC
  shows this for `HealthyDiskCurrent` from a cold boot. The same store caches
  status 0, which is none of the statuses, for a disk without a superblock.
- raid.c:619 frees the superblock page while readers may still use it.
- raid.c:404 takes disk 0 for the mirror of the last primary of a mirrored
  array, so that disk cannot be repaired; raid.c:410 never repairs the parity
  disk of RAID4, and leaves it in RECOVERY.
- raid.c:536 marks the failure in a copy of the superblock that is not written
  back: after a restart the failed disk is healthy, and stale. A restart during
  `init_raid` leaves the superblocks of two arrays on the disks.
- raid.c:425 neither formats the disks nor computes parity, so a parity array
  made on disks with other contents is rebuilt wrongly.
- raid.c:321: a restart between the parity write and the data write leaves the
  row's parity wrong for good (the RAID write hole).
- After a primary fails in the middle of a mirrored write, a read of the mirror
  may return the old value after another read returned the new one;
  `ReadsCurrent` allows both while the write runs.
- pipe.c:84: a writer that is killed in the middle of its call returns without
  waking the readers of what it has written (`NoIdleSleeper` names the exception).
- pipe.c:84-90, pipe.c:114-118, proc.c:427-433: `killed()` takes and releases `p->lock`
  before `sleep()` takes it again. A kill in between finds the process RUNNING, sets the
  flag and wakes nobody: the killed process sleeps until somebody uses or closes the
  other end of the pipe, or a child exits. `Pipe` and `ProcLife` have this window, and no
  property says that a killed sleeper wakes.
- fs.c:266: with more inodes in use than NINODE, iget panics; NFILE is twice
  NINODE, so processes that hold enough files open bring the kernel down.
- sysfile.c:254, sysfile.c:151: create and link in a directory that another
  process has removed since nameiparent found it succeed; the name goes with the directory
  and the inode stays in use for ever. The run does this, and `NamesExact` counts such names.
- fs.c:314: from a current directory that was removed, and whose parent was
  removed too, the path ".." leads to a free inode, and ilock panics.
- log.c:220 compares with `log.size - 1`, which is `LOGSIZE - 1` if `sb.nlog` is
  LOGSIZE: a transaction of LOGSIZE blocks, which begin_op admits, would panic. The
  model assumes a log of more than LOGSIZE blocks.
- NBUF equals LOGSIZE: a transaction that fills the log pins every buffer, and the
  next bread panics; so do more processes inside a bread than there are buffers.
- A file that is open and has no name left when the machine restarts keeps its inode
  and blocks for ever: recovery does not look for such inodes.
- fs.c:522: a failing copyin in writei leaves bytes in the cached block that were not
  logged: a read sees them until the buffer is recycled, and the old ones afterwards.
- umalloc.c:54: a request of 2^31 bytes or more reaches sbrk as another number.
- proc.c:573: wakeup passes over a process in state USED whose lock the calling CPU
  holds; such a process is being made and never asleep, so no wakeup is lost by it.
- trap.c:216: the software interrupt is acknowledged after clockintr has run, so
  a tick that arrives in between is not counted.
- sysproc.c:60: sleep(n) with a negative n compares as unsigned and sleeps for
  almost ever; the model takes n from 1 up.

## 4. Proofs

Constants are arbitrary: `DISKS >= 2` and `BlocksPerDisk >= 2` are the only
assumptions on the layout. Each safety theorem is an induction: the initial states
satisfy an invariant, every action keeps it (one lemma per action), and it implies the
property.

**The layout.** `PartsProofs` proves for every number of disks and rows what
`parts` checks of the layout on one instance: `AlwaysOwnCell` (blocks stay on the disks, no two
share a cell, and redundancy lies on another disk than the data it protects) and
`AlwaysRebuildable` (the blocks of a stripe lie on different disks, and the rebuild
of disk 1 reads all the others). The invariant is the type invariant (the
superblock is one that `raid_system_init` builds); the work is in
`RaidLayoutProofs`, which proves the arithmetic level by level. Division and
remainder are first reduced to their defining equations (quotient and remainder
are unique), after which RAID5's placement is a rotation of the disks by the
stripe number, and a rotation is injective and misses only the parity disk.

**The locks of the RAID layer.** `RaidProofs` proves, for every number of disks,
processes, superblock pages and every set of system calls, that `Raid` keeps its types (`ColdTypeCorrect`,
`RebootTypeCorrect`), that writers never share a disk (`WritersAlwaysApart`) and
that no disk lock is leaked but the one of the block past the end (`LocksNeverLeak`), from a cold boot and on a machine
that restarts at any moment. It assumes what the module assumes of its constants:
levels that the array's disks support, at least one page, calls with the arguments
of their system call, and markers (`NoProc`, `Null`, `Unused`) that are not
values. There is no discipline on the calls: repairs, teardown and use of freed
pages run at any time.

Types alone are not inductive: `loc[p].red` may be any number up to twice the
disks, because the mirror of a disk past the middle is, and `heap[loc[p].meta]` is
a superblock only if the page was filled in. `DataInv` adds what the handler at
each label relies on:

- `JobInv`: the handler runs for the system call it belongs to (a write has a
  value, a repair a disk of the array);
- `SuperblockInv`: the page it uses was filled in, and its copy of the superblock
  is one that `raid_system_init` builds;
- `AddressInv`: its disk and redundant disk are different disks of the array and
  its row is a data row, which is where the lemmas of `RaidLayoutProofs` on
  `disk_num`, `blkc_num` and the parity disk come in;
- `RecoveryInv`: the recovery loops stay within the rows;
- `PublishedInv`: the page that `raid_device` points to was filled in.

There is one lemma per action. `LockInv` rests on `DataInv` (the two disks of a
writer differ and do not change while it is inside): a process past its first or
second acquiresleep holds that lock (`FirstHeld`, `SecondHeld`), and a lock that
is held is held by a process at such a place, or by one that went astray at the lock
behind the array with the lock of its first disk (`HeldByNeed`, `Stray`). Only four actions
touch the locks; the others are shown to leave the locks and the need for them
alone (`KeepsLocks`). The two lock theorems follow from `LockInv` and from the fact
that a lock has one holder.

**The data of the RAID layer** (`RaidDataProofs`). What the RAID layer promises its
users holds only if they observe a discipline: each hypothesis below excludes a case
of section 3 in which the code fails. The hypotheses are about the
constants `Calls` and `QuietOps` alone. The runs named satisfy them, but for the
block past the end of mirrored arrays in `raid_redundancy`, whose writer stops there.

- `Orderly` (run `raid_lifecycle`): an array is destroyed only while nothing else runs;
  the block one past the end, which `max_blknum` lets through, is not used; and no disk
  but the first is repaired where parity arrays can exist. Under it `NothingUndefined`
  proves `NoUndefined`: no panic and no use of a freed page, from power-on and with
  restarts at any moment. `SafeInv` adds to `DataInv` that whoever destroys is alone,
  that the page of `raid_device` is not freed but in the last steps of
  `raid_system_destroy`, and that no process points to a freed page.
- `Disciplined` (run `raid_redundancy`): the array is neither made nor destroyed while
  it is in service, the block one past its end is not used, and a repair runs alone.
  Under it `ReadsAlwaysCurrent`, `HealthyDisksAlwaysCurrent` and
  `RedundancyAlwaysCurrent` prove the three data properties for every number of disks,
  rows and processes and every level, of an array whose health cache is filled.

The three rest on `ServiceInv`. It says of the array that data, mirrors and parity are
current except between the two writes of one writer (`PlainCells`, `MirrorCells`,
`PrimaryCells`, `ParityRows`), and of a process what its label entails: the cells it
works on are those of its block (`ServingFit`); a writer of a parity row still holds
the old data and the old parity (`WriterFit`, which needs `WritersApart`, so the lock
theorems); what a reader is about to deliver is among the values that it may deliver
(`DeliveryFit`, `Expects`); a copy has the rows up to `i` (`CopyFit`), and the buffer of
a rebuild has the XOR of the disks read so far (`XorFit`). The parity part is about the
cardinality of the set of disks with a one in a row: a write flips it, the parity write
flips it back, and the XOR of all but the first disk is the first.

**The log** (`FsLogProofs`), for any number of processes, blocks and values and any
`LOGSIZE`, `MAXOPBLOCKS` and log device that is larger: `ReservationSuffices`,
`PinsBalanced`, `NoLostWakeup`, and the refinement `LogIsAtomicStore`. `NoPanic` is far
from inductive: `RoomInv` bounds the header *and* all the writes that the active calls
have reserved and not made, as the cardinality of a set of pairs (call, write). Atomicity
takes how far the commit is: `HeadInv` (when the header on the disk is empty and when it
is the one in memory), `CommitInv` and `BootInv` (how much of log and home is written),
`PinInv` and `CacheInv` (what is in the cache only). The refinement maps the stable
contents of the store to what would survive a crash now: the write of the header is its
Commit, a power failure its Crash, and copying to the log, installing, clearing and
every step of the recovery are stutters.

**The buffer cache** (`StorageProofs`), for any number of users, buffers, blocks,
values and pins: `CacheCoherent`, `BuffersNeverLost`. No number of buffers is assumed to be
enough and no user to write what it changed. `BufInv` has one buffer per block, `refcnt` as the number of users and
pins, the sleep lock with the process that uses the buffer, a valid buffer with
what its users last left, and the disk with what was last written or pinned unless a pin keeps the
buffer from being recycled. That a buffer with references has a user or a pin is what makes the
panic of bget the true shortage of buffers.

**File contents** (`StorageProofs`), for any number of processes, files and blocks, any
block size and any number of direct and indirect addresses: `BlocksOwnedAlways`,
`FileContentKept`, `SharedWritesApart`, `ChunkFitsLogAlways`. `BlockInv` has five parts.
`OwnInv`: every block marked in the bitmap is in one place of one inode or indirect block.
`LockInv`: the inode lock is with the process in its turn of writei, and the offset it
read under the lock is still the file's. `SpanInv`: what the turns of a shared file have written
lies below its offset, so that chunks are apart. `ContentInv`: for each place below the size,
and each that the current turn has written already, the block that the inode
names has, in its buffer and on the disk, a byte that the file may hold there. `BudgetInv`: beside the indirect block and its bit, a chunk has logged at most two
blocks for each block it wrote, one less if it began inside a block, which was there
already; a transaction is assumed to allow six blocks or more. That every block is
counted once is a bijection between places and blocks.

**Inodes and open files** (`FsLogProofs`), for any number of processes, inodes, files and
descriptors, any tree on the disk and any calls: `TablesExactAlways`. `InodeInv` has these
parts. `CallInv`: for each place in a call, which inodes the call holds references to
(`Shape`), which sleep locks (`Locked`), and that a process that is gone has nothing
(`Leaves`). `InodeRefs` and `FileRefs` are the two counts, as cardinalities: of the pairs
(process, n) for the n-th reference that a process holds (at most six), of the files behind
which the inode is, and of the descriptors that name a file. `CopyInv`: a valid copy shows
the disk, or the inode is between `type = 0` and `valid = 0` in iput and its sleep lock is
held, up to the panic of a full table, after which nothing moves. A step is of one process, so the argument has two general lemmas: `PutMove` and
`GoMove` for the steps that leave files alone, `FileMove` for the others; each takes a step
apart into what happens to the table (`Table(k)`: one reference to `k` is taken, no copy
becomes wrong) and to the call, and asks that what the call holds afterwards is what it
held before plus `k`. The inode cannot be freed under a process that looks it up because a
call that holds a lock also holds a reference, and the last reference is the freer's own.
The module assumes finitely many processes and inodes, and that the tree at boot is one: its
entries name inodes, none of them the root, and each at most once.

**The rings** (`RingProofs`): the disk driver (`DescriptorsNeverLost`,
`TransferredOnce`, `WokenWhenFinished`), the pipe (`PipeSleepersWoken`,
`PipePageFreedOnce`, the refinement `PipeIsAQueue`) and the console
(`ConsoleForgetsNothing`, the refinement `ConsoleIsLineDiscipline`), for any number of
processes and any size. The indices count modulo a multiple of the size and start
anywhere, so that the wrap is covered; the lemmas on wrapped indices come first. For the
disk, `RingInv` says that the first descriptor of a sleeping request is in at most one of
avail ring, device and used ring, and once; `ChainInv` that chains are disjoint and make
up all that is not free; `ServedInv` that a request was executed once when it is in
the used ring. For the pipe, `EndInv` says who can still close an end, and `SleepInv`
that a sleeper's condition is false or that the holder of the lock will wake it, or for a
reader that a killed writer left silently; nothing is said of killed sleepers. For
the console, `LineInv` bounds the lines and says that the line being typed has no end.

**The process table** (`SyscallProofs`), for any number of slots and CPUs:
`OneProcessOneCpu`, `NoZombieForgotten`. `LifeInv` says of a CPU that the process it is on
runs or holds its own lock (`CpuInv`), of a fork that its child belongs to nobody else
(`ForkInv`), of a parent that it has not left (`TreeInv`), and of one that sleeps or is
about to that each exiting child has still to wake it (`WakeInv`).

**Copies to and from user memory** (`SyscallProofs`), for any page size, any number of
user pages, any address and length: `CopiesExactAlways`. `CopyInv` says how far the loop
over pages is and that the bytes up to there, and no others, were moved (`MovedInv`,
`TurnInv`), and what a finished copy has found (`EndInv`). Addresses are modulo
`AddrMod` (2^64): the test of fetchaddr, which may wrap, is shown to be the plain bound
once the word lies in user pages. `AddrMod` is assumed to be a multiple of the page size
and larger than user memory.

**Physical memory** (`SyscallProofs`), for any number of pages and processes, any page
size, sbrk arguments, programs and number of exec arguments: `PagesAccountedAlways`,
`ImageIntactAlways`. The one assumption on sizes is that there are the seven pages that
`userinit` takes. The operations of `kalloc.c` and `vm.c` are proved first, as functions
on a record of the pool, the contents and one page table: `Whole` says that pool, table
and the pages held by others share out memory, `Kept` that what is not touched stays
where it is and as it is; each operation keeps both, whether it succeeds or fails half way.
`MemInv` then has `ShareInv` (pool and holders, which are page tables, tables being
built, arguments and trapframes, share out the pages, and no holder has one twice),
`KidInv` (no two forks fill the same child) and for each process what its place
in a call entails (`Sound`): its image (`OwnImage`), where its loop is (`Loop`), the pages
that sbrk has added (`Growing`), that exec has loaded (`Loading`), or that fork has copied
(`Forked`). An action is then: the operation keeps `Whole`, so `ShareInv` holds after it;
the pages of the others are untouched, so they stay `Sound`; and the actor's own
part is shown for its new place.

**Spin locks and interrupts** (`PartsProofs`), for any number of CPUs and processes and any
order of the process table: `InterruptsSafeAlways`, `TicksNoticedAlways`. The state of a
thread is the list of operations it has still to run, and interrupts put operations in
front of it at almost any place, so the invariant has to say that any such list is in
order. A *label* is what a thread may rely on between two operations: the locks it holds,
`noff`, whether interrupts stay off after the last release (`quiet`), whether it is
between `sched` and the restore of `intena` (`away`), whether it has looked at `ticks` and
is about to sleep (`looked`), whether it is in `clockintr` (`dev`). `Step` says which label each operation
expects and which it leaves, and `Fits(t, s, a, b)` that the operations `s` lead thread
`t` from label `a` to label `b`; a lemma per function of the kernel (`FitsYield`,
`FitsSleepOn`, `FitsSystemCall`, `FitsClock`, ...) shows that its code fits. `IntrInv` then
has these parts. `Running`: what the thread on a CPU has still to do fits from
a label that matches the CPU's locks, `noff`, `intena` and interrupt flag up to user
mode. `Suspended`: a process that is not on a CPU goes on with its own `p->lock`, which
the scheduler that picks it will hold, and with the `intena` it saved. `Waiting`: the
scheduler goes on with the `p->lock` that its process hands back. `RunInv`: the
process of a CPU is RUNNING and on no other CPU. `TickFit` and `Noticed`: a handler that counts has a wakeup of every
process ahead, so that whoever sleeps has seen the present ticks or will be woken. No two
CPUs spin for each other because the labels allow a thread with a lock to spin in one
case only: it holds tickslock and wants its own `p->lock`. `noff` is the number of locks held
and spun for because each label says so of the operation that is next.

The proofs take the specifications that the runs compose (`LogSpec`, `BufSpec`, `BlockSpec`,
`InodeSpec`, `Spec`, `PipeSpec`, `ConsSpec`, `ProcSpec`, `CopySpec`, `MemSpec`, `IntrSpec`), with the assumptions that
the modules state of their constants and no others.

Only model-checked:

- all liveness (`CallsReturn`, `RequestsFinish`, `PipeCallsReturn`), which is out of the
  prover's reach, as is anything with ENABLED;
- `NamesExact` of `Inodes`: links against names, and with them the panics of ilock. It does
  not hold for every workload: the `..` of a removed directory may lead to a free inode
  (section 3);
- `HeapPartitioned` of `UserHeap`: what malloc and free do is a walk along the free list,
  a recursive function, so the proof would be an induction over data, which the provers
  cannot do;
- the data properties of `Raid` across restarts: a restart forgets which disks had
  failed and may leave a row's parity wrong, so they do not hold there (section 3).

## 5. Plan, and what is not modelled

Done: the RAID layer and the disk driver; log, cache and file contents; inodes and
descriptors; pipes and console; processes, memory, copies, spin locks and
interrupts; the user allocator. Left: a liveness statement for `ProcLife` (orphans are
reaped in the end), which with the present table takes TLC too long.

Not modelled, because it is straight-line code over bit layouts, registers or text with
no protocol to check: boot (`main.c`, `start.c`, `entry.S`), the kernel page table,
the bits of page-table entries, saving and restoring registers (`trampoline.S`,
`kernelvec.S`, `swtch.S`), the PLIC, the register set-up of disk and UART, the table
of system calls, `skipelem` (a path is a sequence of names here), `fstat` and
`procdump`, printing and strings, and `formatDisks`, which nothing calls. The RAM
disk is not built into the kernel. User programs other than the allocator are
sequential clients; the tests among them are a source of what the findings quote.
