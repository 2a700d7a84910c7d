-------------------------------- MODULE Raid --------------------------------
(***************************************************************************)
(* The RAID layer of the kernel, kernel/raid.c, under concurrent system    *)
(* calls.  Each process runs one system call at a time; its steps are the  *)
(* accesses that other processes can observe: one read_block or            *)
(* write_block, one acquiresleep or releasesleep of a disk lock, one read  *)
(* or store of the fields of raid_device.  read_block and write_block hold *)
(* the transfer buffer's sleeplock for the whole transfer and are atomic   *)
(* here; module VirtioDisk looks inside them.                              *)
(*                                                                         *)
(* A block's contents are one bit: every data path copies or XORs bytes,   *)
(* bit by bit, and no bit depends on another.                              *)
(***************************************************************************)
EXTENDS RaidLayout

CONSTANTS Levels,    \* the levels of the arrays that exist at boot
          Procs,     \* processes that issue RAID system calls
          Calls,     \* the system calls they may issue
          QuietOps,  \* operations issued only while no other call is running
          Pages,     \* bound on the superblock pages kalloc hands out, 1 .. n
          NoProc, Null, Zero, Undef, Unused, Freed

ASSUME LevelsAssumption == Levels \subseteq {l \in RAID_TYPE : Supported(l)}
ASSUME PagesAssumption == Pages \in Nat /\ Pages >= 1
ASSUME NoProcAssumption == NoProc \notin Procs
ASSUME NullAssumption   == Null \notin 1 .. Pages
ASSUME UnusedAssumption == Unused \notin Superblocks \union {Freed}
ASSUME FreedAssumption  == Freed \notin Superblocks
ASSUME ZeroAssumption   == Zero \notin Superblocks
ASSUME UndefAssumption  == Undef \notin {0, 1}
ASSUME CallsAssumption ==
    \A c \in Calls :
        \/ c.op = "init"  /\ c.level \in RAID_TYPE \union {"invalid"}
        \/ c.op = "read"  /\ c.block \in Nat
        \/ c.op = "write" /\ c.block \in Nat /\ c.value \in {0, 1}
        \/ c.op \in {"fail", "repair"} /\ c.disk \in Nat
        \/ c.op \in {"info", "destroy"}

VARIABLES
    rows,         \* rows[d][r]: the data rows of the disks
    sblock,       \* sblock[d]: row 0 of disk d, a superblock or Zero
    is_init,      \* raid_device.is_init
    superblock,   \* raid_device.superblock, a page or Null
    disk_status,  \* raid_device.disk_status, the cache
    disk_lock,    \* raid_device.disks[d].disk_lock, its holder
    heap,         \* the superblock pages: contents, Unused or Freed
    panicked,     \* the kernel has called panic or faulted
    pc,           \* where each process is in its system call
    call,         \* the system call it runs
    loc,          \* the local variables of the handlers
    latest,       \* history: the value the last effective write gave a block
    expect        \* history: what a running read may return

device == <<is_init, superblock, disk_status, heap>>
stored == <<rows, sblock>>
vars   == <<stored, device, disk_lock, panicked, pc, call, loc, latest, expect>>

Xor(a, b) == (a + b) % 2
Blocks    == 0 .. (DISKS * (BlocksPerDisk - 1) - 1)
NoCall    == [op |-> "none"]

Locals == [meta |-> Null, sb |-> Zero, health |-> "none", disk |-> 0, blk |-> 0,
           red |-> 0, buf |-> 0, par |-> 0, i |-> 0, j |-> 0, count |-> 0, ret |-> 0]

-----------------------------------------------------------------------------
(* Initial states.                                                          *)

\* init_raid_device, on disks that hold no array or one of an earlier boot.
\* The images are created zeroed.
ColdBoot ==
    /\ rows = [d \in Disks |-> [r \in Rows |-> 0]]
    /\ \E sb \in {Superblock(l) : l \in Levels} \union {Zero} : sblock = [d \in Disks |-> sb]
    /\ is_init = -1
    /\ superblock = Null
    /\ disk_status = [d \in 0 .. DISKS |-> "UNITIALIZED"]
    /\ disk_lock = [d \in Disks |-> NoProc]
    /\ heap = [g \in 1 .. Pages |-> Unused]
    /\ panicked = FALSE
    /\ pc = [p \in Procs |-> "idle"]
    /\ call = [p \in Procs |-> NoCall]
    /\ loc = [p \in Procs |-> Locals]
    /\ latest = [b \in Blocks |-> Undef]
    /\ expect = [p \in Procs |-> {}]

\* An array initialised on zeroed disks, every disk's health already cached.
ReadyArray ==
    /\ rows = [d \in Disks |-> [r \in Rows |-> 0]]
    /\ \E sb \in {Superblock(l) : l \in Levels} :
           /\ sblock = [d \in Disks |-> sb]
           /\ heap = [g \in 1 .. Pages |-> IF g = 1 THEN sb ELSE Unused]
    /\ is_init = 1
    /\ superblock = 1
    /\ disk_status = [d \in 0 .. DISKS |-> IF d = 0 THEN "UNITIALIZED" ELSE "HEALTHY"]
    /\ disk_lock = [d \in Disks |-> NoProc]
    /\ panicked = FALSE
    /\ pc = [p \in Procs |-> "idle"]
    /\ call = [p \in Procs |-> NoCall]
    /\ loc = [p \in Procs |-> Locals]
    /\ latest = [b \in Blocks |-> 0]
    /\ expect = [p \in Procs |-> {}]

-----------------------------------------------------------------------------
(* Control.                                                                 *)

At(p, label)   == pc[p] = label /\ ~panicked
Goto(p, label) == pc' = [pc EXCEPT ![p] = label]

\* The handler returns r to the caller.
Return(p, r) == Goto(p, "done") /\ loc' = [loc EXCEPT ![p].ret = r]

\* kalloc: a page no superblock has used.  A freed page goes to whoever
\* allocates next, so it is never a superblock again here.
FreshPages == {g \in 1 .. Pages : heap[g] = Unused}
NewPage    == CHOOSE g \in FreshPages : TRUE

Panic(p) == /\ panicked' = TRUE
            /\ UNCHANGED <<stored, device, disk_lock, pc, call, loc, latest, expect>>

Entry(c) == CASE c.op \in {"read", "write", "info"} -> "lm_fast"
              [] c.op = "init"    -> "init"
              [] c.op = "fail"    -> "fail"
              [] c.op = "repair"  -> "repair"
              [] c.op = "destroy" -> "destroy"

Writing(p, b) == pc[p] # "idle" /\ call[p].op = "write" /\ call[p].block = b
Reading(p, b) == pc[p] # "idle" /\ call[p].op = "read" /\ call[p].block = b

\* Bound: a call that may take a superblock page begins only if there is one
\* for it and for every call already running.
PageLeft(c) ==
    (\/ c.op = "init"
     \/ c.op \in {"read", "write", "info"} /\ (is_init = -1 \/ superblock = Null))
        => Cardinality(FreshPages) > Cardinality({q \in Procs : pc[q] # "idle"})

\* The quiet operations run alone.
Admitted(p, c) ==
    (c.op \in QuietOps \/ \E q \in Procs : pc[q] # "idle" /\ call[q].op \in QuietOps)
        => \A q \in Procs : pc[q] = "idle"

\* A system call of kernel/sysraid.c begins.
Invoke(p) ==
    /\ At(p, "idle")
    /\ \E c \in Calls :
        /\ Admitted(p, c) /\ PageLeft(c)
        /\ call' = [call EXCEPT ![p] = c]
        /\ Goto(p, Entry(c))
        /\ loc' = [loc EXCEPT ![p].i = 1]
        /\ expect' =
            CASE c.op = "read" /\ c.block \in Blocks ->
                     [expect EXCEPT ![p] = {latest[c.block]} \union
                         {call[q].value : q \in {q \in Procs : Writing(q, c.block)}}]
              [] c.op = "write" ->
                     [q \in Procs |-> IF Reading(q, c.block)
                                      THEN expect[q] \union {c.value} ELSE expect[q]]
              [] OTHER -> expect
    /\ UNCHANGED <<stored, device, disk_lock, panicked, latest>>

\* The system call is over.
Finish(p) ==
    /\ At(p, "done")
    /\ Goto(p, "idle")
    /\ call' = [call EXCEPT ![p] = NoCall]
    /\ loc' = [loc EXCEPT ![p] = Locals]
    /\ expect' = [expect EXCEPT ![p] = {}]
    /\ UNCHANGED <<stored, device, disk_lock, panicked, latest>>

-----------------------------------------------------------------------------
(* Superblock pages: the handlers read raid_device.superblock and the       *)
(* pointer load_metadata returned without holding metadata_lock.            *)

\* The page a step at this label dereferences, or Null.
Dereferenced(p) ==
    CASE pc[p] = "lm_fast" /\ is_init = 1                -> superblock
      [] pc[p] = "lm_final"                              -> superblock
      [] pc[p] = "destroy_free" /\ is_init # -1          -> superblock
      [] pc[p] \in {"rw", "mirror_health", "info_copy"} -> loc[p].meta
      [] pc[p] = "lock1" /\ loc[p].sb.raid_level # "RAID5" -> loc[p].meta
      [] OTHER                                           -> Null

Valid(p) == Dereferenced(p) # Null => heap[Dereferenced(p)] # Freed

\* The process reads, or frees again, a page that raid_system_destroy has
\* freed: what it does from here on is undefined.
UseAfterFree(p) ==
    /\ ~panicked
    /\ ~Valid(p)
    /\ Goto(p, "wild")
    /\ UNCHANGED <<stored, device, disk_lock, panicked, call, loc, latest, expect>>

-----------------------------------------------------------------------------
(* load_metadata                                                            *)

AfterLoad(p) == IF call[p].op = "info" THEN "info_health" ELSE "rw"
Loaded(p)    == Goto(p, AfterLoad(p)) /\ loc' = [loc EXCEPT ![p].meta = superblock]
LoadFailed(p) == Return(p, IF call[p].op = "info" THEN -1 ELSE -2)

LoadFast(p) ==
    /\ At(p, "lm_fast") /\ Valid(p)
    /\ IF is_init = 1 /\ superblock # Null
       THEN Loaded(p)
       ELSE Goto(p, "lm_check") /\ UNCHANGED loc
    /\ UNCHANGED <<stored, device, disk_lock, panicked, call, latest, expect>>

\* need_load, decided under metadata_lock
LoadCheck(p) ==
    /\ At(p, "lm_check")
    /\ Goto(p, IF is_init = -1 \/ superblock = Null THEN "lm_read" ELSE "lm_final")
    /\ UNCHANGED <<stored, device, disk_lock, panicked, call, loc, latest, expect>>

LoadRead(p) ==
    /\ At(p, "lm_read")
    /\ IF sblock[1] = Zero
       THEN LoadFailed(p)
       ELSE Goto(p, "lm_commit") /\ loc' = [loc EXCEPT ![p].sb = sblock[1]]
    /\ UNCHANGED <<stored, device, disk_lock, panicked, call, latest, expect>>

\* Under metadata_lock; the loader that comes second frees its own page.
LoadCommit(p) ==
    /\ At(p, "lm_commit")
    /\ IF superblock = Null \/ is_init = -1
       THEN /\ FreshPages # {}
            /\ heap' = [heap EXCEPT ![NewPage] = loc[p].sb]
            /\ superblock' = NewPage
            /\ is_init' = 1
            /\ disk_status' = [disk_status EXCEPT ![0] = loc[p].sb.disk_status]
       ELSE UNCHANGED device
    /\ Goto(p, "lm_final")
    /\ UNCHANGED <<stored, disk_lock, panicked, call, loc, latest, expect>>

LoadFinal(p) ==
    /\ At(p, "lm_final") /\ Valid(p)
    /\ IF superblock = Null THEN LoadFailed(p) ELSE Loaded(p)
    /\ UNCHANGED <<stored, device, disk_lock, panicked, call, latest, expect>>

load_metadata(p) ==
    LoadFast(p) \/ LoadCheck(p) \/ LoadRead(p) \/ LoadCommit(p) \/ LoadFinal(p)

-----------------------------------------------------------------------------
(* get_disk_health, at every place that calls it.  A disk whose health is   *)
(* not cached has its superblock read, and the status found there is stored *)
(* in the cache in a later step, without a lock.                            *)

\* The disk a step at this label asks the health of.
HealthDisk(p) ==
    CASE pc[p] \in {"data_health", "primary_health", "wprimary_health"} -> loc[p].disk
      [] pc[p] \in {"mirror_health", "wmirror_health"} -> loc[p].red
      [] pc[p] = "repair" -> call[p].disk
      [] pc[p] \in {"repair_count", "info_health"} -> loc[p].i
      [] pc[p] = "partner_health" -> loc[p].red
      [] OTHER -> 0

Cached(p) == /\ loc[p].health = "none"
             /\ HealthDisk(p) \in Disks => disk_status[HealthDisk(p)] # "UNITIALIZED"

\* What get_disk_health returns; -1 for a disk outside the array.
Health(p) == IF HealthDisk(p) \in Disks THEN disk_status[HealthDisk(p)] ELSE "none"

HealthRead(p) ==
    /\ ~panicked
    /\ HealthDisk(p) \in Disks
    /\ disk_status[HealthDisk(p)] = "UNITIALIZED"
    /\ loc[p].health = "none"
    /\ loc' = [loc EXCEPT ![p].health = IF sblock[HealthDisk(p)] = Zero THEN "zero"
                                        ELSE sblock[HealthDisk(p)].disk_status]
    /\ UNCHANGED <<stored, device, disk_lock, panicked, pc, call, latest, expect>>

HealthStore(p) ==
    /\ ~panicked
    /\ loc[p].health # "none"
    /\ disk_status' = [disk_status EXCEPT ![HealthDisk(p)] = loc[p].health]
    /\ loc' = [loc EXCEPT ![p].health = "none"]
    /\ UNCHANGED <<stored, is_init, superblock, heap, disk_lock, panicked, pc, call,
                   latest, expect>>

get_disk_health(p) == HealthRead(p) \/ HealthStore(p)

-----------------------------------------------------------------------------
(* raid_read_block, raid_write_block and rw_block                           *)

IsRead(p) == call[p].op = "read"

\* The validity check, the address computation and the switch on the level.
rw_block(p) ==
    /\ At(p, "rw") /\ Valid(p)
    /\ LET sb == heap[loc[p].meta]
           b  == call[p].block
       IN  IF ~Accepts(sb, b)
           THEN Return(p, -1)
           ELSE /\ loc' = [loc EXCEPT
                      ![p].disk = disk_num(sb, b),
                      ![p].blk  = blkc_num(sb, b),
                      ![p].red  = IF sb.raid_level = "RAID0" THEN 0 ELSE RedundantDisk(sb, b),
                      ![p].sb   = sb]
                /\ Goto(p, CASE sb.raid_level \notin Mirrored -> "data_health"
                             [] sb.raid_level \in Mirrored /\ IsRead(p) -> "primary_health"
                             [] sb.raid_level \in Mirrored /\ ~IsRead(p) -> "lock1")
    /\ UNCHANGED <<stored, device, disk_lock, panicked, call, latest, expect>>

\* RAID0, RAID4 and RAID5 ask for the health of the data disk, before any lock.
DataHealth(p) ==
    /\ At(p, "data_health") /\ Cached(p)
    /\ IF Health(p) # "HEALTHY"
       THEN Return(p, -1)
       ELSE /\ Goto(p, CASE IsRead(p) -> "read_row"
                         [] ~IsRead(p) /\ loc[p].sb.raid_level = "RAID0" -> "write_row"
                         [] ~IsRead(p) /\ loc[p].sb.raid_level # "RAID0" -> "lock1")
            /\ UNCHANGED loc
    /\ UNCHANGED <<stored, device, disk_lock, panicked, call, latest, expect>>

PrimaryHealth_NotRecovering(p) ==
    /\ At(p, "primary_health") /\ Cached(p)
    /\ Goto(p, IF Health(p) # "RECOVERY" THEN "read_row" ELSE "mirror_health")
    /\ UNCHANGED <<stored, device, disk_lock, panicked, call, loc, latest, expect>>

\* A row past the end of the disk: the device reports an error, and
\* virtio_disk_intr panics.
OnDisk(p)  == loc[p].blk \in Rows
OffDisk(p) ==
    /\ \E label \in {"read_row", "write_primary", "write_mirror", "write_row"} : At(p, label)
    /\ ~OnDisk(p)
    /\ Panic(p)

\* handle_rw_raid01, reading: the primary if it is healthy, else the mirror.
PrimaryHealth(p) ==
    /\ At(p, "primary_health") /\ Cached(p)
    /\ Goto(p, IF Health(p) = "HEALTHY" THEN "read_row" ELSE "mirror_health")
    /\ UNCHANGED <<stored, device, disk_lock, panicked, call, loc, latest, expect>>

MirrorHealth(p) ==
    /\ At(p, "mirror_health") /\ Cached(p) /\ Valid(p)
    /\ IF Health(p) # "HEALTHY"
       THEN Return(p, -1)
       ELSE Goto(p, "read_row") /\ loc' = [loc EXCEPT ![p].disk = loc[p].red]
    /\ UNCHANGED <<stored, device, disk_lock, panicked, call, latest, expect>>

ReadRow(p) ==
    /\ At(p, "read_row") /\ OnDisk(p)
    /\ Goto(p, "done")
    /\ loc' = [loc EXCEPT ![p].buf = rows[loc[p].disk][loc[p].blk], ![p].ret = 0]
    /\ UNCHANGED <<stored, device, disk_lock, panicked, call, latest, expect>>

LockOrder_ByRole(p) == <<loc[p].disk, loc[p].red>>

\* A write locks its two disks, the lower number first.
LockOrder(p) == IF loc[p].red < loc[p].disk THEN <<loc[p].red, loc[p].disk>>
                                            ELSE <<loc[p].disk, loc[p].red>>
first(p)  == LockOrder(p)[1]
second(p) == LockOrder(p)[2]

LockFirst(p) ==
    /\ At(p, "lock1") /\ Valid(p)
    /\ disk_lock[first(p)] = NoProc
    /\ disk_lock' = [disk_lock EXCEPT ![first(p)] = p]
    /\ Goto(p, "lock2")
    /\ UNCHANGED <<stored, device, panicked, call, loc, latest, expect>>

\* The mirror of the block max_blknum of a RAID1 array on an even number of
\* disks is disk DISKS + 1: its "lock" lies behind the array disks[], and the
\* process goes astray with its first disk locked.
LockOutside(p) ==
    /\ At(p, "lock2")
    /\ second(p) \notin Disks
    /\ Goto(p, "wild")
    /\ UNCHANGED <<stored, device, disk_lock, panicked, call, loc, latest, expect>>

LockSecond_NoWait(p) ==
    /\ At(p, "lock2") /\ second(p) \in Disks
    /\ disk_lock' = [disk_lock EXCEPT ![second(p)] = p]
    /\ Goto(p, IF loc[p].sb.raid_level \in Mirrored THEN "wprimary_health" ELSE "read_old")
    /\ UNCHANGED <<stored, device, panicked, call, loc, latest, expect>>

LockSecond(p) ==
    /\ At(p, "lock2") /\ second(p) \in Disks
    /\ disk_lock[second(p)] = NoProc
    /\ disk_lock' = [disk_lock EXCEPT ![second(p)] = p]
    /\ Goto(p, IF loc[p].sb.raid_level \in Mirrored THEN "wprimary_health" ELSE "read_old")
    /\ UNCHANGED <<stored, device, panicked, call, loc, latest, expect>>

UnlockSecond(p) ==
    /\ At(p, "unlock2")
    /\ disk_lock' = [disk_lock EXCEPT ![second(p)] = NoProc]
    /\ Goto(p, "unlock1")
    /\ UNCHANGED <<stored, device, panicked, call, loc, latest, expect>>

UnlockFirst(p) ==
    /\ At(p, "unlock1")
    /\ disk_lock' = [disk_lock EXCEPT ![first(p)] = NoProc]
    /\ Goto(p, "done")
    /\ UNCHANGED <<stored, device, panicked, call, loc, latest, expect>>

\* handle_rw_raid01, writing: an unhealthy primary is skipped if the mirror
\* is healthy; the mirror is written in either case.
WritePrimaryHealth(p) ==
    /\ At(p, "wprimary_health") /\ Cached(p)
    /\ Goto(p, IF Health(p) = "HEALTHY" THEN "write_primary" ELSE "wmirror_health")
    /\ UNCHANGED <<stored, device, disk_lock, panicked, call, loc, latest, expect>>

WriteMirrorHealth_KeepsLocks(p) ==
    /\ At(p, "wmirror_health") /\ Cached(p)
    /\ IF Health(p) = "HEALTHY"
       THEN Goto(p, "write_mirror") /\ UNCHANGED loc
       ELSE Return(p, -1)
    /\ UNCHANGED <<stored, device, disk_lock, panicked, call, latest, expect>>

WriteMirrorHealth(p) ==
    /\ At(p, "wmirror_health") /\ Cached(p)
    /\ IF Health(p) = "HEALTHY"
       THEN Goto(p, "write_mirror") /\ UNCHANGED loc
       ELSE Goto(p, "unlock2") /\ loc' = [loc EXCEPT ![p].ret = -1]
    /\ UNCHANGED <<stored, device, disk_lock, panicked, call, latest, expect>>

\* write_block of the data buffer to disk d at the block's row
PutRow(p, d, v) == rows' = [rows EXCEPT ![d][loc[p].blk] = v]

WritePrimary(p) ==
    /\ At(p, "write_primary") /\ OnDisk(p)
    /\ PutRow(p, loc[p].disk, call[p].value)
    /\ Goto(p, "write_mirror")
    /\ UNCHANGED <<sblock, device, disk_lock, panicked, call, loc, latest, expect>>

WriteMirror(p) ==
    /\ At(p, "write_mirror") /\ OnDisk(p)
    /\ PutRow(p, loc[p].red, call[p].value)
    /\ latest' = [latest EXCEPT ![call[p].block] = call[p].value]
    /\ Goto(p, "unlock2")
    /\ UNCHANGED <<sblock, device, disk_lock, panicked, call, loc, expect>>

\* RAID4 and RAID5: the old data, then write_parrity_block, then the data.
ReadOld(p) ==
    /\ At(p, "read_old")
    /\ loc' = [loc EXCEPT ![p].buf = rows[loc[p].disk][loc[p].blk]]
    /\ Goto(p, IF rows[loc[p].disk][loc[p].blk] = call[p].value
               THEN "unlock2" ELSE "read_parity")
    /\ UNCHANGED <<stored, device, disk_lock, panicked, call, latest, expect>>

ReadParity(p) ==
    /\ At(p, "read_parity")
    /\ loc' = [loc EXCEPT ![p].par = rows[loc[p].red][loc[p].blk]]
    /\ Goto(p, "write_parity")
    /\ UNCHANGED <<stored, device, disk_lock, panicked, call, latest, expect>>

NewParity_NoOld(new, old, parity) == Xor(new, parity)

\* newData ^ oldData ^ parityData
NewParity(new, old, parity) == Xor(Xor(new, old), parity)

WriteParity(p) ==
    /\ At(p, "write_parity")
    /\ PutRow(p, loc[p].red, NewParity(call[p].value, loc[p].buf, loc[p].par))
    /\ Goto(p, "write_row")
    /\ UNCHANGED <<sblock, device, disk_lock, panicked, call, loc, latest, expect>>

\* The data disk of RAID0, RAID4 and RAID5.
WriteRow(p) ==
    /\ At(p, "write_row") /\ OnDisk(p)
    /\ PutRow(p, loc[p].disk, call[p].value)
    /\ latest' = [latest EXCEPT ![call[p].block] = call[p].value]
    /\ Goto(p, IF loc[p].sb.raid_level = "RAID0" THEN "done" ELSE "unlock2")
    /\ UNCHANGED <<sblock, device, disk_lock, panicked, call, loc, expect>>

write_parrity_block(p) == ReadParity(p) \/ WriteParity(p)

handle_rw_raid01(p) ==
    \/ PrimaryHealth(p) \/ MirrorHealth(p)
    \/ WritePrimaryHealth(p) \/ WriteMirrorHealth(p) \/ WritePrimary(p) \/ WriteMirror(p)

Transfer(p) ==
    \/ rw_block(p) \/ DataHealth(p) \/ ReadRow(p) \/ OffDisk(p) \/ LockOutside(p)
    \/ LockFirst(p) \/ LockSecond(p) \/ UnlockSecond(p) \/ UnlockFirst(p)
    \/ handle_rw_raid01(p) \/ ReadOld(p) \/ write_parrity_block(p) \/ WriteRow(p)

-----------------------------------------------------------------------------
(* raid_fail_disk: the UNHEALTY status goes into the cache and into a copy  *)
(* of the superblock on the stack, which is not written back.               *)
raid_fail_disk(p) ==
    /\ At(p, "fail")
    /\ IF call[p].disk \in Disks
       THEN /\ disk_status' = [disk_status EXCEPT ![call[p].disk] = "UNHEALTY"]
            /\ Return(p, 0)
       ELSE /\ UNCHANGED disk_status
            /\ Return(p, -1)
    /\ UNCHANGED <<stored, is_init, superblock, heap, disk_lock, panicked, call,
                   latest, expect>>

-----------------------------------------------------------------------------
(* raid_repair_disk, handle_recovery, mirrorRecovery, raid4_and_5_recovery  *)

RepairHealth(p) ==
    /\ At(p, "repair") /\ Cached(p)
    /\ CASE call[p].disk \notin Disks -> Return(p, -2)
         [] call[p].disk \in Disks /\ Health(p) = "HEALTHY" -> Return(p, 0)
         [] call[p].disk \in Disks /\ Health(p) # "HEALTHY" ->
                Goto(p, "repair_count") /\ UNCHANGED loc
    /\ UNCHANGED <<stored, device, disk_lock, panicked, call, latest, expect>>

\* fail_count, one disk at a time (loc.i starts at 1)
RepairCount(p) ==
    /\ At(p, "repair_count") /\ Cached(p)
    /\ loc' = [loc EXCEPT
          ![p].count = loc[p].count + (IF Health(p) = "UNHEALTY" THEN 1 ELSE 0),
          ![p].i = loc[p].i + 1]
    /\ Goto(p, IF loc[p].i = DISKS THEN "repair_sb" ELSE "repair_count")
    /\ UNCHANGED <<stored, device, disk_lock, panicked, call, latest, expect>>

\* The level comes from the failed disk's own superblock.
RepairSuperblock(p) ==
    /\ At(p, "repair_sb")
    /\ loc' = [loc EXCEPT ![p].sb = sblock[call[p].disk]]
    /\ Goto(p, "repair_mark")
    /\ UNCHANGED <<stored, device, disk_lock, panicked, call, latest, expect>>

\* raid_device.disk_status[disk_num] = RECOVERY
MarkRecovery(p) == disk_status' = [disk_status EXCEPT ![call[p].disk] = "RECOVERY"]

\* What handle_recovery does not attempt.  A zeroed superblock reads as RAID0,
\* level 0 of the enumeration.
Refused(p) ==
    \/ loc[p].sb = Zero
    \/ loc[p].sb.raid_level = "RAID0"
    \/ loc[p].sb.raid_level \in Parity /\ loc[p].count > 1
    \/ loc[p].sb.raid_level = "RAID4" /\ loc[p].sb.parrity_disk = call[p].disk

\* RECOVERY in the cache, then the switch of handle_recovery.
handle_recovery(p) ==
    /\ At(p, "repair_mark")
    /\ MarkRecovery(p)
    /\ CASE Refused(p) -> Return(p, -1)
         [] ~Refused(p) /\ loc[p].sb.raid_level \in Mirrored ->
                /\ loc' = [loc EXCEPT ![p].red = RecoveryPartner(loc[p].sb, call[p].disk),
                                      ![p].i = 0]
                /\ Goto(p, "partner_health")
         [] ~Refused(p) /\ loc[p].sb.raid_level \in Parity ->
                /\ loc' = [loc EXCEPT ![p].i = 1, ![p].j = 0]
                /\ Goto(p, "xor_read")
    /\ UNCHANGED <<stored, is_init, superblock, heap, disk_lock, panicked, call,
                   latest, expect>>

PartnerHealth(p) ==
    /\ At(p, "partner_health") /\ Cached(p)
    /\ IF Health(p) # "HEALTHY" THEN Return(p, -1) ELSE Goto(p, "copy_read") /\ UNCHANGED loc
    /\ UNCHANGED <<stored, device, disk_lock, panicked, call, latest, expect>>

LastRow_Early == BlocksPerDisk - 2

\* The last iteration of both recovery loops.
LastRow == BlocksPerDisk - 1

\* mirrorRecovery copies every row, the superblock row included, without locks.
CopyRead(p) ==
    /\ At(p, "copy_read")
    /\ loc' = IF loc[p].i = 0
              THEN [loc EXCEPT ![p].sb = sblock[loc[p].red]]
              ELSE [loc EXCEPT ![p].buf = rows[loc[p].red][loc[p].i]]
    /\ Goto(p, "copy_write")
    /\ UNCHANGED <<stored, device, disk_lock, panicked, call, latest, expect>>

CopyWrite(p) ==
    /\ At(p, "copy_write")
    /\ IF loc[p].i = 0
       THEN /\ sblock' = [sblock EXCEPT ![call[p].disk] = loc[p].sb]
            /\ UNCHANGED rows
       ELSE /\ rows' = [rows EXCEPT ![call[p].disk][loc[p].i] = loc[p].buf]
            /\ UNCHANGED sblock
    /\ loc' = [loc EXCEPT ![p].i = loc[p].i + 1]
    /\ Goto(p, IF loc[p].i = LastRow THEN "repair_done" ELSE "copy_read")
    /\ UNCHANGED <<device, disk_lock, panicked, call, latest, expect>>

mirrorRecovery(p) == CopyRead(p) \/ CopyWrite(p)

\* raid4_and_5_recovery: disk 0 has no transfer buffer, and read_block of it
\* faults on the null pointer.
XorRead(p) ==
    /\ At(p, "xor_read")
    /\ LET source == RecoverySource(call[p].disk, loc[p].j)
       IN  IF source = 0
           THEN Panic(p)
           ELSE /\ loc' = [loc EXCEPT
                      ![p].buf = IF loc[p].j = 0 THEN rows[source][loc[p].i]
                                 ELSE Xor(loc[p].buf, rows[source][loc[p].i]),
                      ![p].j = loc[p].j + 1]
                /\ Goto(p, IF loc[p].j = DISKS - 2 THEN "xor_write" ELSE "xor_read")
                /\ UNCHANGED <<stored, device, disk_lock, panicked, call, latest, expect>>

XorWrite(p) ==
    /\ At(p, "xor_write")
    /\ rows' = [rows EXCEPT ![call[p].disk][loc[p].i] = loc[p].buf]
    /\ loc' = [loc EXCEPT ![p].i = loc[p].i + 1, ![p].j = 0]
    /\ Goto(p, IF loc[p].i = LastRow THEN "repair_done" ELSE "xor_read")
    /\ UNCHANGED <<sblock, device, disk_lock, panicked, call, latest, expect>>

raid4_and_5_recovery(p) == XorRead(p) \/ XorWrite(p)

RepairDone(p) ==
    /\ At(p, "repair_done")
    /\ disk_status' = [disk_status EXCEPT ![call[p].disk] = "HEALTHY"]
    /\ Return(p, 0)
    /\ UNCHANGED <<stored, is_init, superblock, heap, disk_lock, panicked, call,
                   latest, expect>>

raid_repair_disk(p) ==
    \/ RepairHealth(p) \/ RepairCount(p) \/ RepairSuperblock(p) \/ handle_recovery(p)
    \/ PartnerHealth(p) \/ mirrorRecovery(p) \/ raid4_and_5_recovery(p) \/ RepairDone(p)

-----------------------------------------------------------------------------
(* raid_system_info: load_metadata again for each disk, until a healthy one *)

InfoHealth(p) ==
    /\ At(p, "info_health") /\ Cached(p)
    /\ IF Health(p) = "HEALTHY"
       THEN Goto(p, "info_copy") /\ UNCHANGED loc
       ELSE IF loc[p].i < DISKS
       THEN Goto(p, "lm_fast") /\ loc' = [loc EXCEPT ![p].i = loc[p].i + 1]
       ELSE Return(p, -1)
    /\ UNCHANGED <<stored, device, disk_lock, panicked, call, latest, expect>>

\* The three fields are copied out to the caller.
InfoCopy(p) ==
    /\ At(p, "info_copy") /\ Valid(p)
    /\ Goto(p, "done")
    /\ loc' = [loc EXCEPT ![p].sb = heap[loc[p].meta], ![p].ret = 0]
    /\ UNCHANGED <<stored, device, disk_lock, panicked, call, latest, expect>>

raid_system_info(p) == InfoHealth(p) \/ InfoCopy(p)

-----------------------------------------------------------------------------
(* raid_system_init: the superblock goes to every disk, then into memory.   *)
(* Neither the old superblock page nor the cached health nor the data rows  *)
(* are reset; what the new array's blocks hold is undefined.                *)

InitCheck(p) ==
    /\ At(p, "init")
    /\ LET level == call[p].level
       IN  CASE level \notin RAID_TYPE -> Return(p, -1)
             [] level \in RAID_TYPE /\ ~Supported(level) -> Return(p, -2)
             [] level \in RAID_TYPE /\ Supported(level) ->
                    /\ loc' = [loc EXCEPT ![p].sb = Superblock(level)]
                    /\ Goto(p, "init_write")
    /\ UNCHANGED <<stored, device, disk_lock, panicked, call, latest, expect>>

InitWrite(p) ==
    /\ At(p, "init_write")
    /\ sblock' = [sblock EXCEPT ![loc[p].i] = loc[p].sb]
    /\ loc' = [loc EXCEPT ![p].i = loc[p].i + 1]
    /\ Goto(p, IF loc[p].i = DISKS THEN "init_publish" ELSE "init_write")
    /\ UNCHANGED <<rows, device, disk_lock, panicked, call, latest, expect>>

InitPublish(p) ==
    /\ At(p, "init_publish")
    /\ FreshPages # {}
    /\ heap' = [heap EXCEPT ![NewPage] = loc[p].sb]
    /\ superblock' = NewPage
    /\ latest' = [b \in Blocks |-> Undef]
    /\ Goto(p, "init_flag")
    /\ UNCHANGED <<stored, is_init, disk_status, disk_lock, panicked, call, loc, expect>>

InitFlag(p) ==
    /\ At(p, "init_flag")
    /\ is_init' = 1
    /\ Return(p, 0)
    /\ UNCHANGED <<stored, superblock, disk_status, heap, disk_lock, panicked, call,
                   latest, expect>>

raid_system_init(p) == InitCheck(p) \/ InitWrite(p) \/ InitPublish(p) \/ InitFlag(p)

-----------------------------------------------------------------------------
(* raid_system_destroy                                                      *)

DestroyWrite(p) ==
    /\ At(p, "destroy")
    /\ sblock' = [sblock EXCEPT ![loc[p].i] = Zero]
    /\ loc' = [loc EXCEPT ![p].i = loc[p].i + 1]
    /\ Goto(p, IF loc[p].i = DISKS THEN "destroy_free" ELSE "destroy")
    /\ UNCHANGED <<rows, device, disk_lock, panicked, call, latest, expect>>

\* kfree panics on the null pointer.
DestroyFree(p) ==
    /\ At(p, "destroy_free") /\ Valid(p)
    /\ IF is_init # -1 /\ superblock = Null
       THEN Panic(p)
       ELSE /\ heap' = IF is_init # -1 THEN [heap EXCEPT ![superblock] = Freed] ELSE heap
            /\ Goto(p, "destroy_flag")
            /\ UNCHANGED <<stored, is_init, superblock, disk_status, disk_lock, panicked,
                           call, loc, latest, expect>>

NotInit_Zero == 0
NotInit_Kept == is_init

\* The value of is_init after raid_system_destroy.
NotInit == -1

DestroyFlag(p) ==
    /\ At(p, "destroy_flag")
    /\ is_init' = NotInit
    /\ Goto(p, "destroy_null")
    /\ UNCHANGED <<stored, superblock, disk_status, heap, disk_lock, panicked, call, loc,
                   latest, expect>>

DestroyNull(p) ==
    /\ At(p, "destroy_null")
    /\ superblock' = Null
    /\ Return(p, 0)
    /\ UNCHANGED <<stored, is_init, disk_status, heap, disk_lock, panicked, call,
                   latest, expect>>

raid_system_destroy(p) ==
    DestroyWrite(p) \/ DestroyFree(p) \/ DestroyFlag(p) \/ DestroyNull(p)

-----------------------------------------------------------------------------
(* The machine restarts: main calls init_raid_device again and the memory   *)
(* state is lost; a write that was running may or may not have happened.    *)
Reboot ==
    /\ is_init' = -1
    /\ superblock' = Null
    /\ disk_status' = [d \in 0 .. DISKS |-> "UNITIALIZED"]
    /\ disk_lock' = [d \in Disks |-> NoProc]
    /\ heap' = [g \in 1 .. Pages |-> Unused]
    /\ panicked' = FALSE
    /\ pc' = [p \in Procs |-> "idle"]
    /\ call' = [p \in Procs |-> NoCall]
    /\ loc' = [p \in Procs |-> Locals]
    /\ latest' = [b \in Blocks |-> IF \E p \in Procs : Writing(p, b) THEN Undef ELSE latest[b]]
    /\ expect' = [p \in Procs |-> {}]
    /\ UNCHANGED stored

\* The next step of the system call that process p runs.
Step(p) ==
    \/ load_metadata(p) \/ get_disk_health(p) \/ Transfer(p)
    \/ raid_fail_disk(p) \/ raid_repair_disk(p) \/ raid_system_info(p)
    \/ raid_system_init(p) \/ raid_system_destroy(p)
    \/ UseAfterFree(p) \/ Finish(p)

Next == \E p \in Procs : Invoke(p) \/ Step(p)

\* A machine that has just booted, and one whose array is in service.
ColdSpec  == ColdBoot /\ [][Next]_vars
ReadySpec == ReadyArray /\ [][Next]_vars

\* The array in service on a machine that may restart at any time.
RebootSpec == ReadyArray /\ [][Next \/ Reboot]_vars

\* Every process that is inside a system call keeps running: a process that
\* is RUNNABLE is found by the scheduler's round over the process table.
FairSpec == ReadySpec /\ \A p \in Procs : WF_vars(Step(p))

-----------------------------------------------------------------------------
(* Properties                                                               *)

Labels == {"idle", "done", "wild", "lm_fast", "lm_check", "lm_read", "lm_commit", "lm_final",
           "rw", "data_health", "primary_health", "mirror_health", "read_row",
           "lock1", "lock2", "unlock2", "unlock1", "wprimary_health", "wmirror_health",
           "write_primary", "write_mirror", "read_old", "read_parity", "write_parity",
           "write_row", "fail", "repair", "repair_count", "repair_sb", "repair_mark",
           "partner_health", "copy_read", "copy_write", "xor_read", "xor_write",
           "repair_done", "info_health", "info_copy", "init", "init_write", "init_publish",
           "init_flag", "destroy", "destroy_free", "destroy_flag", "destroy_null"}

LocalTypes ==
    [meta : (1 .. Pages) \union {Null}, sb : Superblocks \union {Zero},
     health : {"none", "zero", "HEALTHY"}, disk : 0 .. DISKS, blk : 0 .. BlocksPerDisk,
     red : 0 .. 2 * DISKS, buf : {0, 1}, par : {0, 1}, i : Nat, j : Nat, count : Nat,
     ret : {0, -1, -2}]

\* Every variable keeps its type; in particular the cache never holds anything
\* but a health status or the 0 of a zeroed superblock.
TypeOK ==
    /\ rows \in [Disks -> [Rows -> {0, 1}]]
    /\ sblock \in [Disks -> Superblocks \union {Zero}]
    /\ is_init \in {-1, 1}
    /\ superblock \in (1 .. Pages) \union {Null}
    /\ disk_status \in [0 .. DISKS -> DISK_HEALTH \union {"zero"}]
    /\ disk_lock \in [Disks -> Procs \union {NoProc}]
    /\ heap \in [1 .. Pages -> Superblocks \union {Unused, Freed}]
    /\ panicked \in BOOLEAN
    /\ pc \in [Procs -> Labels]
    /\ call \in [Procs -> Calls \union {NoCall}]
    /\ loc \in [Procs -> LocalTypes]
    /\ latest \in [Blocks -> {0, 1, Undef}]
    /\ expect \in [Procs -> SUBSET {0, 1, Undef}]

InService == superblock # Null /\ heap[superblock] \in Superblocks
Array     == heap[superblock]

\* What a read_raid that returns 0 delivers is the value of the last write
\* that took effect before it began, or of a write that ran at the same time,
\* whatever disks fail, are repaired or are bypassed meanwhile.
ReadsCurrent ==
    \A p \in Procs :
        (At(p, "done") /\ call[p].op = "read" /\ loc[p].ret = 0) =>
            loc[p].buf \in expect[p] \/ Undef \in expect[p]

\* A disk that the cache calls HEALTHY holds the latest value of each of its
\* blocks, except for a mirrored block between its two writes: reads are
\* served from it, and recovery copies from it.
HealthyDiskCurrent ==
    InService =>
        \A b \in Addresses(Array) :
            LET d == disk_num(Array, b)
            IN  \/ disk_status[d] # "HEALTHY"
                \/ latest[b] = Undef
                \/ \E p \in Procs : pc[p] = "write_mirror" /\ call[p].block = b
                \/ rows[d][blkc_num(Array, b)] = latest[b]

\* RAID1 and RAID0_1: the mirror always holds the latest value.
MirrorCurrent ==
    (InService /\ Array.raid_level \in Mirrored) =>
        \A b \in Addresses(Array) :
            \/ latest[b] = Undef
            \/ rows[RedundantDisk(Array, b)][blkc_num(Array, b)] = latest[b]

\* RAID4 and RAID5: the bits of a row XOR to 0 over all the disks, except
\* while a writer is between its parity write and its data write.
ParityConsistent ==
    (InService /\ Array.raid_level \in Parity) =>
        \A r \in Rows :
            \/ Cardinality({d \in Disks : rows[d][r] = 1}) % 2 = 0
            \/ \E p \in Procs : pc[p] = "write_row" /\ loc[p].blk = r

\* What a failed disk is rebuilt from is never behind the data: the mirrors of
\* RAID1 and RAID0_1 and the parity of RAID4 and RAID5, under concurrent
\* writers of one row, degraded disks and rebuilds.
RedundancyCurrent == MirrorCurrent /\ ParityConsistent

\* The labels between the two acquiresleep and the two releasesleep calls.
Critical == {"wprimary_health", "wmirror_health", "write_primary", "write_mirror",
             "read_old", "read_parity", "write_parity", "unlock2"}

\* Process p is updating its two disks.  A RAID0 write takes no lock.
Updating(p) == pc[p] \in Critical \/ (pc[p] = "write_row" /\ loc[p].sb.raid_level # "RAID0")

\* No two writers work at the same time on a disk, so the read-modify-write
\* of a parity block is never interleaved with another one.
WritersApart ==
    \A p, q \in Procs :
        (p # q /\ Updating(p) /\ Updating(q)) =>
            {loc[p].disk, loc[p].red} \intersect {loc[q].disk, loc[q].red} = {}

\* No return path, not even that of a write refused for want of a healthy disk,
\* leaves a disk lock behind: its holder is still to take its second lock, to
\* update its rows or to release.  The one lock that is lost is that of the disk
\* whose mirror does not exist: the writer of the block one past the end of a
\* RAID1 array keeps it for good.
NoLockLeak ==
    \A d \in Disks : disk_lock[d] # NoProc =>
        LET p == disk_lock[d]
        IN  \/ /\ pc[p] \in Critical \union {"lock2", "write_row", "unlock1"}
               /\ d \in {loc[p].disk, loc[p].red}
            \/ pc[p] = "wild" /\ d = loc[p].disk /\ loc[p].red \notin Disks

\* The kernel neither panics nor touches a superblock page after freeing it.
NoUndefined == ~panicked /\ \A p \in Procs : pc[p] # "wild"

\* Once no new calls are made, every call that is running returns, unless the
\* kernel panics or a process goes astray: writers never wait for each other's
\* disk locks in a circle, and no call that returned has left one behind.
CallsReturn ==
    <>[][\A p \in Procs : ~Invoke(p)]_vars
        => \A p \in Procs : pc[p] # "idle" ~> pc[p] = "idle" \/ ~NoUndefined
=============================================================================
