----------------------------- MODULE RaidProofs -----------------------------
(***************************************************************************)
(* For every number of disks, processes and system calls, and whatever     *)
(* fails, is repaired, torn down or restarted meanwhile: the variables of  *)
(* module Raid keep their types, writers never share a disk, and no disk   *)
(* lock is left behind.                                                    *)
(***************************************************************************)
EXTENDS Raid, RaidLayoutProofs

-----------------------------------------------------------------------------
(* The inductive invariant.  The local state of a process is a label l, a   *)
(* system call c and the handler's local variables r.                       *)

LoadLabels   == {"lm_fast", "lm_check", "lm_read", "lm_commit", "lm_final"}
WriteLabels  == {"lock1", "lock2", "unlock2", "unlock1", "wprimary_health", "wmirror_health",
                 "write_primary", "write_mirror", "read_old", "read_parity", "write_parity",
                 "write_row"}
Addressed    == WriteLabels \union
                {"data_health", "primary_health", "mirror_health", "read_row"}
RepairLabels == {"repair_count", "repair_sb", "repair_mark", "partner_health", "copy_read",
                 "copy_write", "xor_read", "xor_write", "repair_done"}

\* A handler runs for the system call that it belongs to.
JobInv(l, c) ==
    /\ l \in LoadLabels => c.op \in {"read", "write", "info"}
    /\ l \in {"rw", "data_health"} => c.op \in {"read", "write"}
    /\ l \in WriteLabels => c.op = "write"
    /\ l = "info_health" => c.op = "info"
    /\ l \in RepairLabels \union {"repair"} => c.op = "repair"
    /\ l \in RepairLabels => c.disk \in Disks

\* The superblock a handler works with was built by raid_system_init; h is the
\* heap.
SuperblockInv(l, r, h) ==
    /\ l \in {"rw", "info_health", "info_copy"} => r.meta \in 1 .. Pages /\ h[r.meta] # Unused
    /\ l \in Addressed \union {"lm_commit", "init_write", "init_publish"} =>
           r.sb \in Superblocks

\* The disks and the row that rw_block has computed.
AddressInv(l, r) ==
    /\ l \in Addressed => r.disk \in Disks
    /\ l = "data_health" => r.sb.raid_level \notin Mirrored
    /\ l \in {"read_old", "read_parity", "write_parity"} => r.sb.raid_level \in Parity
    /\ l \in WriteLabels \ {"write_row"} => r.sb.raid_level # "RAID0"
    /\ l \in WriteLabels \union {"data_health"} =>
           /\ r.sb.raid_level \in Parity => r.red \in Disks /\ r.blk \in Rows
           /\ r.sb.raid_level # "RAID0" => r.red # r.disk
    /\ l \in WriteLabels \union {"data_health"} /\ r.sb.raid_level # "RAID0" =>
           r.red \in 1 .. (2 * DISKS)
    /\ l \in WriteLabels \ {"lock1", "lock2"} /\ r.sb.raid_level # "RAID0" => r.red \in Disks

\* The rows and the disk that the recovery loops work on.
RecoveryInv(l, r) ==
    /\ l = "partner_health" => r.i = 0
    /\ l \in {"copy_read", "copy_write"} => r.red \in Disks /\ r.i \in 0 .. (BlocksPerDisk - 1)
    /\ l \in {"xor_read", "xor_write"} => r.i \in Rows

\* All of them.
Fit(l, c, r, h) ==
    JobInv(l, c) /\ SuperblockInv(l, r, h) /\ AddressInv(l, r) /\ RecoveryInv(l, r)

\* The published superblock page has been filled in.
PublishedInv == superblock # Null => heap[superblock] # Unused

\* Types, and what the handlers rely on.
DataInv == TypeOK /\ PublishedInv /\ \A p \in Procs : Fit(pc[p], call[p], loc[p], heap)

-----------------------------------------------------------------------------
(* How steps preserve it.                                                   *)

\* Only process p moves.
OnlyMoves(p) == pc' = [pc EXCEPT ![p] = pc'[p]] /\ loc' = [loc EXCEPT ![p] = loc'[p]]

\* Pages that have been filled in stay so.
PagesKept == \A g \in 1 .. Pages : heap[g] # Unused => heap'[g] # Unused

\* Types of the variables that processes share.
SharedTypes ==
    /\ rows \in [Disks -> [Rows -> {0, 1}]]
    /\ sblock \in [Disks -> Superblocks \union {Zero}]
    /\ is_init \in {-1, 1}
    /\ superblock \in (1 .. Pages) \union {Null}
    /\ disk_status \in [0 .. DISKS -> DISK_HEALTH \union {"zero"}]
    /\ disk_lock \in [Disks -> Procs \union {NoProc}]
    /\ heap \in [1 .. Pages -> Superblocks \union {Unused, Freed}]
    /\ panicked \in BOOLEAN
    /\ latest \in [Blocks -> {0, 1, Undef}]
    /\ expect \in [Procs -> SUBSET {0, 1, Undef}]

\* A step of process p preserves the invariant if it leaves p in a fitting
\* local state and the shared variables well typed.
LEMMA ProcessStep ==
    ASSUME DataInv, NEW p \in Procs, OnlyMoves(p),
           call' = [call EXCEPT ![p] = call'[p]], call'[p] \in Calls \union {NoCall},
           pc'[p] \in Labels, loc'[p] \in LocalTypes, Fit(pc'[p], call'[p], loc'[p], heap'),
           SharedTypes', PublishedInv', PagesKept
    PROVE  DataInv'
<1>1. TypeOK'
  BY DEF DataInv, TypeOK, OnlyMoves, SharedTypes
<1>2. ASSUME NEW q \in Procs
      PROVE  Fit(pc'[q], call'[q], loc'[q], heap')
  <2>1. CASE q = p
    BY <2>1
  <2>2. CASE q # p
    <3>1. pc'[q] = pc[q] /\ call'[q] = call[q] /\ loc'[q] = loc[q]
      BY <2>2 DEF DataInv, TypeOK, OnlyMoves
    <3>2. Fit(pc[q], call[q], loc[q], heap)
      BY DEF DataInv
    <3> QED
      BY <3>1, <3>2 DEF Fit, SuperblockInv, PagesKept
  <2> QED
    BY <2>1, <2>2
<1> QED
  BY <1>1, <1>2 DEF DataInv

\* A step of p that changes no variable but the control state.
LEMMA ControlStep ==
    ASSUME DataInv, NEW p \in Procs, OnlyMoves(p),
           UNCHANGED <<stored, device, disk_lock, panicked, call, latest, expect>>,
           pc'[p] \in Labels, loc'[p] \in LocalTypes, Fit(pc'[p], call[p], loc'[p], heap)
    PROVE  DataInv'
<1>1. SharedTypes' /\ PublishedInv' /\ PagesKept
  BY DEF DataInv, TypeOK, SharedTypes, PublishedInv, PagesKept, stored, device
<1>2. /\ call' = [call EXCEPT ![p] = call'[p]] /\ call'[p] \in Calls \union {NoCall}
      /\ Fit(pc'[p], call'[p], loc'[p], heap')
  BY DEF DataInv, TypeOK, device
<1> QED
  BY <1>1, <1>2, ProcessStep

\* An update of the loop counters keeps the types of the locals.
LEMMA TypedIJ ==
    ASSUME NEW r \in LocalTypes, NEW x \in Nat, NEW y \in Nat,
           NEW s, s = [r EXCEPT !.i = x, !.j = y]
    PROVE  s \in LocalTypes
BY DEF LocalTypes

-----------------------------------------------------------------------------
(* One lemma per action: the step keeps the types of p's state and leads it *)
(* to a fitting state.  The parts of Fit, and how a label is tested and     *)
(* set, are expanded throughout this section.                               *)

USE DEF At, Goto, JobInv, SuperblockInv, AddressInv, RecoveryInv,
        LoadLabels, WriteLabels, Addressed, RepairLabels

\* LoadFast preserves the invariant; so do the other actions, below.
LEMMA LoadFastStep ==
    ASSUME DataInv, NEW p \in Procs, LoadFast(p)
    PROVE  DataInv'
<1>1. /\ pc[p] \in Labels /\ loc[p] \in LocalTypes /\ call[p] \in Calls \union {NoCall}
      /\ Fit(pc[p], call[p], loc[p], heap)
  BY DEF DataInv, TypeOK
<1>2. /\ OnlyMoves(p)
      /\ \/ /\ is_init = 1 /\ superblock # Null /\ call[p].op = "info"
            /\ pc'[p] = "info_health" /\ loc'[p] = [loc[p] EXCEPT !.meta = superblock]
         \/ /\ is_init = 1 /\ superblock # Null /\ call[p].op # "info"
            /\ pc'[p] = "rw" /\ loc'[p] = [loc[p] EXCEPT !.meta = superblock]
         \/ /\ ~(is_init = 1 /\ superblock # Null)
            /\ pc'[p] = "lm_check" /\ loc'[p] = loc[p]
  BY <1>1 DEF LoadFast, Loaded, AfterLoad, DataInv, TypeOK, OnlyMoves
<1>3. superblock # Null =>
          superblock \in 1 .. Pages /\ heap[superblock] # Unused
  BY DataInv DEF DataInv, TypeOK, PublishedInv
<1>4. pc'[p] \in Labels /\ loc'[p] \in LocalTypes
  BY <1>1, <1>2, <1>3 DEF Labels, LocalTypes
<1>5. Fit(pc'[p], call[p], loc'[p], heap)
  BY <1>1, <1>2, <1>3, <1>4 DEF LoadFast, LocalTypes, Fit
<1> QED
  BY <1>1, <1>2, <1>4, <1>5, ControlStep
     DEF LoadFast, Loaded, AfterLoad, DataInv, TypeOK, device

\* LoadCheck preserves the invariant.
LEMMA LoadCheckStep ==
    ASSUME DataInv, NEW p \in Procs, LoadCheck(p)
    PROVE  DataInv'
<1>1. /\ pc[p] \in Labels /\ loc[p] \in LocalTypes /\ call[p] \in Calls \union {NoCall}
      /\ Fit(pc[p], call[p], loc[p], heap)
  BY DEF DataInv, TypeOK
<1>2. OnlyMoves(p) /\ pc'[p] \in Labels /\ loc'[p] \in LocalTypes
  BY <1>1 DEF LoadCheck, DataInv, TypeOK, OnlyMoves, Labels, LocalTypes
<1>3. Fit(pc'[p], call[p], loc'[p], heap)
  BY <1>1 DEF LoadCheck, DataInv, TypeOK, LocalTypes, Fit
<1> QED
  BY <1>1, <1>2, <1>3, ControlStep DEF LoadCheck, DataInv, TypeOK, device

\* LoadRead preserves the invariant.
LEMMA LoadReadStep ==
    ASSUME DataInv, NEW p \in Procs, LoadRead(p)
    PROVE  DataInv'
<1>1. /\ pc[p] \in Labels /\ loc[p] \in LocalTypes /\ call[p] \in Calls \union {NoCall}
      /\ Fit(pc[p], call[p], loc[p], heap)
  BY DEF DataInv, TypeOK
<1>2. /\ OnlyMoves(p)
      /\ \/ pc'[p] = "done" /\ loc'[p] = [loc[p] EXCEPT !.ret = -1]
         \/ pc'[p] = "done" /\ loc'[p] = [loc[p] EXCEPT !.ret = -2]
         \/ /\ sblock[1] # Zero
            /\ pc'[p] = "lm_commit" /\ loc'[p] = [loc[p] EXCEPT !.sb = sblock[1]]
  BY <1>1 DEF LoadRead, LoadFailed, Return, DataInv, TypeOK, OnlyMoves
<1>3. sblock[1] # Zero =>
          sblock[1] \in Superblocks
  BY DisksAssumption DEF DataInv, TypeOK, Disks
<1>4. pc'[p] \in Labels /\ loc'[p] \in LocalTypes
  BY <1>1, <1>2, <1>3 DEF Labels, LocalTypes
<1>5. Fit(pc'[p], call[p], loc'[p], heap)
  BY <1>1, <1>2, <1>3, <1>4 DEF LoadRead, LocalTypes, Fit
<1> QED
  BY <1>1, <1>2, <1>4, <1>5, ControlStep
     DEF LoadRead, LoadFailed, Return, DataInv, TypeOK, device

\* LoadFinal preserves the invariant.
LEMMA LoadFinalStep ==
    ASSUME DataInv, NEW p \in Procs, LoadFinal(p)
    PROVE  DataInv'
<1>1. /\ pc[p] \in Labels /\ loc[p] \in LocalTypes /\ call[p] \in Calls \union {NoCall}
      /\ Fit(pc[p], call[p], loc[p], heap)
  BY DEF DataInv, TypeOK
<1>2. /\ OnlyMoves(p)
      /\ \/ pc'[p] = "done" /\ loc'[p] = [loc[p] EXCEPT !.ret = -1]
         \/ pc'[p] = "done" /\ loc'[p] = [loc[p] EXCEPT !.ret = -2]
         \/ /\ superblock # Null /\ call[p].op = "info"
            /\ pc'[p] = "info_health" /\ loc'[p] = [loc[p] EXCEPT !.meta = superblock]
         \/ /\ superblock # Null /\ call[p].op # "info"
            /\ pc'[p] = "rw" /\ loc'[p] = [loc[p] EXCEPT !.meta = superblock]
  BY <1>1 DEF LoadFinal, Loaded, AfterLoad, LoadFailed, Return, DataInv, TypeOK, OnlyMoves
<1>3. superblock # Null =>
          superblock \in 1 .. Pages /\ heap[superblock] # Unused
  BY DataInv DEF DataInv, TypeOK, PublishedInv
<1>4. pc'[p] \in Labels /\ loc'[p] \in LocalTypes
  BY <1>1, <1>2, <1>3 DEF Labels, LocalTypes
<1>5. Fit(pc'[p], call[p], loc'[p], heap)
  BY <1>1, <1>2, <1>3, <1>4 DEF LoadFinal, LocalTypes, Fit
<1> QED
  BY <1>1, <1>2, <1>4, <1>5, ControlStep
     DEF LoadFinal, Loaded, AfterLoad, LoadFailed, Return, DataInv, TypeOK, device

\* HealthRead preserves the invariant.
LEMMA HealthReadStep ==
    ASSUME DataInv, NEW p \in Procs, HealthRead(p)
    PROVE  DataInv'
<1>1. /\ pc[p] \in Labels /\ loc[p] \in LocalTypes /\ call[p] \in Calls \union {NoCall}
      /\ Fit(pc[p], call[p], loc[p], heap)
  BY DEF DataInv, TypeOK
<1>2. /\ OnlyMoves(p)
      /\ \/ /\ sblock[HealthDisk(p)] = Zero
            /\ pc'[p] = pc[p] /\ loc'[p] = [loc[p] EXCEPT !.health = "zero"]
         \/ /\ sblock[HealthDisk(p)] # Zero
            /\ pc'[p] = pc[p]
            /\ loc'[p] = [loc[p] EXCEPT !.health = sblock[HealthDisk(p)].disk_status]
  BY <1>1 DEF HealthRead, DataInv, TypeOK, OnlyMoves
<1>3. sblock[HealthDisk(p)] # Zero =>
          sblock[HealthDisk(p)].disk_status = "HEALTHY"
  BY HealthRead(p) DEF HealthRead, DataInv, TypeOK, Superblocks, Superblock
<1>4. pc'[p] \in Labels /\ loc'[p] \in LocalTypes
  BY <1>1, <1>2, <1>3 DEF Labels, LocalTypes
<1>5. Fit(pc'[p], call[p], loc'[p], heap)
  BY <1>1, <1>2, <1>3, <1>4 DEF HealthRead, LocalTypes, Fit
<1> QED
  BY <1>1, <1>2, <1>4, <1>5, ControlStep DEF HealthRead, DataInv, TypeOK, device

\* rw_block preserves the invariant.
LEMMA rw_blockStep ==
    ASSUME DataInv, NEW p \in Procs, rw_block(p)
    PROVE  DataInv'
<1> DEFINE m == heap[loc[p].meta]
           b == call[p].block
           red == IF m.raid_level = "RAID0" THEN 0 ELSE RedundantDisk(m, b)
<1>1. /\ loc[p] \in LocalTypes /\ call[p] \in Calls \union {NoCall}
      /\ Fit(pc[p], call[p], loc[p], heap)
  BY DEF DataInv, TypeOK
<1>2. m \in Superblocks /\ b \in Nat
  BY <1>1, CallsAssumption, NullAssumption
     DEF rw_block, Valid, Dereferenced, DataInv, TypeOK, NoCall, Fit
<1>3. OnlyMoves(p)
  BY DEF rw_block, Return, DataInv, TypeOK, OnlyMoves
<1>4. CASE ~Accepts(m, b)
  <2>1. pc'[p] = "done" /\ loc'[p] = [loc[p] EXCEPT !.ret = -1]
    BY <1>4 DEF rw_block, Return, DataInv, TypeOK
  <2>2. loc'[p] \in LocalTypes /\ Fit(pc'[p], call[p], loc'[p], heap)
    BY <1>1, <2>1 DEF LocalTypes, Fit
  <2> QED
    BY <1>3, <2>1, <2>2, ControlStep DEF rw_block, Labels, DataInv, TypeOK
<1>5. CASE Accepts(m, b)
  <2>1. loc'[p] = [loc[p] EXCEPT !.disk = disk_num(m, b), !.blk = blkc_num(m, b),
                                 !.red = red, !.sb = m]
    BY <1>5 DEF rw_block, DataInv, TypeOK
  <2>2. disk_num(m, b) \in Disks /\ blkc_num(m, b) \in 1 .. BlocksPerDisk
    BY <1>2, <1>5, AcceptedLocation
  <2>3. m.raid_level # "RAID0" => /\ red \in 1 .. (2 * DISKS) /\ red # disk_num(m, b)
                                  /\ m.raid_level \in Parity =>
                                         red \in Disks /\ blkc_num(m, b) \in Rows
    BY <1>2, <1>5, <2>1, AcceptedLocation DEF Mirrored
  <2>4. /\ disk_num(m, b) \in 0 .. DISKS /\ blkc_num(m, b) \in 0 .. BlocksPerDisk
        /\ red \in 0 .. (2 * DISKS)
    BY <2>1, <2>2, <2>3, DisksAssumption, BlocksAssumption DEF Disks
  <2>5. loc'[p] \in LocalTypes
    <3> HIDE DEF m, b, red
    <3> QED
      BY <1>1, <1>2, <2>1, <2>4 DEF LocalTypes
  <2>6. /\ pc'[p] \in Labels
        /\ \/ pc'[p] = "data_health" /\ m.raid_level \notin Mirrored
           \/ pc'[p] = "primary_health"
           \/ pc'[p] = "lock1" /\ m.raid_level \in Mirrored /\ call[p].op = "write"
    BY <1>1, <1>5 DEF rw_block, IsRead, DataInv, TypeOK, Fit, Labels
  <2>7. Fit(pc'[p], call[p], loc'[p], heap)
    <3>1. /\ loc'[p].disk = disk_num(m, b) /\ loc'[p].blk = blkc_num(m, b)
          /\ loc'[p].red = red /\ loc'[p].sb = m
      BY <1>1, <2>1 DEF LocalTypes
    <3>2. call[p].op \in {"read", "write"}
      BY <1>1 DEF rw_block, Fit
    <3> HIDE DEF m, b, red
    <3> QED
      BY <1>2, <2>2, <2>3, <2>6, <3>1, <3>2 DEF Fit, Mirrored, Parity
  <2> QED
    BY <1>3, <2>5, <2>6, <2>7, ControlStep DEF rw_block, DataInv, TypeOK
<1> QED
  BY <1>4, <1>5

\* DataHealth preserves the invariant.
LEMMA DataHealthStep ==
    ASSUME DataInv, NEW p \in Procs, DataHealth(p)
    PROVE  DataInv'
<1>1. /\ pc[p] \in Labels /\ loc[p] \in LocalTypes /\ call[p] \in Calls \union {NoCall}
      /\ Fit(pc[p], call[p], loc[p], heap)
  BY DEF DataInv, TypeOK
<1>2. /\ OnlyMoves(p)
      /\ \/ pc'[p] = "done" /\ loc'[p] = [loc[p] EXCEPT !.ret = -1]
         \/ /\ Health(p) = "HEALTHY" /\ call[p].op = "read"
            /\ pc'[p] = "read_row" /\ loc'[p] = loc[p]
         \/ /\ Health(p) = "HEALTHY" /\ call[p].op # "read" /\ loc[p].sb.raid_level = "RAID0"
            /\ pc'[p] = "write_row" /\ loc'[p] = loc[p]
         \/ /\ Health(p) = "HEALTHY" /\ call[p].op # "read" /\ loc[p].sb.raid_level # "RAID0"
            /\ pc'[p] = "lock1" /\ loc'[p] = loc[p]
  BY <1>1 DEF DataHealth, Return, IsRead, DataInv, TypeOK, OnlyMoves
<1>3. pc'[p] \in Labels /\ loc'[p] \in LocalTypes
  BY <1>1, <1>2 DEF Labels, LocalTypes
<1>4. Fit(pc'[p], call[p], loc'[p], heap)
  BY <1>1, <1>2, <1>3 DEF DataHealth, LocalTypes, Fit
<1> QED
  BY <1>1, <1>2, <1>3, <1>4, ControlStep
     DEF DataHealth, Return, IsRead, DataInv, TypeOK, device

\* PrimaryHealth preserves the invariant.
LEMMA PrimaryHealthStep ==
    ASSUME DataInv, NEW p \in Procs, PrimaryHealth(p)
    PROVE  DataInv'
<1>1. /\ pc[p] \in Labels /\ loc[p] \in LocalTypes /\ call[p] \in Calls \union {NoCall}
      /\ Fit(pc[p], call[p], loc[p], heap)
  BY DEF DataInv, TypeOK
<1>2. OnlyMoves(p) /\ pc'[p] \in Labels /\ loc'[p] \in LocalTypes
  BY <1>1 DEF PrimaryHealth, DataInv, TypeOK, OnlyMoves, Labels, LocalTypes
<1>3. Fit(pc'[p], call[p], loc'[p], heap)
  BY <1>1 DEF PrimaryHealth, DataInv, TypeOK, LocalTypes, Fit
<1> QED
  BY <1>1, <1>2, <1>3, ControlStep DEF PrimaryHealth, DataInv, TypeOK, device

\* MirrorHealth preserves the invariant.
LEMMA MirrorHealthStep ==
    ASSUME DataInv, NEW p \in Procs, MirrorHealth(p)
    PROVE  DataInv'
<1>1. /\ pc[p] \in Labels /\ loc[p] \in LocalTypes /\ call[p] \in Calls \union {NoCall}
      /\ Fit(pc[p], call[p], loc[p], heap)
  BY DEF DataInv, TypeOK
<1>2. /\ OnlyMoves(p)
      /\ \/ pc'[p] = "done" /\ loc'[p] = [loc[p] EXCEPT !.ret = -1]
         \/ /\ Health(p) = "HEALTHY"
            /\ pc'[p] = "read_row" /\ loc'[p] = [loc[p] EXCEPT !.disk = loc[p].red]
  BY <1>1 DEF MirrorHealth, Return, DataInv, TypeOK, OnlyMoves
<1>3. Health(p) = "HEALTHY" =>
          loc[p].red \in Disks /\ loc[p].red \in 0 .. DISKS
  BY <1>1, DisksAssumption DEF MirrorHealth, Health, HealthDisk, Disks
<1>4. pc'[p] \in Labels /\ loc'[p] \in LocalTypes
  BY <1>1, <1>2, <1>3 DEF Labels, LocalTypes
<1>5. Fit(pc'[p], call[p], loc'[p], heap)
  BY <1>1, <1>2, <1>3, <1>4 DEF MirrorHealth, LocalTypes, Fit
<1> QED
  BY <1>1, <1>2, <1>4, <1>5, ControlStep DEF MirrorHealth, Return, DataInv, TypeOK, device

\* ReadRow preserves the invariant.
LEMMA ReadRowStep ==
    ASSUME DataInv, NEW p \in Procs, ReadRow(p)
    PROVE  DataInv'
<1>1. /\ pc[p] \in Labels /\ loc[p] \in LocalTypes /\ call[p] \in Calls \union {NoCall}
      /\ Fit(pc[p], call[p], loc[p], heap)
  BY DEF DataInv, TypeOK
<1>2. rows[loc[p].disk][loc[p].blk] \in {0, 1}
  BY <1>1 DEF ReadRow, OnDisk, DataInv, TypeOK, Fit
<1>3. OnlyMoves(p) /\ pc'[p] \in Labels /\ loc'[p] \in LocalTypes
  BY <1>1, <1>2 DEF ReadRow, DataInv, TypeOK, OnlyMoves, Labels, LocalTypes
<1>4. Fit(pc'[p], call[p], loc'[p], heap)
  BY <1>1, <1>2 DEF ReadRow, DataInv, TypeOK, LocalTypes, Fit
<1> QED
  BY <1>1, <1>3, <1>4, ControlStep DEF ReadRow, DataInv, TypeOK, device

\* LockOutside preserves the invariant.
LEMMA LockOutsideStep ==
    ASSUME DataInv, NEW p \in Procs, LockOutside(p)
    PROVE  DataInv'
<1>1. /\ pc[p] \in Labels /\ loc[p] \in LocalTypes /\ call[p] \in Calls \union {NoCall}
      /\ Fit(pc[p], call[p], loc[p], heap)
  BY DEF DataInv, TypeOK
<1>2. OnlyMoves(p) /\ pc'[p] \in Labels /\ loc'[p] \in LocalTypes
  BY <1>1 DEF LockOutside, DataInv, TypeOK, OnlyMoves, Labels, LocalTypes
<1>3. Fit(pc'[p], call[p], loc'[p], heap)
  BY <1>1 DEF LockOutside, DataInv, TypeOK, LocalTypes, Fit
<1> QED
  BY <1>1, <1>2, <1>3, ControlStep DEF LockOutside, DataInv, TypeOK, device

\* UseAfterFree preserves the invariant.
LEMMA UseAfterFreeStep ==
    ASSUME DataInv, NEW p \in Procs, UseAfterFree(p)
    PROVE  DataInv'
<1>1. /\ pc[p] \in Labels /\ loc[p] \in LocalTypes /\ call[p] \in Calls \union {NoCall}
      /\ Fit(pc[p], call[p], loc[p], heap)
  BY DEF DataInv, TypeOK
<1>2. OnlyMoves(p) /\ pc'[p] \in Labels /\ loc'[p] \in LocalTypes
  BY <1>1 DEF UseAfterFree, DataInv, TypeOK, OnlyMoves, Labels, LocalTypes
<1>3. Fit(pc'[p], call[p], loc'[p], heap)
  BY <1>1 DEF UseAfterFree, DataInv, TypeOK, LocalTypes, Fit
<1> QED
  BY <1>1, <1>2, <1>3, ControlStep DEF UseAfterFree, DataInv, TypeOK, device

\* WritePrimaryHealth preserves the invariant.
LEMMA WritePrimaryHealthStep ==
    ASSUME DataInv, NEW p \in Procs, WritePrimaryHealth(p)
    PROVE  DataInv'
<1>1. /\ pc[p] \in Labels /\ loc[p] \in LocalTypes /\ call[p] \in Calls \union {NoCall}
      /\ Fit(pc[p], call[p], loc[p], heap)
  BY DEF DataInv, TypeOK
<1>2. OnlyMoves(p) /\ pc'[p] \in Labels /\ loc'[p] \in LocalTypes
  BY <1>1 DEF WritePrimaryHealth, DataInv, TypeOK, OnlyMoves, Labels, LocalTypes
<1>3. Fit(pc'[p], call[p], loc'[p], heap)
  BY <1>1 DEF WritePrimaryHealth, DataInv, TypeOK, LocalTypes, Fit
<1> QED
  BY <1>1, <1>2, <1>3, ControlStep DEF WritePrimaryHealth, DataInv, TypeOK, device

\* WriteMirrorHealth preserves the invariant.
LEMMA WriteMirrorHealthStep ==
    ASSUME DataInv, NEW p \in Procs, WriteMirrorHealth(p)
    PROVE  DataInv'
<1>1. /\ pc[p] \in Labels /\ loc[p] \in LocalTypes /\ call[p] \in Calls \union {NoCall}
      /\ Fit(pc[p], call[p], loc[p], heap)
  BY DEF DataInv, TypeOK
<1>2. /\ OnlyMoves(p)
      /\ \/ /\ Health(p) = "HEALTHY"
            /\ pc'[p] = "write_mirror" /\ loc'[p] = loc[p]
         \/ /\ Health(p) # "HEALTHY"
            /\ pc'[p] = "unlock2" /\ loc'[p] = [loc[p] EXCEPT !.ret = -1]
  BY <1>1 DEF WriteMirrorHealth, DataInv, TypeOK, OnlyMoves
<1>3. pc'[p] \in Labels /\ loc'[p] \in LocalTypes
  BY <1>1, <1>2 DEF Labels, LocalTypes
<1>4. Fit(pc'[p], call[p], loc'[p], heap)
  BY <1>1, <1>2, <1>3 DEF WriteMirrorHealth, LocalTypes, Fit
<1> QED
  BY <1>1, <1>2, <1>3, <1>4, ControlStep DEF WriteMirrorHealth, DataInv, TypeOK, device

\* ReadOld preserves the invariant.
LEMMA ReadOldStep ==
    ASSUME DataInv, NEW p \in Procs, ReadOld(p)
    PROVE  DataInv'
<1>1. /\ pc[p] \in Labels /\ loc[p] \in LocalTypes /\ call[p] \in Calls \union {NoCall}
      /\ Fit(pc[p], call[p], loc[p], heap)
  BY DEF DataInv, TypeOK
<1>2. /\ OnlyMoves(p)
      /\ \/ /\ rows[loc[p].disk][loc[p].blk] = call[p].value
            /\ pc'[p] = "unlock2"
            /\ loc'[p] = [loc[p] EXCEPT !.buf = rows[loc[p].disk][loc[p].blk]]
         \/ /\ rows[loc[p].disk][loc[p].blk] # call[p].value
            /\ pc'[p] = "read_parity"
            /\ loc'[p] = [loc[p] EXCEPT !.buf = rows[loc[p].disk][loc[p].blk]]
  BY <1>1 DEF ReadOld, DataInv, TypeOK, OnlyMoves
<1>3. rows[loc[p].disk][loc[p].blk] \in {0, 1}
  BY <1>1 DEF ReadOld, DataInv, TypeOK, Fit
<1>4. pc'[p] \in Labels /\ loc'[p] \in LocalTypes
  BY <1>1, <1>2, <1>3 DEF Labels, LocalTypes
<1>5. Fit(pc'[p], call[p], loc'[p], heap)
  BY <1>1, <1>2, <1>3, <1>4 DEF ReadOld, LocalTypes, Fit
<1> QED
  BY <1>1, <1>2, <1>4, <1>5, ControlStep DEF ReadOld, DataInv, TypeOK, device

\* ReadParity preserves the invariant.
LEMMA ReadParityStep ==
    ASSUME DataInv, NEW p \in Procs, ReadParity(p)
    PROVE  DataInv'
<1>1. /\ pc[p] \in Labels /\ loc[p] \in LocalTypes /\ call[p] \in Calls \union {NoCall}
      /\ Fit(pc[p], call[p], loc[p], heap)
  BY DEF DataInv, TypeOK
<1>2. rows[loc[p].red][loc[p].blk] \in {0, 1}
  BY <1>1 DEF ReadParity, DataInv, TypeOK, Fit
<1>3. OnlyMoves(p) /\ pc'[p] \in Labels /\ loc'[p] \in LocalTypes
  BY <1>1, <1>2 DEF ReadParity, DataInv, TypeOK, OnlyMoves, Labels, LocalTypes
<1>4. Fit(pc'[p], call[p], loc'[p], heap)
  BY <1>1, <1>2 DEF ReadParity, DataInv, TypeOK, LocalTypes, Fit
<1> QED
  BY <1>1, <1>3, <1>4, ControlStep DEF ReadParity, DataInv, TypeOK, device

\* RepairHealth preserves the invariant.
LEMMA RepairHealthStep ==
    ASSUME DataInv, NEW p \in Procs, RepairHealth(p)
    PROVE  DataInv'
<1>1. /\ pc[p] \in Labels /\ loc[p] \in LocalTypes /\ call[p] \in Calls \union {NoCall}
      /\ Fit(pc[p], call[p], loc[p], heap)
  BY DEF DataInv, TypeOK
<1>2. /\ OnlyMoves(p)
      /\ \/ pc'[p] = "done" /\ loc'[p] = [loc[p] EXCEPT !.ret = -2]
         \/ pc'[p] = "done" /\ loc'[p] = [loc[p] EXCEPT !.ret = 0]
         \/ /\ call[p].disk \in Disks /\ Health(p) # "HEALTHY"
            /\ pc'[p] = "repair_count" /\ loc'[p] = loc[p]
  BY <1>1 DEF RepairHealth, Return, DataInv, TypeOK, OnlyMoves
<1>3. pc'[p] \in Labels /\ loc'[p] \in LocalTypes
  BY <1>1, <1>2 DEF Labels, LocalTypes
<1>4. Fit(pc'[p], call[p], loc'[p], heap)
  BY <1>1, <1>2, <1>3 DEF RepairHealth, LocalTypes, Fit
<1> QED
  BY <1>1, <1>2, <1>3, <1>4, ControlStep DEF RepairHealth, Return, DataInv, TypeOK, device

\* RepairCount preserves the invariant.
LEMMA RepairCountStep ==
    ASSUME DataInv, NEW p \in Procs, RepairCount(p)
    PROVE  DataInv'
<1>1. /\ pc[p] \in Labels /\ loc[p] \in LocalTypes /\ call[p] \in Calls \union {NoCall}
      /\ Fit(pc[p], call[p], loc[p], heap)
  BY DEF DataInv, TypeOK
<1>2. loc[p].i + 1 \in Nat /\ loc[p].count + 1 \in Nat /\ loc[p].count + 0 \in Nat
  BY <1>1 DEF LocalTypes
<1>3. OnlyMoves(p) /\ pc'[p] \in Labels /\ loc'[p] \in LocalTypes
  BY <1>1, <1>2 DEF RepairCount, DataInv, TypeOK, OnlyMoves, Labels, LocalTypes
<1>4. Fit(pc'[p], call[p], loc'[p], heap)
  BY <1>1, <1>2 DEF RepairCount, DataInv, TypeOK, LocalTypes, Fit
<1> QED
  BY <1>1, <1>3, <1>4, ControlStep DEF RepairCount, DataInv, TypeOK, device

\* RepairSuperblock preserves the invariant.
LEMMA RepairSuperblockStep ==
    ASSUME DataInv, NEW p \in Procs, RepairSuperblock(p)
    PROVE  DataInv'
<1>1. /\ pc[p] \in Labels /\ loc[p] \in LocalTypes /\ call[p] \in Calls \union {NoCall}
      /\ Fit(pc[p], call[p], loc[p], heap)
  BY DEF DataInv, TypeOK
<1>2. sblock[call[p].disk] \in Superblocks \union {Zero}
  BY <1>1 DEF RepairSuperblock, DataInv, TypeOK, Fit
<1>3. OnlyMoves(p) /\ pc'[p] \in Labels /\ loc'[p] \in LocalTypes
  BY <1>1, <1>2 DEF RepairSuperblock, DataInv, TypeOK, OnlyMoves, Labels, LocalTypes
<1>4. Fit(pc'[p], call[p], loc'[p], heap)
  BY <1>1, <1>2 DEF RepairSuperblock, DataInv, TypeOK, LocalTypes, Fit
<1> QED
  BY <1>1, <1>3, <1>4, ControlStep DEF RepairSuperblock, DataInv, TypeOK, device

\* PartnerHealth preserves the invariant.
LEMMA PartnerHealthStep ==
    ASSUME DataInv, NEW p \in Procs, PartnerHealth(p)
    PROVE  DataInv'
<1>1. /\ pc[p] \in Labels /\ loc[p] \in LocalTypes /\ call[p] \in Calls \union {NoCall}
      /\ Fit(pc[p], call[p], loc[p], heap)
  BY DEF DataInv, TypeOK
<1>2. /\ OnlyMoves(p)
      /\ \/ pc'[p] = "done" /\ loc'[p] = [loc[p] EXCEPT !.ret = -1]
         \/ /\ Health(p) = "HEALTHY"
            /\ pc'[p] = "copy_read" /\ loc'[p] = loc[p]
  BY <1>1 DEF PartnerHealth, Return, DataInv, TypeOK, OnlyMoves
<1>3. Health(p) = "HEALTHY" =>
          loc[p].red \in Disks /\ loc[p].i = 0 /\ 0 \in 0 .. (BlocksPerDisk - 1)
  BY <1>1, BlocksAssumption DEF PartnerHealth, Health, HealthDisk, Fit
<1>4. pc'[p] \in Labels /\ loc'[p] \in LocalTypes
  BY <1>1, <1>2, <1>3 DEF Labels, LocalTypes
<1>5. Fit(pc'[p], call[p], loc'[p], heap)
  BY <1>1, <1>2, <1>3, <1>4 DEF PartnerHealth, LocalTypes, Fit
<1> QED
  BY <1>1, <1>2, <1>4, <1>5, ControlStep DEF PartnerHealth, Return, DataInv, TypeOK, device

\* CopyRead preserves the invariant.
LEMMA CopyReadStep ==
    ASSUME DataInv, NEW p \in Procs, CopyRead(p)
    PROVE  DataInv'
<1>1. /\ pc[p] \in Labels /\ loc[p] \in LocalTypes /\ call[p] \in Calls \union {NoCall}
      /\ Fit(pc[p], call[p], loc[p], heap)
  BY DEF DataInv, TypeOK
<1>2. (loc[p].i = 0) => (sblock[loc[p].red] \in Superblocks \union {Zero})
  BY <1>1 DEF CopyRead, DataInv, TypeOK, Fit
<1>3. (loc[p].i # 0) => (rows[loc[p].red][loc[p].i] \in {0, 1})
  BY <1>1, BlocksAssumption DEF CopyRead, DataInv, TypeOK, Fit, Rows
<1>4. OnlyMoves(p) /\ pc'[p] \in Labels /\ loc'[p] \in LocalTypes
  BY <1>1, <1>2, <1>3 DEF CopyRead, DataInv, TypeOK, OnlyMoves, Labels, LocalTypes
<1>5. Fit(pc'[p], call[p], loc'[p], heap)
  BY <1>1, <1>2, <1>3 DEF CopyRead, DataInv, TypeOK, LocalTypes, Fit
<1> QED
  BY <1>1, <1>4, <1>5, ControlStep DEF CopyRead, DataInv, TypeOK, device

\* InfoHealth preserves the invariant.
LEMMA InfoHealthStep ==
    ASSUME DataInv, NEW p \in Procs, InfoHealth(p)
    PROVE  DataInv'
<1>1. /\ pc[p] \in Labels /\ loc[p] \in LocalTypes /\ call[p] \in Calls \union {NoCall}
      /\ Fit(pc[p], call[p], loc[p], heap)
  BY DEF DataInv, TypeOK
<1>2. loc[p].i \in Nat /\ DISKS \in Nat
  BY <1>1, DisksAssumption DEF LocalTypes
<1>3. /\ OnlyMoves(p)
      /\ \/ /\ Health(p) = "HEALTHY"
            /\ pc'[p] = "info_copy" /\ loc'[p] = loc[p]
         \/ /\ Health(p) # "HEALTHY" /\ loc[p].i < DISKS
            /\ pc'[p] = "lm_fast" /\ loc'[p] = [loc[p] EXCEPT !.i = loc[p].i + 1]
         \/ pc'[p] = "done" /\ loc'[p] = [loc[p] EXCEPT !.ret = -1]
  BY <1>1, <1>2 DEF InfoHealth, Return, DataInv, TypeOK, OnlyMoves
<1>4. pc'[p] \in Labels /\ loc'[p] \in LocalTypes
  BY <1>1, <1>2, <1>3 DEF Labels, LocalTypes
<1>5. Fit(pc'[p], call[p], loc'[p], heap)
  BY <1>1, <1>2, <1>3, <1>4 DEF InfoHealth, LocalTypes, Fit
<1> QED
  BY <1>1, <1>3, <1>4, <1>5, ControlStep DEF InfoHealth, Return, DataInv, TypeOK, device

\* InfoCopy preserves the invariant.
LEMMA InfoCopyStep ==
    ASSUME DataInv, NEW p \in Procs, InfoCopy(p)
    PROVE  DataInv'
<1>1. /\ pc[p] \in Labels /\ loc[p] \in LocalTypes /\ call[p] \in Calls \union {NoCall}
      /\ Fit(pc[p], call[p], loc[p], heap)
  BY DEF DataInv, TypeOK
<1>2. heap[loc[p].meta] \in Superblocks
  BY <1>1, NullAssumption DEF InfoCopy, Valid, Dereferenced, DataInv, TypeOK, Fit
<1>3. OnlyMoves(p) /\ pc'[p] \in Labels /\ loc'[p] \in LocalTypes
  BY <1>1, <1>2 DEF InfoCopy, DataInv, TypeOK, OnlyMoves, Labels, LocalTypes
<1>4. Fit(pc'[p], call[p], loc'[p], heap)
  BY <1>1, <1>2 DEF InfoCopy, DataInv, TypeOK, LocalTypes, Fit
<1> QED
  BY <1>1, <1>3, <1>4, ControlStep DEF InfoCopy, DataInv, TypeOK, device

\* InitCheck preserves the invariant.
LEMMA InitCheckStep ==
    ASSUME DataInv, NEW p \in Procs, InitCheck(p)
    PROVE  DataInv'
<1>1. /\ pc[p] \in Labels /\ loc[p] \in LocalTypes /\ call[p] \in Calls \union {NoCall}
      /\ Fit(pc[p], call[p], loc[p], heap)
  BY DEF DataInv, TypeOK
<1>2. /\ OnlyMoves(p)
      /\ \/ pc'[p] = "done" /\ loc'[p] = [loc[p] EXCEPT !.ret = -1]
         \/ pc'[p] = "done" /\ loc'[p] = [loc[p] EXCEPT !.ret = -2]
         \/ /\ call[p].level \in RAID_TYPE /\ Supported(call[p].level)
            /\ pc'[p] = "init_write"
            /\ loc'[p] = [loc[p] EXCEPT !.sb = Superblock(call[p].level)]
  BY <1>1 DEF InitCheck, Return, DataInv, TypeOK, OnlyMoves
<1>3. call[p].level \in RAID_TYPE /\ Supported(call[p].level) =>
          Superblock(call[p].level) \in Superblocks
  BY DataInv DEF Superblocks
<1>4. pc'[p] \in Labels /\ loc'[p] \in LocalTypes
  BY <1>1, <1>2, <1>3 DEF Labels, LocalTypes
<1>5. Fit(pc'[p], call[p], loc'[p], heap)
  BY <1>1, <1>2, <1>3, <1>4 DEF InitCheck, LocalTypes, Fit
<1> QED
  BY <1>1, <1>2, <1>4, <1>5, ControlStep DEF InitCheck, Return, DataInv, TypeOK, device

\* LoadCommit preserves the invariant.
LEMMA LoadCommitStep ==
    ASSUME DataInv, NEW p \in Procs, LoadCommit(p)
    PROVE  DataInv'
<1>1. /\ pc[p] \in Labels /\ loc[p] \in LocalTypes /\ call[p] \in Calls \union {NoCall}
      /\ Fit(pc[p], call[p], loc[p], heap)
  BY DEF DataInv, TypeOK
<1>2. superblock = Null \/ is_init = -1 => NewPage \in 1 .. Pages
  BY DataInv DEF LoadCommit, FreshPages, NewPage
<1>3. loc[p].sb \in Superblocks /\ loc[p].sb.disk_status = "HEALTHY" /\ loc[p].sb # Unused
  BY <1>1, UnusedAssumption DEF LoadCommit, Fit, Superblocks, Superblock
<1>4. SharedTypes' /\ PublishedInv' /\ PagesKept
  BY <1>1, <1>2, <1>3
     DEF LoadCommit, stored, device, DataInv, TypeOK, SharedTypes, PublishedInv, PagesKept,
         DISK_HEALTH
<1>5. OnlyMoves(p) /\ pc'[p] \in Labels /\ loc'[p] \in LocalTypes
  BY <1>1, <1>2, <1>3 DEF LoadCommit, DataInv, TypeOK, OnlyMoves, Labels, LocalTypes
<1>6. Fit(pc'[p], call[p], loc'[p], heap')
  BY <1>1, <1>2, <1>3, <1>4 DEF LoadCommit, DataInv, TypeOK, LocalTypes, Fit, PagesKept
<1> QED
  BY <1>1, <1>5, <1>6, <1>4, ProcessStep DEF LoadCommit, DataInv, TypeOK, device

\* HealthStore preserves the invariant.
LEMMA HealthStoreStep ==
    ASSUME DataInv, NEW p \in Procs, HealthStore(p)
    PROVE  DataInv'
<1>1. /\ pc[p] \in Labels /\ loc[p] \in LocalTypes /\ call[p] \in Calls \union {NoCall}
      /\ Fit(pc[p], call[p], loc[p], heap)
  BY DEF DataInv, TypeOK
<1>2. loc[p].health \in {"zero", "HEALTHY"}
  BY <1>1 DEF HealthStore, LocalTypes
<1>3. SharedTypes' /\ PublishedInv' /\ PagesKept
  BY <1>1, <1>2
     DEF HealthStore, stored, device, DataInv, TypeOK, SharedTypes, PublishedInv, PagesKept,
         DISK_HEALTH
<1>4. OnlyMoves(p) /\ pc'[p] \in Labels /\ loc'[p] \in LocalTypes
  <2>1. OnlyMoves(p)
    BY <1>1 DEF HealthStore, DataInv, TypeOK, OnlyMoves
  <2>2. pc'[p] \in Labels
    BY <1>1 DEF HealthStore, DataInv, TypeOK, Labels
  <2>3. loc'[p] \in LocalTypes
    BY <1>1, <1>2 DEF HealthStore, DataInv, TypeOK, LocalTypes
  <2> QED
    BY <2>1, <2>2, <2>3
<1>5. Fit(pc'[p], call[p], loc'[p], heap')
  BY <1>1, <1>2, <1>3 DEF HealthStore, DataInv, TypeOK, LocalTypes, Fit, PagesKept
<1> QED
  BY <1>1, <1>4, <1>5, <1>3, ProcessStep DEF HealthStore, DataInv, TypeOK, device

\* OffDisk preserves the invariant.
LEMMA OffDiskStep ==
    ASSUME DataInv, NEW p \in Procs, OffDisk(p)
    PROVE  DataInv'
<1>1. /\ pc[p] \in Labels /\ loc[p] \in LocalTypes /\ call[p] \in Calls \union {NoCall}
      /\ Fit(pc[p], call[p], loc[p], heap)
  BY DEF DataInv, TypeOK
<1>2. SharedTypes' /\ PublishedInv' /\ PagesKept
  BY <1>1
     DEF OffDisk, Panic, stored, device, DataInv, TypeOK, SharedTypes, PublishedInv,
         PagesKept
<1>3. OnlyMoves(p) /\ pc'[p] \in Labels /\ loc'[p] \in LocalTypes
  BY <1>1 DEF OffDisk, Panic, DataInv, TypeOK, OnlyMoves, Labels, LocalTypes
<1>4. Fit(pc'[p], call[p], loc'[p], heap')
  BY <1>1, <1>2 DEF OffDisk, Panic, DataInv, TypeOK, LocalTypes, Fit, PagesKept
<1> QED
  BY <1>1, <1>3, <1>4, <1>2, ProcessStep DEF OffDisk, Panic, DataInv, TypeOK, device

\* LockFirst preserves the invariant.
LEMMA LockFirstStep ==
    ASSUME DataInv, NEW p \in Procs, LockFirst(p)
    PROVE  DataInv'
<1>1. /\ pc[p] \in Labels /\ loc[p] \in LocalTypes /\ call[p] \in Calls \union {NoCall}
      /\ Fit(pc[p], call[p], loc[p], heap)
  BY DEF DataInv, TypeOK
<1>2. SharedTypes' /\ PublishedInv' /\ PagesKept
  BY <1>1
     DEF LockFirst, stored, device, DataInv, TypeOK, SharedTypes, PublishedInv, PagesKept
<1>3. OnlyMoves(p) /\ pc'[p] \in Labels /\ loc'[p] \in LocalTypes
  BY <1>1 DEF LockFirst, DataInv, TypeOK, OnlyMoves, Labels, LocalTypes
<1>4. Fit(pc'[p], call[p], loc'[p], heap')
  BY <1>1, <1>2 DEF LockFirst, DataInv, TypeOK, LocalTypes, Fit, PagesKept
<1> QED
  BY <1>1, <1>3, <1>4, <1>2, ProcessStep DEF LockFirst, DataInv, TypeOK, device

\* LockSecond preserves the invariant.
LEMMA LockSecondStep ==
    ASSUME DataInv, NEW p \in Procs, LockSecond(p)
    PROVE  DataInv'
<1>1. /\ pc[p] \in Labels /\ loc[p] \in LocalTypes /\ call[p] \in Calls \union {NoCall}
      /\ Fit(pc[p], call[p], loc[p], heap)
  BY DEF DataInv, TypeOK
<1>2. (loc[p].sb.raid_level \notin Mirrored) => (loc[p].sb.raid_level \in Parity)
  BY <1>1, SuperblockFields DEF LockSecond, Fit, RAID_TYPE, Mirrored, Parity
<1>3. SharedTypes' /\ PublishedInv' /\ PagesKept
  BY <1>1, <1>2
     DEF LockSecond, stored, device, DataInv, TypeOK, SharedTypes, PublishedInv, PagesKept
<1>4. OnlyMoves(p) /\ pc'[p] \in Labels /\ loc'[p] \in LocalTypes
  BY <1>1, <1>2 DEF LockSecond, DataInv, TypeOK, OnlyMoves, Labels, LocalTypes
<1>5. Fit(pc'[p], call[p], loc'[p], heap')
  <2>1. /\ pc[p] = "lock2" /\ second(p) \in Disks /\ loc' = loc /\ call' = call
        /\ pc'[p] = IF loc[p].sb.raid_level \in Mirrored THEN "wprimary_health" ELSE "read_old"
    BY DEF LockSecond, DataInv, TypeOK
  <2>2. loc[p].disk \in Disks /\ loc[p].red \in 1 .. (2 * DISKS)
    BY <1>1, <2>1 DEF Fit
  <2>3. loc[p].red \in Disks
    BY <2>1, <2>2, DisksAssumption DEF second, LockOrder, Disks
  <2> QED
    BY <1>1, <1>2, <1>3, <2>1, <2>3 DEF LocalTypes, Fit, PagesKept
<1> QED
  BY <1>1, <1>4, <1>5, <1>3, ProcessStep DEF LockSecond, DataInv, TypeOK, device

\* UnlockSecond preserves the invariant.
LEMMA UnlockSecondStep ==
    ASSUME DataInv, NEW p \in Procs, UnlockSecond(p)
    PROVE  DataInv'
<1>1. /\ pc[p] \in Labels /\ loc[p] \in LocalTypes /\ call[p] \in Calls \union {NoCall}
      /\ Fit(pc[p], call[p], loc[p], heap)
  BY DEF DataInv, TypeOK
<1>2. SharedTypes' /\ PublishedInv' /\ PagesKept
  BY <1>1
     DEF UnlockSecond, stored, device, DataInv, TypeOK, SharedTypes, PublishedInv, PagesKept
<1>3. OnlyMoves(p) /\ pc'[p] \in Labels /\ loc'[p] \in LocalTypes
  BY <1>1 DEF UnlockSecond, DataInv, TypeOK, OnlyMoves, Labels, LocalTypes
<1>4. Fit(pc'[p], call[p], loc'[p], heap')
  BY <1>1, <1>2 DEF UnlockSecond, DataInv, TypeOK, LocalTypes, Fit, PagesKept
<1> QED
  BY <1>1, <1>3, <1>4, <1>2, ProcessStep DEF UnlockSecond, DataInv, TypeOK, device

\* UnlockFirst preserves the invariant.
LEMMA UnlockFirstStep ==
    ASSUME DataInv, NEW p \in Procs, UnlockFirst(p)
    PROVE  DataInv'
<1>1. /\ pc[p] \in Labels /\ loc[p] \in LocalTypes /\ call[p] \in Calls \union {NoCall}
      /\ Fit(pc[p], call[p], loc[p], heap)
  BY DEF DataInv, TypeOK
<1>2. SharedTypes' /\ PublishedInv' /\ PagesKept
  BY <1>1
     DEF UnlockFirst, stored, device, DataInv, TypeOK, SharedTypes, PublishedInv, PagesKept
<1>3. OnlyMoves(p) /\ pc'[p] \in Labels /\ loc'[p] \in LocalTypes
  BY <1>1 DEF UnlockFirst, DataInv, TypeOK, OnlyMoves, Labels, LocalTypes
<1>4. Fit(pc'[p], call[p], loc'[p], heap')
  BY <1>1, <1>2 DEF UnlockFirst, DataInv, TypeOK, LocalTypes, Fit, PagesKept
<1> QED
  BY <1>1, <1>3, <1>4, <1>2, ProcessStep DEF UnlockFirst, DataInv, TypeOK, device

\* WritePrimary preserves the invariant.
LEMMA WritePrimaryStep ==
    ASSUME DataInv, NEW p \in Procs, WritePrimary(p)
    PROVE  DataInv'
<1>1. /\ pc[p] \in Labels /\ loc[p] \in LocalTypes /\ call[p] \in Calls \union {NoCall}
      /\ Fit(pc[p], call[p], loc[p], heap)
  BY DEF DataInv, TypeOK
<1>2. call[p].value \in {0, 1}
  BY <1>1, CallsAssumption DEF WritePrimary, NoCall, Fit
<1>3. SharedTypes' /\ PublishedInv' /\ PagesKept
  BY <1>1, <1>2
     DEF WritePrimary, PutRow, OnDisk, stored, device, DataInv, TypeOK, SharedTypes,
         PublishedInv, PagesKept
<1>4. OnlyMoves(p) /\ pc'[p] \in Labels /\ loc'[p] \in LocalTypes
  BY <1>1, <1>2
     DEF WritePrimary, PutRow, OnDisk, DataInv, TypeOK, OnlyMoves, Labels, LocalTypes
<1>5. Fit(pc'[p], call[p], loc'[p], heap')
  BY <1>1, <1>2, <1>3
     DEF WritePrimary, PutRow, OnDisk, DataInv, TypeOK, LocalTypes, Fit, PagesKept
<1> QED
  BY <1>1, <1>4, <1>5, <1>3, ProcessStep
     DEF WritePrimary, PutRow, OnDisk, DataInv, TypeOK, device

\* WriteMirror preserves the invariant.
LEMMA WriteMirrorStep ==
    ASSUME DataInv, NEW p \in Procs, WriteMirror(p)
    PROVE  DataInv'
<1>1. /\ pc[p] \in Labels /\ loc[p] \in LocalTypes /\ call[p] \in Calls \union {NoCall}
      /\ Fit(pc[p], call[p], loc[p], heap)
  BY DEF DataInv, TypeOK
<1>2. call[p].value \in {0, 1}
  BY <1>1, CallsAssumption DEF WriteMirror, NoCall, Fit
<1>3. SharedTypes' /\ PublishedInv' /\ PagesKept
  BY <1>1, <1>2
     DEF WriteMirror, PutRow, OnDisk, stored, device, DataInv, TypeOK, SharedTypes,
         PublishedInv, PagesKept
<1>4. OnlyMoves(p) /\ pc'[p] \in Labels /\ loc'[p] \in LocalTypes
  BY <1>1, <1>2
     DEF WriteMirror, PutRow, OnDisk, DataInv, TypeOK, OnlyMoves, Labels, LocalTypes
<1>5. Fit(pc'[p], call[p], loc'[p], heap')
  BY <1>1, <1>2, <1>3
     DEF WriteMirror, PutRow, OnDisk, DataInv, TypeOK, LocalTypes, Fit, PagesKept
<1> QED
  BY <1>1, <1>4, <1>5, <1>3, ProcessStep
     DEF WriteMirror, PutRow, OnDisk, DataInv, TypeOK, device

\* WriteParity preserves the invariant.
LEMMA WriteParityStep ==
    ASSUME DataInv, NEW p \in Procs, WriteParity(p)
    PROVE  DataInv'
<1>1. /\ pc[p] \in Labels /\ loc[p] \in LocalTypes /\ call[p] \in Calls \union {NoCall}
      /\ Fit(pc[p], call[p], loc[p], heap)
  BY DEF DataInv, TypeOK
<1>2. NewParity(call[p].value, loc[p].buf, loc[p].par) \in {0, 1}
  BY <1>1, CallsAssumption DEF WriteParity, NoCall, Fit, LocalTypes, NewParity, Xor
<1>3. SharedTypes' /\ PublishedInv' /\ PagesKept
  BY <1>1, <1>2
     DEF WriteParity, PutRow, stored, device, DataInv, TypeOK, SharedTypes, PublishedInv,
         PagesKept
<1>4. OnlyMoves(p) /\ pc'[p] \in Labels /\ loc'[p] \in LocalTypes
  BY <1>1, <1>2 DEF WriteParity, PutRow, DataInv, TypeOK, OnlyMoves, Labels, LocalTypes
<1>5. Fit(pc'[p], call[p], loc'[p], heap')
  BY <1>1, <1>2, <1>3 DEF WriteParity, PutRow, DataInv, TypeOK, LocalTypes, Fit, PagesKept
<1> QED
  BY <1>1, <1>4, <1>5, <1>3, ProcessStep DEF WriteParity, PutRow, DataInv, TypeOK, device

\* WriteRow preserves the invariant.
LEMMA WriteRowStep ==
    ASSUME DataInv, NEW p \in Procs, WriteRow(p)
    PROVE  DataInv'
<1>1. /\ pc[p] \in Labels /\ loc[p] \in LocalTypes /\ call[p] \in Calls \union {NoCall}
      /\ Fit(pc[p], call[p], loc[p], heap)
  BY DEF DataInv, TypeOK
<1>2. call[p].value \in {0, 1}
  BY <1>1, CallsAssumption DEF WriteRow, NoCall, Fit
<1>3. SharedTypes' /\ PublishedInv' /\ PagesKept
  BY <1>1, <1>2
     DEF WriteRow, PutRow, OnDisk, stored, device, DataInv, TypeOK, SharedTypes,
         PublishedInv, PagesKept
<1>4. OnlyMoves(p) /\ pc'[p] \in Labels /\ loc'[p] \in LocalTypes
  BY <1>1, <1>2 DEF WriteRow, PutRow, OnDisk, DataInv, TypeOK, OnlyMoves, Labels, LocalTypes
<1>5. Fit(pc'[p], call[p], loc'[p], heap')
  BY <1>1, <1>2, <1>3
     DEF WriteRow, PutRow, OnDisk, DataInv, TypeOK, LocalTypes, Fit, PagesKept
<1> QED
  BY <1>1, <1>4, <1>5, <1>3, ProcessStep
     DEF WriteRow, PutRow, OnDisk, DataInv, TypeOK, device

\* raid_fail_disk preserves the invariant.
LEMMA raid_fail_diskStep ==
    ASSUME DataInv, NEW p \in Procs, raid_fail_disk(p)
    PROVE  DataInv'
<1>1. /\ pc[p] \in Labels /\ loc[p] \in LocalTypes /\ call[p] \in Calls \union {NoCall}
      /\ Fit(pc[p], call[p], loc[p], heap)
  BY DEF DataInv, TypeOK
<1>2. /\ OnlyMoves(p)
      /\ \/ pc'[p] = "done" /\ loc'[p] = [loc[p] EXCEPT !.ret = 0]
         \/ pc'[p] = "done" /\ loc'[p] = [loc[p] EXCEPT !.ret = -1]
  BY <1>1 DEF raid_fail_disk, Return, DataInv, TypeOK, OnlyMoves
<1>3. SharedTypes' /\ PublishedInv' /\ PagesKept
  BY <1>1
     DEF raid_fail_disk, Return, stored, device, DataInv, TypeOK, SharedTypes, PublishedInv,
         PagesKept, DISK_HEALTH
<1>4. pc'[p] \in Labels /\ loc'[p] \in LocalTypes
  BY <1>1, <1>2 DEF Labels, LocalTypes
<1>5. Fit(pc'[p], call[p], loc'[p], heap')
  BY <1>1, <1>2, <1>4, <1>3 DEF raid_fail_disk, LocalTypes, Fit, PagesKept
<1> QED
  BY <1>1, <1>2, <1>4, <1>5, <1>3, ProcessStep
     DEF raid_fail_disk, Return, DataInv, TypeOK, device

\* A record of a process's locals stays one, whatever its fields range over,
\* when one of the fields that handle_recovery assigns gets a value of its range.
LEMMA FieldUpdate ==
    ASSUME NEW M, NEW S, NEW H, NEW D, NEW B, NEW R, NEW V, NEW W, NEW I, NEW J, NEW C, NEW T,
           NEW l \in [meta : M, sb : S, health : H, disk : D, blk : B, red : R, buf : V,
                       par : W, i : I, j : J, count : C, ret : T]
    PROVE  LET Ls == [meta : M, sb : S, health : H, disk : D, blk : B, red : R, buf : V,
                      par : W, i : I, j : J, count : C, ret : T]
           IN  /\ \A x \in R : [l EXCEPT !.red = x] \in Ls
               /\ \A x \in I : [l EXCEPT !.i = x] \in Ls
               /\ \A x \in J : [l EXCEPT !.j = x] \in Ls
               /\ \A x \in T : [l EXCEPT !.ret = x] \in Ls
  OBVIOUS

\* The same for the ranges that TypeOK gives the locals.
LEMMA LocalUpdate ==
    ASSUME NEW l \in LocalTypes
    PROVE  /\ \A x \in 0 .. (2 * DISKS) : [l EXCEPT !.red = x] \in LocalTypes
           /\ \A x \in Nat : [l EXCEPT !.i = x] \in LocalTypes
           /\ \A x \in Nat : [l EXCEPT !.j = x] \in LocalTypes
           /\ \A x \in {0, -1, -2} : [l EXCEPT !.ret = x] \in LocalTypes
  BY FieldUpdate, Zenon DEF LocalTypes

\* handle_recovery preserves the invariant.
LEMMA handle_recoveryStep ==
    ASSUME DataInv, NEW p \in Procs, handle_recovery(p)
    PROVE  DataInv'
<1>1. /\ pc[p] \in Labels /\ loc[p] \in LocalTypes /\ call[p] \in Calls \union {NoCall}
      /\ Fit(pc[p], call[p], loc[p], heap)
  BY DEF DataInv, TypeOK
<1>2. ~Refused(p) => (loc[p].sb.raid_level \in Mirrored <=> loc[p].sb.raid_level \notin Parity)
  BY <1>1, SuperblockFields DEF Refused, LocalTypes, RAID_TYPE, Mirrored, Parity
<1>3. /\ OnlyMoves(p)
      /\ \/ pc'[p] = "done" /\ loc'[p] = [loc[p] EXCEPT !.ret = -1]
         \/ /\ ~Refused(p) /\ loc[p].sb.raid_level \in Mirrored
            /\ pc'[p] = "partner_health"
            /\ loc'[p] = [loc[p] EXCEPT !.red = RecoveryPartner(loc[p].sb, call[p].disk), !.i = 0]
         \/ /\ ~Refused(p) /\ loc[p].sb.raid_level \in Parity
            /\ pc'[p] = "xor_read" /\ loc'[p] = [loc[p] EXCEPT !.i = 1, !.j = 0]
  BY <1>1, <1>2
     DEF handle_recovery, Return, MarkRecovery, Refused, DataInv, TypeOK, OnlyMoves
<1>4. ~Refused(p) /\ loc[p].sb.raid_level \in Mirrored =>
          loc[p].sb \in Superblocks /\ call[p].disk \in Disks
  BY <1>1 DEF handle_recovery, Refused, LocalTypes, Fit
<1>5. ~Refused(p) /\ loc[p].sb.raid_level \in Mirrored =>
          RecoveryPartner(loc[p].sb, call[p].disk) \in 0 .. (2 * DISKS) /\ 0 \in Nat
  BY <1>4, SuperblockFields, DisksAssumption DEF RecoveryPartner, Disks, Mirrored
<1>6. ~Refused(p) /\ loc[p].sb.raid_level \in Parity =>
          1 \in Rows /\ 1 \in Nat /\ 0 \in Nat
  BY BlocksAssumption DEF Rows
<1>7. SharedTypes' /\ PublishedInv' /\ PagesKept
  BY <1>1, <1>2, <1>4, <1>5, <1>6
     DEF handle_recovery, Return, MarkRecovery, Refused, stored, device, DataInv, TypeOK,
         SharedTypes, PublishedInv, PagesKept, DISK_HEALTH
<1>8. pc'[p] \in Labels /\ loc'[p] \in LocalTypes
  <2>1. pc'[p] \in Labels
    BY <1>3 DEF Labels
  <2>2. CASE pc'[p] = "done" /\ loc'[p] = [loc[p] EXCEPT !.ret = -1]
    BY <2>1, <2>2, <1>1, LocalUpdate
  <2>3. CASE ~Refused(p) /\ loc[p].sb.raid_level \in Mirrored
             /\ loc'[p] = [loc[p] EXCEPT !.red = RecoveryPartner(loc[p].sb, call[p].disk), !.i = 0]
    <3>1. [loc[p] EXCEPT !.red = RecoveryPartner(loc[p].sb, call[p].disk)] \in LocalTypes
      BY <2>3, <1>1, <1>5, LocalUpdate
    <3> QED
      BY <2>1, <2>3, <1>5, <3>1, LocalUpdate
  <2>4. CASE /\ ~Refused(p) /\ loc[p].sb.raid_level \in Parity
             /\ loc'[p] = [loc[p] EXCEPT !.i = 1, !.j = 0]
    <3>1. [loc[p] EXCEPT !.i = 1] \in LocalTypes
      BY <2>4, <1>1, <1>6, LocalUpdate
    <3> QED
      BY <2>1, <2>4, <1>6, <3>1, LocalUpdate
  <2> QED
    BY <2>1, <2>2, <2>3, <2>4, <1>3
<1>9. Fit(pc'[p], call[p], loc'[p], heap')
  BY <1>1, <1>2, <1>3, <1>4, <1>5, <1>6, <1>8, <1>7
     DEF handle_recovery, LocalTypes, Fit, PagesKept
<1> QED
  BY <1>1, <1>3, <1>8, <1>9, <1>7, ProcessStep
     DEF handle_recovery, Return, MarkRecovery, Refused, DataInv, TypeOK, device

\* CopyWrite preserves the invariant.
LEMMA CopyWriteStep ==
    ASSUME DataInv, NEW p \in Procs, CopyWrite(p)
    PROVE  DataInv'
<1>1. /\ pc[p] \in Labels /\ loc[p] \in LocalTypes /\ call[p] \in Calls \union {NoCall}
      /\ Fit(pc[p], call[p], loc[p], heap)
  BY DEF DataInv, TypeOK
<1>2. loc[p].i + 1 \in Nat /\ 0 \in Nat
  BY <1>1 DEF LocalTypes
<1>3. loc[p].buf \in {0, 1} /\ loc[p].sb \in Superblocks \union {Zero}
  BY <1>1 DEF LocalTypes
<1>4. loc[p].i # 0 =>
          rows' = [rows EXCEPT ![call[p].disk] = [rows[call[p].disk] EXCEPT ![loc[p].i] = loc[p].buf]]
  BY DataInv DEF CopyWrite, DataInv, TypeOK
<1>5. /\ [rows[call[p].disk] EXCEPT ![loc[p].i] = loc[p].buf] \in [Rows -> {0, 1}]
      /\ call[p].disk \in Disks
  BY <1>1, <1>3 DEF CopyWrite, DataInv, TypeOK, Fit
<1>6. rows' \in [Disks -> [Rows -> {0, 1}]]
  BY <1>3, <1>4, <1>5 DEF CopyWrite, DataInv, TypeOK
<1>7. sblock' \in [Disks -> Superblocks \union {Zero}]
  BY <1>3 DEF CopyWrite, DataInv, TypeOK
<1>8. /\ OnlyMoves(p)
      /\ \/ /\ loc[p].i = LastRow
            /\ pc'[p] = "repair_done" /\ loc'[p] = [loc[p] EXCEPT !.i = loc[p].i + 1]
         \/ /\ loc[p].i # LastRow
            /\ pc'[p] = "copy_read" /\ loc'[p] = [loc[p] EXCEPT !.i = loc[p].i + 1]
  BY <1>1, <1>2, <1>3, <1>4, <1>5, <1>6, <1>7 DEF CopyWrite, DataInv, TypeOK, OnlyMoves
<1>9. loc[p].i # LastRow =>
          loc[p].i + 1 \in 0 .. (BlocksPerDisk - 1)
  BY <1>1, BlocksAssumption DEF CopyWrite, Fit, LastRow, Rows
<1>10. SharedTypes' /\ PublishedInv' /\ PagesKept
  BY <1>1, <1>2, <1>3, <1>4, <1>5, <1>6, <1>7, <1>9
     DEF CopyWrite, stored, device, DataInv, TypeOK, SharedTypes, PublishedInv, PagesKept
<1>11. pc'[p] \in Labels /\ loc'[p] \in LocalTypes
  BY <1>1, <1>2, <1>3, <1>4, <1>5, <1>6, <1>7, <1>8, <1>9 DEF Labels, LocalTypes
<1>12. Fit(pc'[p], call[p], loc'[p], heap')
  BY <1>1, <1>2, <1>3, <1>4, <1>5, <1>6, <1>7, <1>8, <1>9, <1>11, <1>10
     DEF CopyWrite, LocalTypes, Fit, PagesKept
<1> QED
  BY <1>1, <1>8, <1>11, <1>12, <1>10, ProcessStep DEF CopyWrite, DataInv, TypeOK, device

\* XorWrite preserves the invariant.
LEMMA XorWriteStep ==
    ASSUME DataInv, NEW p \in Procs, XorWrite(p)
    PROVE  DataInv'
<1>1. /\ loc[p] \in LocalTypes /\ call[p] \in Calls \union {NoCall}
      /\ Fit(pc[p], call[p], loc[p], heap)
  BY DEF DataInv, TypeOK
<1>2. loc[p].i + 1 \in Nat /\ 0 \in Nat
  BY <1>1 DEF LocalTypes
<1>3. loc[p].buf \in {0, 1} /\ loc[p].sb \in Superblocks \union {Zero}
  BY <1>1 DEF LocalTypes
<1>4. OnlyMoves(p)
  BY <1>2, <1>3 DEF XorWrite, DataInv, TypeOK, OnlyMoves
<1>5. SharedTypes' /\ PublishedInv' /\ PagesKept
  BY <1>1, <1>2, <1>3
     DEF XorWrite, stored, device, DataInv, TypeOK, SharedTypes, PublishedInv, PagesKept
<1>6. CASE loc[p].i = LastRow
  <2>1. pc'[p] = "repair_done" /\ loc'[p] = [loc[p] EXCEPT !.i = loc[p].i + 1, !.j = 0]
    BY <1>6, <1>2, <1>3 DEF XorWrite, DataInv, TypeOK
  <2>2. loc'[p] \in LocalTypes
    BY <1>1, <2>1, <1>2, TypedIJ, Zenon
  <2>3. loc'[p].i = loc[p].i + 1
    BY <1>1, <2>1 DEF LocalTypes
  <2>4. Fit(pc'[p], call[p], loc'[p], heap')
    BY <1>1, <2>1, <2>2, <1>2, <1>3, <2>3, <1>5, <1>6
       DEF XorWrite, LocalTypes, Fit, PagesKept
  <2> QED
    BY <1>4, <1>1, <2>1, <2>2, <2>4, <1>5, <1>2, <1>3, ProcessStep
       DEF XorWrite, DataInv, TypeOK, device, Labels
<1>7. CASE loc[p].i # LastRow
  <2>1. pc'[p] = "xor_read" /\ loc'[p] = [loc[p] EXCEPT !.i = loc[p].i + 1, !.j = 0]
    BY <1>7, <1>2, <1>3 DEF XorWrite, DataInv, TypeOK
  <2>2. loc[p].i + 1 \in Rows
    BY <1>7, <1>1, BlocksAssumption DEF XorWrite, Fit, LastRow, Rows
  <2>3. loc'[p] \in LocalTypes
    BY <1>1, <2>1, <1>2, <2>2, TypedIJ, Zenon
  <2>4. loc'[p].i = loc[p].i + 1
    BY <1>1, <2>1 DEF LocalTypes
  <2>5. Fit(pc'[p], call[p], loc'[p], heap')
    BY <1>1, <2>1, <2>3, <1>2, <1>3, <2>2, <2>4, <1>5, <1>7
       DEF XorWrite, LocalTypes, Fit, PagesKept
  <2> QED
    BY <1>4, <1>1, <2>1, <2>3, <2>5, <1>5, <1>2, <1>3, ProcessStep
       DEF XorWrite, DataInv, TypeOK, device, Labels
<1> QED
  BY <1>1, <1>2, <1>3, <1>6, <1>7 DEF XorWrite

\* XorRead preserves the invariant.
LEMMA XorReadStep ==
    ASSUME DataInv, NEW p \in Procs, XorRead(p)
    PROVE  DataInv'
<1> DEFINE source == RecoverySource(call[p].disk, loc[p].j)
           value  == rows[source][loc[p].i]
           buf    == IF loc[p].j = 0 THEN value ELSE Xor(loc[p].buf, value)
<1>1. /\ pc[p] \in Labels /\ loc[p] \in LocalTypes /\ call[p] \in Calls \union {NoCall}
      /\ Fit(pc[p], call[p], loc[p], heap)
  BY DEF DataInv, TypeOK
<1>2. OnlyMoves(p)
  BY DEF XorRead, Panic, DataInv, TypeOK, OnlyMoves
<1>3. SharedTypes' /\ PublishedInv' /\ PagesKept
  BY DEF XorRead, Panic, stored, device, DataInv, TypeOK, SharedTypes, PublishedInv, PagesKept
<1>4. pc'[p] \in Labels /\ loc'[p] \in LocalTypes /\ Fit(pc'[p], call[p], loc'[p], heap')
  <2>1. CASE source = 0
    BY <1>1, <2>1 DEF XorRead, Panic, DataInv, TypeOK, Fit, device
  <2>2. CASE source # 0
    <3>1. source \in Disks /\ loc[p].i \in Rows
      BY <1>1, <2>2, SourceRange, DisksAssumption DEF XorRead, Fit, LocalTypes, Disks
    <3>2. value \in {0, 1}
      BY <3>1 DEF DataInv, TypeOK
    <3>3. buf \in {0, 1} /\ loc[p].j + 1 \in Nat
      BY <1>1, <3>2 DEF LocalTypes, Xor
    <3>4. loc'[p] = [loc[p] EXCEPT !.buf = buf, !.j = loc[p].j + 1]
      BY <2>2 DEF XorRead, DataInv, TypeOK
    <3>5. /\ pc'[p] \in {"xor_read", "xor_write"}
          /\ call[p].op = "repair" /\ call[p].disk \in Disks
      BY <1>1, <2>2 DEF XorRead, DataInv, TypeOK, Fit
    <3> HIDE DEF buf
    <3>6. loc'[p] \in LocalTypes /\ loc'[p].i = loc[p].i
      BY <1>1, <3>3, <3>4 DEF LocalTypes
    <3> QED
      BY <3>1, <3>5, <3>6 DEF Fit, Labels
  <2> QED
    BY <2>1, <2>2
<1> QED
  BY <1>1, <1>2, <1>3, <1>4, ProcessStep DEF XorRead, Panic, DataInv, TypeOK, device

\* RepairDone preserves the invariant.
LEMMA RepairDoneStep ==
    ASSUME DataInv, NEW p \in Procs, RepairDone(p)
    PROVE  DataInv'
<1>1. /\ pc[p] \in Labels /\ loc[p] \in LocalTypes /\ call[p] \in Calls \union {NoCall}
      /\ Fit(pc[p], call[p], loc[p], heap)
  BY DEF DataInv, TypeOK
<1>2. SharedTypes' /\ PublishedInv' /\ PagesKept
  BY <1>1
     DEF RepairDone, Return, stored, device, DataInv, TypeOK, SharedTypes, PublishedInv,
         PagesKept, DISK_HEALTH
<1>3. OnlyMoves(p) /\ pc'[p] \in Labels /\ loc'[p] \in LocalTypes
  BY <1>1 DEF RepairDone, Return, DataInv, TypeOK, OnlyMoves, Labels, LocalTypes
<1>4. Fit(pc'[p], call[p], loc'[p], heap')
  BY <1>1, <1>2 DEF RepairDone, Return, DataInv, TypeOK, LocalTypes, Fit, PagesKept
<1> QED
  BY <1>1, <1>3, <1>4, <1>2, ProcessStep DEF RepairDone, Return, DataInv, TypeOK, device

\* InitWrite preserves the invariant.
LEMMA InitWriteStep ==
    ASSUME DataInv, NEW p \in Procs, InitWrite(p)
    PROVE  DataInv'
<1>1. /\ pc[p] \in Labels /\ loc[p] \in LocalTypes /\ call[p] \in Calls \union {NoCall}
      /\ Fit(pc[p], call[p], loc[p], heap)
  BY DEF DataInv, TypeOK
<1>2. loc[p].i + 1 \in Nat /\ loc[p].sb \in Superblocks
  BY <1>1 DEF InitWrite, Fit, LocalTypes
<1>3. SharedTypes' /\ PublishedInv' /\ PagesKept
  BY <1>1, <1>2
     DEF InitWrite, stored, device, DataInv, TypeOK, SharedTypes, PublishedInv, PagesKept
<1>4. OnlyMoves(p) /\ pc'[p] \in Labels /\ loc'[p] \in LocalTypes
  BY <1>1, <1>2 DEF InitWrite, DataInv, TypeOK, OnlyMoves, Labels, LocalTypes
<1>5. Fit(pc'[p], call[p], loc'[p], heap')
  BY <1>1, <1>2, <1>3 DEF InitWrite, DataInv, TypeOK, LocalTypes, Fit, PagesKept
<1> QED
  BY <1>1, <1>4, <1>5, <1>3, ProcessStep DEF InitWrite, DataInv, TypeOK, device

\* InitPublish preserves the invariant.
LEMMA InitPublishStep ==
    ASSUME DataInv, NEW p \in Procs, InitPublish(p)
    PROVE  DataInv'
<1>1. /\ pc[p] \in Labels /\ loc[p] \in LocalTypes /\ call[p] \in Calls \union {NoCall}
      /\ Fit(pc[p], call[p], loc[p], heap)
  BY DEF DataInv, TypeOK
<1>2. NewPage \in 1 .. Pages
  BY DataInv DEF InitPublish, FreshPages, NewPage
<1>3. loc[p].sb \in Superblocks /\ loc[p].sb # Unused
  BY <1>1, UnusedAssumption DEF InitPublish, Fit
<1>4. SharedTypes' /\ PublishedInv' /\ PagesKept
  BY <1>1, <1>2, <1>3
     DEF InitPublish, stored, device, DataInv, TypeOK, SharedTypes, PublishedInv, PagesKept
<1>5. OnlyMoves(p) /\ pc'[p] \in Labels /\ loc'[p] \in LocalTypes
  BY <1>1, <1>2, <1>3 DEF InitPublish, DataInv, TypeOK, OnlyMoves, Labels, LocalTypes
<1>6. Fit(pc'[p], call[p], loc'[p], heap')
  BY <1>1, <1>2, <1>3, <1>4 DEF InitPublish, DataInv, TypeOK, LocalTypes, Fit, PagesKept
<1> QED
  BY <1>1, <1>5, <1>6, <1>4, ProcessStep DEF InitPublish, DataInv, TypeOK, device

\* InitFlag preserves the invariant.
LEMMA InitFlagStep ==
    ASSUME DataInv, NEW p \in Procs, InitFlag(p)
    PROVE  DataInv'
<1>1. /\ pc[p] \in Labels /\ loc[p] \in LocalTypes /\ call[p] \in Calls \union {NoCall}
      /\ Fit(pc[p], call[p], loc[p], heap)
  BY DEF DataInv, TypeOK
<1>2. SharedTypes' /\ PublishedInv' /\ PagesKept
  BY <1>1
     DEF InitFlag, Return, stored, device, DataInv, TypeOK, SharedTypes, PublishedInv,
         PagesKept
<1>3. OnlyMoves(p) /\ pc'[p] \in Labels /\ loc'[p] \in LocalTypes
  BY <1>1 DEF InitFlag, Return, DataInv, TypeOK, OnlyMoves, Labels, LocalTypes
<1>4. Fit(pc'[p], call[p], loc'[p], heap')
  BY <1>1, <1>2 DEF InitFlag, Return, DataInv, TypeOK, LocalTypes, Fit, PagesKept
<1> QED
  BY <1>1, <1>3, <1>4, <1>2, ProcessStep DEF InitFlag, Return, DataInv, TypeOK, device

\* DestroyWrite preserves the invariant.
LEMMA DestroyWriteStep ==
    ASSUME DataInv, NEW p \in Procs, DestroyWrite(p)
    PROVE  DataInv'
<1>1. /\ pc[p] \in Labels /\ loc[p] \in LocalTypes /\ call[p] \in Calls \union {NoCall}
      /\ Fit(pc[p], call[p], loc[p], heap)
  BY DEF DataInv, TypeOK
<1>2. loc[p].i + 1 \in Nat
  BY <1>1 DEF LocalTypes
<1>3. SharedTypes' /\ PublishedInv' /\ PagesKept
  BY <1>1, <1>2
     DEF DestroyWrite, stored, device, DataInv, TypeOK, SharedTypes, PublishedInv, PagesKept
<1>4. OnlyMoves(p) /\ pc'[p] \in Labels /\ loc'[p] \in LocalTypes
  BY <1>1, <1>2 DEF DestroyWrite, DataInv, TypeOK, OnlyMoves, Labels, LocalTypes
<1>5. Fit(pc'[p], call[p], loc'[p], heap')
  BY <1>1, <1>2, <1>3 DEF DestroyWrite, DataInv, TypeOK, LocalTypes, Fit, PagesKept
<1> QED
  BY <1>1, <1>4, <1>5, <1>3, ProcessStep DEF DestroyWrite, DataInv, TypeOK, device

\* DestroyFree preserves the invariant.
LEMMA DestroyFreeStep ==
    ASSUME DataInv, NEW p \in Procs, DestroyFree(p)
    PROVE  DataInv'
<1>1. /\ pc[p] \in Labels /\ loc[p] \in LocalTypes /\ call[p] \in Calls \union {NoCall}
      /\ Fit(pc[p], call[p], loc[p], heap)
  BY DEF DataInv, TypeOK
<1>2. Freed # Unused
  BY UnusedAssumption
<1>3. SharedTypes' /\ PublishedInv' /\ PagesKept
  <2>1. /\ UNCHANGED <<rows, sblock, is_init, superblock, disk_status, disk_lock, latest, expect>>
        /\ panicked' = TRUE \/ panicked' = panicked
        /\ heap' = heap \/ heap' = [heap EXCEPT ![superblock] = Freed]
    BY DEF DestroyFree, Panic, stored, device
  <2>2. /\ heap' \in [1 .. Pages -> Superblocks \union {Unused, Freed}]
        /\ \A g \in 1 .. Pages : heap'[g] = heap[g] \/ heap'[g] = Freed
    BY <2>1 DEF DataInv, TypeOK
  <2>3. SharedTypes'
    BY <2>1, <2>2 DEF DataInv, TypeOK, SharedTypes
  <2>4. PagesKept
    BY <2>2, <1>2 DEF PagesKept
  <2>5. PublishedInv'
    BY <2>1, <2>2, <1>2 DEF DataInv, TypeOK, PublishedInv
  <2> QED
    BY <2>3, <2>4, <2>5
<1>4. OnlyMoves(p) /\ pc'[p] \in Labels /\ loc'[p] \in LocalTypes
  BY <1>1, <1>2 DEF DestroyFree, Panic, DataInv, TypeOK, OnlyMoves, Labels, LocalTypes
<1>5. Fit(pc'[p], call[p], loc'[p], heap')
  BY <1>1, <1>2, <1>3 DEF DestroyFree, Panic, DataInv, TypeOK, LocalTypes, Fit, PagesKept
<1> QED
  BY <1>1, <1>4, <1>5, <1>3, ProcessStep DEF DestroyFree, Panic, DataInv, TypeOK, device

\* DestroyFlag preserves the invariant.
LEMMA DestroyFlagStep ==
    ASSUME DataInv, NEW p \in Procs, DestroyFlag(p)
    PROVE  DataInv'
<1>1. /\ pc[p] \in Labels /\ loc[p] \in LocalTypes /\ call[p] \in Calls \union {NoCall}
      /\ Fit(pc[p], call[p], loc[p], heap)
  BY DEF DataInv, TypeOK
<1>2. SharedTypes' /\ PublishedInv' /\ PagesKept
  BY <1>1
     DEF DestroyFlag, NotInit, stored, device, DataInv, TypeOK, SharedTypes, PublishedInv,
         PagesKept
<1>3. OnlyMoves(p) /\ pc'[p] \in Labels /\ loc'[p] \in LocalTypes
  BY <1>1 DEF DestroyFlag, NotInit, DataInv, TypeOK, OnlyMoves, Labels, LocalTypes
<1>4. Fit(pc'[p], call[p], loc'[p], heap')
  BY <1>1, <1>2 DEF DestroyFlag, NotInit, DataInv, TypeOK, LocalTypes, Fit, PagesKept
<1> QED
  BY <1>1, <1>3, <1>4, <1>2, ProcessStep DEF DestroyFlag, NotInit, DataInv, TypeOK, device

\* DestroyNull preserves the invariant.
LEMMA DestroyNullStep ==
    ASSUME DataInv, NEW p \in Procs, DestroyNull(p)
    PROVE  DataInv'
<1>1. /\ pc[p] \in Labels /\ loc[p] \in LocalTypes /\ call[p] \in Calls \union {NoCall}
      /\ Fit(pc[p], call[p], loc[p], heap)
  BY DEF DataInv, TypeOK
<1>2. SharedTypes' /\ PublishedInv' /\ PagesKept
  BY <1>1
     DEF DestroyNull, Return, stored, device, DataInv, TypeOK, SharedTypes, PublishedInv,
         PagesKept
<1>3. OnlyMoves(p) /\ pc'[p] \in Labels /\ loc'[p] \in LocalTypes
  BY <1>1 DEF DestroyNull, Return, DataInv, TypeOK, OnlyMoves, Labels, LocalTypes
<1>4. Fit(pc'[p], call[p], loc'[p], heap')
  BY <1>1, <1>2 DEF DestroyNull, Return, DataInv, TypeOK, LocalTypes, Fit, PagesKept
<1> QED
  BY <1>1, <1>3, <1>4, <1>2, ProcessStep DEF DestroyNull, Return, DataInv, TypeOK, device

\* Invoke preserves the invariant: the handler of the call starts.
LEMMA InvokeStep ==
    ASSUME DataInv, NEW p \in Procs, Invoke(p)
    PROVE  DataInv'
<1>1. PICK c \in Calls :
          /\ call' = [call EXCEPT ![p] = c]
          /\ pc' = [pc EXCEPT ![p] = Entry(c)]
          /\ loc' = [loc EXCEPT ![p].i = 1]
          /\ expect' =
              CASE c.op = "read" /\ c.block \in Blocks ->
                       [expect EXCEPT ![p] = {latest[c.block]} \union
                           {call[q].value : q \in {q \in Procs : Writing(q, c.block)}}]
                [] c.op = "write" ->
                       [q \in Procs |-> IF Reading(q, c.block)
                                        THEN expect[q] \union {c.value} ELSE expect[q]]
                [] OTHER -> expect
  BY DEF Invoke
<1>2. loc[p] \in LocalTypes
  BY DEF DataInv, TypeOK
<1>3. OnlyMoves(p) /\ pc'[p] = Entry(c) /\ call'[p] = c /\ loc'[p] = [loc[p] EXCEPT !.i = 1]
  BY <1>1 DEF DataInv, TypeOK, OnlyMoves
<1>4. loc'[p] \in LocalTypes
  BY <1>2, <1>3 DEF LocalTypes
<1>5. /\ c.op \in {"read", "write", "info"} => Entry(c) = "lm_fast"
      /\ c.op = "init" => Entry(c) = "init"
      /\ c.op = "fail" => Entry(c) = "fail"
      /\ c.op = "repair" => Entry(c) = "repair"
      /\ c.op = "destroy" => Entry(c) = "destroy"
  BY DEF Entry
<1>6. c.op \in {"read", "write", "info", "init", "fail", "repair", "destroy"}
  BY CallsAssumption
<1>7. Entry(c) \in Labels /\ Fit(Entry(c), c, loc'[p], heap')
  BY <1>5, <1>6 DEF Labels, Fit
<1>8. expect' \in [Procs -> SUBSET {0, 1, Undef}]
  <2>1. CASE c.op = "read" /\ c.block \in Blocks
    <3>1. ASSUME NEW q \in Procs, Writing(q, c.block)
          PROVE  call[q].value \in {0, 1}
      BY <3>1, CallsAssumption DEF Writing, DataInv, TypeOK, NoCall
    <3>2. latest[c.block] \in {0, 1, Undef}
      BY <2>1 DEF DataInv, TypeOK
    <3>3. {latest[c.block]} \union {call[q].value : q \in {q \in Procs : Writing(q, c.block)}}
              \in SUBSET {0, 1, Undef}
      BY <3>1, <3>2
    <3>4. expect' = [expect EXCEPT ![p] = {latest[c.block]} \union
                         {call[q].value : q \in {q \in Procs : Writing(q, c.block)}}]
      BY <1>1, <2>1
    <3> QED
      BY <3>3, <3>4 DEF DataInv, TypeOK
  <2>2. CASE c.op = "write"
    <3>1. expect' = [q \in Procs |-> IF Reading(q, c.block)
                                     THEN expect[q] \union {c.value} ELSE expect[q]]
      BY <1>1, <2>2
    <3>2. c.value \in {0, 1}
      BY <2>2, CallsAssumption
    <3>3. \A q \in Procs : expect[q] \in SUBSET {0, 1, Undef}
      BY DEF DataInv, TypeOK
    <3> QED
      BY <3>1, <3>2, <3>3
  <2>3. CASE ~(c.op = "read" /\ c.block \in Blocks) /\ c.op # "write"
    BY <1>1, <2>3 DEF DataInv, TypeOK
  <2> QED
    BY <2>1, <2>2, <2>3
<1>9. SharedTypes' /\ PublishedInv' /\ PagesKept
  BY <1>8 DEF Invoke, stored, device, DataInv, TypeOK, SharedTypes, PublishedInv, PagesKept
<1> QED
  BY <1>1, <1>3, <1>4, <1>7, <1>9, ProcessStep

\* The initial values of the local variables.
LEMMA LocalsTyped == Locals \in LocalTypes
BY DisksAssumption, BlocksAssumption DEF Locals, LocalTypes

\* A process that runs no system call fits any heap.
LEMMA IdleFits ==
    ASSUME NEW c, NEW r, NEW h
    PROVE  Fit("idle", c, r, h)
BY DEF Fit

\* Finish preserves the invariant.
LEMMA FinishStep ==
    ASSUME DataInv, NEW p \in Procs, Finish(p)
    PROVE  DataInv'
<1>1. OnlyMoves(p) /\ pc'[p] = "idle" /\ call'[p] = NoCall /\ loc'[p] = Locals
  BY DEF Finish, DataInv, TypeOK, OnlyMoves
<1>2. call' = [call EXCEPT ![p] = call'[p]]
  BY DEF Finish, DataInv, TypeOK
<1>3. Fit(pc'[p], call'[p], loc'[p], heap')
  BY <1>1, IdleFits
<1>4. expect' \in [Procs -> SUBSET {0, 1, Undef}]
  BY DEF Finish, DataInv, TypeOK
<1>5. SharedTypes' /\ PublishedInv' /\ PagesKept
  BY <1>4 DEF Finish, stored, device, DataInv, TypeOK, SharedTypes, PublishedInv, PagesKept
<1>6. pc'[p] \in Labels
  BY <1>1 DEF Labels
<1> QED
  BY <1>1, <1>2, <1>3, <1>5, <1>6, LocalsTyped, ProcessStep

\* A state in which no process runs a system call.
Quiescent ==
    /\ pc = [p \in Procs |-> "idle"]
    /\ call = [p \in Procs |-> NoCall]
    /\ loc = [p \in Procs |-> Locals]

\* Such a state satisfies the invariant if the shared variables do.
LEMMA QuiescentInv == Quiescent /\ SharedTypes /\ PublishedInv => DataInv
<1> SUFFICES ASSUME Quiescent, SharedTypes, PublishedInv PROVE DataInv
  OBVIOUS
<1>1. TypeOK
  BY LocalsTyped DEF Quiescent, SharedTypes, TypeOK, Labels
<1>2. ASSUME NEW p \in Procs
      PROVE  Fit(pc[p], call[p], loc[p], heap)
  BY IdleFits DEF Quiescent
<1> QED
  BY <1>1, <1>2 DEF DataInv

\* A restart preserves the invariant.
LEMMA RebootStep ==
    ASSUME DataInv, Reboot
    PROVE  DataInv'
<1>1. Quiescent'
  BY DEF Reboot, Quiescent
<1>2. SharedTypes' /\ PublishedInv'
  BY DEF Reboot, stored, DataInv, TypeOK, SharedTypes, PublishedInv, DISK_HEALTH
<1> QED
  BY <1>1, <1>2, QuiescentInv, PTL

\* The superblocks that exist at boot are ones that raid_system_init builds.
LEMMA BootSuperblock ==
    ASSUME NEW l \in Levels
    PROVE  Superblock(l) \in Superblocks
BY LevelsAssumption DEF Superblocks

\* The states at power-on satisfy the invariant.
LEMMA ColdBootInv == ColdBoot => DataInv
<1> SUFFICES ASSUME ColdBoot PROVE DataInv
  OBVIOUS
<1>1. sblock \in [Disks -> Superblocks \union {Zero}]
  BY BootSuperblock DEF ColdBoot
<1>2. rows \in [Disks -> [Rows -> {0, 1}]]
  BY DEF ColdBoot
<1>3. SharedTypes
  BY <1>1, <1>2 DEF ColdBoot, SharedTypes, DISK_HEALTH
<1>4. Quiescent /\ PublishedInv
  BY DEF ColdBoot, Quiescent, PublishedInv
<1> QED
  BY <1>3, <1>4, QuiescentInv

\* So do the states with an array in service.
LEMMA ReadyArrayInv == ReadyArray => DataInv
<1> SUFFICES ASSUME ReadyArray PROVE DataInv
  OBVIOUS
<1>1. PICK sb \in Superblocks :
          /\ sblock = [d \in Disks |-> sb]
          /\ heap = [g \in 1 .. Pages |-> IF g = 1 THEN sb ELSE Unused]
  BY BootSuperblock DEF ReadyArray
<1>2. rows \in [Disks -> [Rows -> {0, 1}]]
  BY DEF ReadyArray
<1>3. superblock = 1 /\ 1 \in 1 .. Pages
  BY PagesAssumption DEF ReadyArray
<1>4. SharedTypes
  BY <1>1, <1>2, <1>3 DEF ReadyArray, SharedTypes, DISK_HEALTH
<1>5. Quiescent /\ PublishedInv
  BY <1>1, <1>3, UnusedAssumption DEF ReadyArray, Quiescent, PublishedInv
<1> QED
  BY <1>4, <1>5, QuiescentInv

\* Every step preserves the invariant.
LEMMA NextStep ==
    ASSUME DataInv, [Next \/ Reboot]_vars
    PROVE  DataInv'
<1>1. CASE Reboot
  BY <1>1, RebootStep
<1>2. CASE UNCHANGED vars
  BY <1>2 DEF vars, stored, device, DataInv, TypeOK, PublishedInv, Fit
<1>3. CASE Next
  <2> PICK p \in Procs : Invoke(p) \/ Step(p)
    BY <1>3 DEF Next
  <2>1. CASE load_metadata(p)
    BY <2>1, LoadFastStep, LoadCheckStep, LoadReadStep, LoadCommitStep, LoadFinalStep
       DEF load_metadata
  <2>2. CASE get_disk_health(p)
    BY <2>2, HealthReadStep, HealthStoreStep DEF get_disk_health
  <2>3. CASE Transfer(p)
    BY <2>3, rw_blockStep, DataHealthStep, ReadRowStep, OffDiskStep, LockOutsideStep,
       LockFirstStep, LockSecondStep, UnlockSecondStep, UnlockFirstStep, PrimaryHealthStep,
       MirrorHealthStep, WritePrimaryHealthStep, WriteMirrorHealthStep, WritePrimaryStep,
       WriteMirrorStep, ReadOldStep, ReadParityStep, WriteParityStep, WriteRowStep
       DEF Transfer, handle_rw_raid01, write_parrity_block
  <2>4. CASE raid_fail_disk(p)
    BY <2>4, raid_fail_diskStep
  <2>5. CASE raid_repair_disk(p)
    BY <2>5, RepairHealthStep, RepairCountStep, RepairSuperblockStep, handle_recoveryStep,
       PartnerHealthStep, CopyReadStep, CopyWriteStep, XorReadStep, XorWriteStep,
       RepairDoneStep
       DEF raid_repair_disk, mirrorRecovery, raid4_and_5_recovery
  <2>6. CASE raid_system_info(p)
    BY <2>6, InfoHealthStep, InfoCopyStep DEF raid_system_info
  <2>7. CASE raid_system_init(p)
    BY <2>7, InitCheckStep, InitWriteStep, InitPublishStep, InitFlagStep
       DEF raid_system_init
  <2>8. CASE raid_system_destroy(p)
    BY <2>8, DestroyWriteStep, DestroyFreeStep, DestroyFlagStep, DestroyNullStep
       DEF raid_system_destroy
  <2>9. CASE UseAfterFree(p)
    BY <2>9, UseAfterFreeStep
  <2>10. CASE Finish(p)
    BY <2>10, FinishStep
  <2>11. CASE Invoke(p)
    BY <2>11, InvokeStep
  <2> QED
    BY <2>1, <2>2, <2>3, <2>4, <2>5, <2>6, <2>7, <2>8, <2>9, <2>10, <2>11 DEF Step
<1> QED
  BY <1>1, <1>2, <1>3

-----------------------------------------------------------------------------
(* The invariant holds from a cold boot, with an array in service, and when *)
(* the machine restarts at any time.                                        *)

\* From power-on, every handler of raid.c always finds the state it relies on:
\* its superblock, disks and rows are those rw_block and the recovery computed.
THEOREM ColdDataInv == ColdSpec => []DataInv
<1>1. DataInv /\ [Next]_vars => DataInv'
  BY NextStep
<1> QED
  BY <1>1, ColdBootInv, PTL DEF ColdSpec

\* The same from an array in service, on a machine that may restart at any
\* moment.
THEOREM RebootDataInv == RebootSpec => []DataInv
<1>1. DataInv /\ [Next \/ Reboot]_vars => DataInv'
  BY NextStep
<1> QED
  BY <1>1, ReadyArrayInv, PTL DEF RebootSpec

\* Every variable of the RAID layer keeps its type: the handlers index the
\* disks, the rows, the cache and the superblock pages within their bounds,
\* and the cache holds statuses only.
THEOREM ColdTypeCorrect == ColdSpec => []TypeOK
<1>1. DataInv => TypeOK
  BY DEF DataInv
<1> QED
  BY <1>1, ColdDataInv, PTL

\* A restart in the middle of any handler does not disturb the types either.
THEOREM RebootTypeCorrect == RebootSpec => []TypeOK
<1>1. DataInv => TypeOK
  BY DEF DataInv
<1> QED
  BY <1>1, RebootDataInv, PTL

HIDE DEF At, Goto, JobInv, SuperblockInv, AddressInv, RecoveryInv,
         LoadLabels, WriteLabels, Addressed, RepairLabels

-----------------------------------------------------------------------------
(* The disk locks.  What a process holds follows from where it is.          *)

HoldsFirst(p) == Updating(p) \/ pc[p] \in {"lock2", "unlock1"}

\* A writer whose mirror does not exist, gone astray with its first disk locked.
Stray(p) == pc[p] = "wild" /\ loc[p].red \notin Disks

\* The lock invariant: who is past its first or second acquiresleep holds that
\* lock, and who holds a lock is there or has gone astray.
FirstHeld  == \A p \in Procs : HoldsFirst(p) => disk_lock[first(p)] = p
SecondHeld == \A p \in Procs : Updating(p) => disk_lock[second(p)] = p
HeldByNeed ==
    \A d \in Disks, p \in Procs : disk_lock[d] = p =>
        \/ HoldsFirst(p) /\ d = first(p)
        \/ Updating(p) /\ d = second(p)
        \/ Stray(p) /\ d = loc[p].disk
LockInv == FirstHeld /\ SecondHeld /\ HeldByNeed

\* A step of p that leaves the locks, and the need for them, alone.
KeepsLocks(p) ==
    /\ OnlyMoves(p)
    /\ UNCHANGED disk_lock
    /\ HoldsFirst(p)' <=> HoldsFirst(p)
    /\ Updating(p)' <=> Updating(p)
    /\ HoldsFirst(p) => loc'[p].disk = loc[p].disk /\ loc'[p].red = loc[p].red
    /\ pc[p] = "wild" => /\ pc'[p] = "wild"
                         /\ loc'[p].disk = loc[p].disk /\ loc'[p].red = loc[p].red

\* The other processes are where they were.
LEMMA OthersStay ==
    ASSUME DataInv, NEW p \in Procs, OnlyMoves(p), NEW q \in Procs, q # p
    PROVE  /\ HoldsFirst(q)' <=> HoldsFirst(q)
           /\ Updating(q)' <=> Updating(q)
           /\ first(q)' = first(q) /\ second(q)' = second(q)
           /\ Stray(q)' <=> Stray(q)
           /\ loc'[q] = loc[q]
<1>1. pc'[q] = pc[q] /\ loc'[q] = loc[q]
  BY DEF DataInv, TypeOK, OnlyMoves
<1> QED
  BY <1>1 DEF HoldsFirst, Updating, Stray, first, second, LockOrder

\* Such a step preserves the lock invariant.
LEMMA KeepsLocksInv ==
    ASSUME DataInv, LockInv, NEW p \in Procs, KeepsLocks(p)
    PROVE  LockInv'
<1>1. HoldsFirst(p) => first(p)' = first(p) /\ second(p)' = second(p)
  BY DEF KeepsLocks, first, second, LockOrder
<1>2. Updating(p) => HoldsFirst(p)
  BY DEF HoldsFirst
<1>3. OnlyMoves(p)
  BY DEF KeepsLocks
<1>4. ASSUME NEW q \in Procs
      PROVE  /\ HoldsFirst(q)' <=> HoldsFirst(q)
             /\ Updating(q)' <=> Updating(q)
             /\ HoldsFirst(q) => first(q)' = first(q) /\ second(q)' = second(q)
             /\ Updating(q) => HoldsFirst(q)
             /\ Stray(q) => Stray(q)' /\ loc'[q].disk = loc[q].disk
  <2>1. CASE q = p
    BY <1>1, <1>2, <2>1 DEF KeepsLocks, Stray
  <2>2. CASE q # p
    BY <1>3, <2>2, OthersStay DEF HoldsFirst
  <2> QED
    BY <2>1, <2>2
<1>5. FirstHeld' /\ SecondHeld'
  BY <1>4 DEF LockInv, FirstHeld, SecondHeld, KeepsLocks
<1>6. HeldByNeed'
  BY <1>4 DEF LockInv, HeldByNeed, KeepsLocks
<1> QED
  BY <1>5, <1>6 DEF LockInv

-----------------------------------------------------------------------------
(* The steps that leave the locks alone, by system call.                    *)

USE DEF At, Goto, device, HoldsFirst, Updating, Critical, KeepsLocks, OnlyMoves,
        DataInv, TypeOK

\* The parity of an array that has one is written under the locks.
LEMMA WriteParityKeeps ==
    ASSUME DataInv, NEW p \in Procs, WriteParity(p)
    PROVE  KeepsLocks(p)
<1>1. loc[p].sb.raid_level # "RAID0"
  BY DEF WriteParity, Fit, AddressInv, WriteLabels
<1> QED
  BY <1>1 DEF WriteParity

\* Deciding on a recovery.
LEMMA handle_recoveryKeeps ==
    ASSUME DataInv, NEW p \in Procs, handle_recovery(p)
    PROVE  KeepsLocks(p)
<1>1. ~Refused(p) => (loc[p].sb.raid_level \in Mirrored \/ loc[p].sb.raid_level \in Parity)
  BY SuperblockFields DEF Refused, LocalTypes, RAID_TYPE, Mirrored, Parity
<1>2. OnlyMoves(p) /\ pc'[p] \in {"done", "partner_health", "xor_read"}
  <2>1. CASE Refused(p)
    BY <2>1 DEF handle_recovery, Return
  <2>2. CASE ~Refused(p) /\ loc[p].sb.raid_level \in Mirrored
    BY <2>2 DEF handle_recovery, Mirrored, Parity
  <2>3. CASE ~Refused(p) /\ loc[p].sb.raid_level \in Parity
    BY <2>3 DEF handle_recovery, Mirrored, Parity
  <2> QED
    BY <1>1, <2>1, <2>2, <2>3
<1> QED
  BY <1>2 DEF handle_recovery

\* The writer of a mirror whose disks have both failed keeps its locks until it returns them.
LEMMA WriteMirrorHealthKeeps ==
    ASSUME DataInv, NEW p \in Procs, WriteMirrorHealth(p)
    PROVE  KeepsLocks(p)
<1>1. CASE Health(p) = "HEALTHY"
  BY <1>1 DEF WriteMirrorHealth
<1>2. CASE Health(p) # "HEALTHY"
  <2>1. OnlyMoves(p) /\ pc'[p] = "unlock2" /\ loc'[p] = [loc[p] EXCEPT !.ret = -1]
    BY <1>2 DEF WriteMirrorHealth
  <2>2. loc'[p].disk = loc[p].disk /\ loc'[p].red = loc[p].red
    BY <2>1 DEF LocalTypes
  <2> QED
    BY <2>1, <2>2 DEF WriteMirrorHealth
<1> QED
  BY <1>1, <1>2

\* Loading the superblock.
LEMMA load_metadataKeeps ==
    ASSUME DataInv, NEW p \in Procs, load_metadata(p)
    PROVE  KeepsLocks(p)
<1>1. CASE LoadFast(p)
  BY <1>1 DEF LoadFast, Loaded, AfterLoad
<1>2. CASE LoadCheck(p)
  BY <1>2 DEF LoadCheck
<1>3. CASE LoadRead(p)
  BY <1>3 DEF LoadRead, LoadFailed, Return
<1>4. CASE LoadCommit(p)
  BY <1>4 DEF LoadCommit
<1>5. CASE LoadFinal(p)
  BY <1>5 DEF LoadFinal, Loaded, AfterLoad, LoadFailed, Return
<1> QED
  BY <1>1, <1>2, <1>3, <1>4, <1>5 DEF load_metadata

\* Reading a health status.
LEMMA get_disk_healthKeeps ==
    ASSUME DataInv, NEW p \in Procs, get_disk_health(p)
    PROVE  KeepsLocks(p)
<1>1. CASE HealthRead(p)
  BY <1>1 DEF HealthRead
<1>2. CASE HealthStore(p)
  BY <1>2 DEF HealthStore
<1> QED
  BY <1>1, <1>2 DEF get_disk_health

\* Reading and writing, but for the five steps on the locks.
LEMMA TransferKeeps ==
    ASSUME DataInv, NEW p \in Procs, Transfer(p),
           ~LockOutside(p),
           ~(LockFirst(p) \/ LockSecond(p) \/ UnlockSecond(p) \/ UnlockFirst(p))
    PROVE  KeepsLocks(p)
<1>1. CASE rw_block(p)
  BY <1>1 DEF rw_block, Return, IsRead, Mirrored
<1>2. CASE DataHealth(p)
  BY <1>2 DEF DataHealth, Return, IsRead
<1>3. CASE ReadRow(p)
  BY <1>3 DEF ReadRow
<1>4. CASE OffDisk(p)
  BY <1>4 DEF OffDisk, Panic
<1>6. CASE PrimaryHealth(p)
  BY <1>6 DEF PrimaryHealth
<1>7. CASE MirrorHealth(p)
  BY <1>7 DEF MirrorHealth, Return
<1>8. CASE WritePrimaryHealth(p)
  BY <1>8 DEF WritePrimaryHealth
<1>9. CASE WriteMirrorHealth(p)
  BY <1>9, WriteMirrorHealthKeeps
<1>10. CASE WritePrimary(p)
  BY <1>10 DEF WritePrimary, PutRow, OnDisk
<1>11. CASE WriteMirror(p)
  BY <1>11 DEF WriteMirror, PutRow, OnDisk
<1>12. CASE ReadOld(p)
  BY <1>12 DEF ReadOld
<1>13. CASE ReadParity(p)
  BY <1>13 DEF ReadParity
<1>14. CASE WriteParity(p)
  BY <1>14, WriteParityKeeps
<1>15. CASE WriteRow(p)
  BY <1>15 DEF WriteRow, PutRow, OnDisk
<1> QED
  BY <1>1, <1>2, <1>3, <1>4, <1>6, <1>7, <1>8, <1>9, <1>10, <1>11, <1>12, <1>13,
     <1>14, <1>15
     DEF Transfer, handle_rw_raid01, write_parrity_block

\* Repairing a disk.
LEMMA raid_repair_diskKeeps ==
    ASSUME DataInv, NEW p \in Procs, raid_repair_disk(p)
    PROVE  KeepsLocks(p)
<1>1. CASE RepairHealth(p)
  BY <1>1 DEF RepairHealth, Return
<1>2. CASE RepairCount(p)
  BY <1>2 DEF RepairCount
<1>3. CASE RepairSuperblock(p)
  BY <1>3 DEF RepairSuperblock
<1>4. CASE handle_recovery(p)
  BY <1>4, handle_recoveryKeeps
<1>5. CASE PartnerHealth(p)
  BY <1>5 DEF PartnerHealth, Return
<1>6. CASE CopyRead(p)
  BY <1>6 DEF CopyRead
<1>7. CASE CopyWrite(p)
  BY <1>7 DEF CopyWrite
<1>8. CASE XorRead(p)
  BY <1>8 DEF XorRead, Panic
<1>9. CASE XorWrite(p)
  BY <1>9 DEF XorWrite
<1>10. CASE RepairDone(p)
  BY <1>10 DEF RepairDone, Return
<1> QED
  BY <1>1, <1>2, <1>3, <1>4, <1>5, <1>6, <1>7, <1>8, <1>9, <1>10
     DEF raid_repair_disk, mirrorRecovery, raid4_and_5_recovery

\* Querying the array.
LEMMA raid_system_infoKeeps ==
    ASSUME DataInv, NEW p \in Procs, raid_system_info(p)
    PROVE  KeepsLocks(p)
<1>1. CASE InfoHealth(p)
  BY <1>1 DEF InfoHealth, Return
<1>2. CASE InfoCopy(p)
  BY <1>2 DEF InfoCopy
<1> QED
  BY <1>1, <1>2 DEF raid_system_info

\* Creating an array.
LEMMA raid_system_initKeeps ==
    ASSUME DataInv, NEW p \in Procs, raid_system_init(p)
    PROVE  KeepsLocks(p)
<1>1. CASE InitCheck(p)
  BY <1>1 DEF InitCheck, Return
<1>2. CASE InitWrite(p)
  BY <1>2 DEF InitWrite
<1>3. CASE InitPublish(p)
  BY <1>3 DEF InitPublish
<1>4. CASE InitFlag(p)
  BY <1>4 DEF InitFlag, Return
<1> QED
  BY <1>1, <1>2, <1>3, <1>4 DEF raid_system_init

\* Destroying the array.
LEMMA raid_system_destroyKeeps ==
    ASSUME DataInv, NEW p \in Procs, raid_system_destroy(p)
    PROVE  KeepsLocks(p)
<1>1. CASE DestroyWrite(p)
  BY <1>1 DEF DestroyWrite
<1>2. CASE DestroyFree(p)
  BY <1>2 DEF DestroyFree, Panic
<1>3. CASE DestroyFlag(p)
  BY <1>3 DEF DestroyFlag, NotInit
<1>4. CASE DestroyNull(p)
  BY <1>4 DEF DestroyNull, Return
<1> QED
  BY <1>1, <1>2, <1>3, <1>4 DEF raid_system_destroy

\* Failing a disk, a use of a freed superblock, and the return of a call.
LEMMA OtherKeeps ==
    ASSUME DataInv, NEW p \in Procs, raid_fail_disk(p) \/ UseAfterFree(p) \/ Finish(p)
    PROVE  KeepsLocks(p)
<1>1. CASE raid_fail_disk(p)
  BY <1>1 DEF raid_fail_disk, Return
<1>2. CASE UseAfterFree(p)
  BY <1>2 DEF UseAfterFree, Valid, Dereferenced
<1>3. CASE Finish(p)
  BY <1>3 DEF Finish
<1> QED
  BY <1>1, <1>2, <1>3

\* The start of a call.
LEMMA InvokeKeeps ==
    ASSUME DataInv, NEW p \in Procs, Invoke(p)
    PROVE  KeepsLocks(p)
<1>1. PICK c \in Calls : pc' = [pc EXCEPT ![p] = Entry(c)] /\ loc' = [loc EXCEPT ![p].i = 1]
  BY DEF Invoke
<1>2. Entry(c) \in {"lm_fast", "init", "fail", "repair", "destroy"}
  BY CallsAssumption DEF Entry
<1>3. OnlyMoves(p) /\ pc'[p] = Entry(c)
  BY <1>1
<1> QED
  BY <1>2, <1>3 DEF Invoke

HIDE DEF At, Goto, device, HoldsFirst, Updating, Critical, KeepsLocks, OnlyMoves,
         DataInv, TypeOK

\* A process between its first acquiresleep and its last releasesleep works on
\* two different disks; the first is one of the array, and so is the second but
\* for the writer of the block one past the end, whose primary comes first.
LEMMA TwoDisks ==
    ASSUME DataInv, NEW p \in Procs, HoldsFirst(p) \/ pc[p] = "lock1"
    PROVE  /\ first(p) \in Disks /\ first(p) # second(p)
           /\ {first(p), second(p)} = {loc[p].disk, loc[p].red}
           /\ Updating(p) \/ pc[p] = "unlock1" => second(p) \in Disks
           /\ second(p) \notin Disks => first(p) = loc[p].disk /\ loc[p].red \notin Disks
<1>1. /\ loc[p].disk \in Disks /\ loc[p].red \in 1 .. (2 * DISKS) /\ loc[p].red # loc[p].disk
      /\ Updating(p) \/ pc[p] = "unlock1" => loc[p].red \in Disks
  BY DEF DataInv, Fit, AddressInv, Addressed, WriteLabels, HoldsFirst, Updating, Critical
<1>2. Disks = 1 .. DISKS /\ DISKS \in Nat
  BY DisksAssumption DEF Disks
<1>3. loc[p].disk \in Int /\ loc[p].red \in Int
  BY <1>1, <1>2
<1>4. CASE loc[p].red < loc[p].disk
  BY <1>1, <1>2, <1>3, <1>4 DEF first, second, LockOrder
<1>5. CASE ~(loc[p].red < loc[p].disk)
  BY <1>1, <1>2, <1>3, <1>5 DEF first, second, LockOrder
<1> QED
  BY <1>4, <1>5

\* A writer whose second disk does not exist goes astray with its first lock.
LEMMA LockOutsideLocks ==
    ASSUME DataInv, LockInv, NEW p \in Procs, LockOutside(p)
    PROVE  LockInv'
<1>1. /\ OnlyMoves(p) /\ UNCHANGED disk_lock /\ loc' = loc
      /\ HoldsFirst(p) /\ ~Updating(p) /\ ~Stray(p)
      /\ ~HoldsFirst(p)' /\ ~Updating(p)' /\ pc'[p] = "wild"
  BY DEF LockOutside, At, Goto, OnlyMoves, DataInv, TypeOK, HoldsFirst, Updating, Critical, Stray
<1>2. first(p) = loc[p].disk /\ loc[p].red \notin Disks
  BY <1>1, TwoDisks DEF LockOutside
<1>3. Stray(p)'
  BY <1>1, <1>2 DEF Stray
<1>4. \A q \in Procs \ {p} : /\ HoldsFirst(q)' <=> HoldsFirst(q)
                             /\ Updating(q)' <=> Updating(q)
                             /\ first(q)' = first(q) /\ second(q)' = second(q)
                             /\ Stray(q)' <=> Stray(q)
  BY <1>1, OthersStay
<1>5. FirstHeld' /\ SecondHeld'
  BY <1>1, <1>4 DEF LockInv, FirstHeld, SecondHeld
<1>6. HeldByNeed'
  <2> SUFFICES ASSUME NEW d \in Disks, NEW q \in Procs, disk_lock'[d] = q
               PROVE  \/ HoldsFirst(q)' /\ d = first(q)'
                      \/ Updating(q)' /\ d = second(q)'
                      \/ Stray(q)' /\ d = loc'[q].disk
    BY DEF HeldByNeed
  <2>1. \/ HoldsFirst(q) /\ d = first(q)
        \/ Updating(q) /\ d = second(q)
        \/ Stray(q) /\ d = loc[q].disk
    BY <1>1 DEF LockInv, HeldByNeed
  <2> QED
    BY <1>1, <1>2, <1>3, <1>4, <2>1
<1> QED
  BY <1>5, <1>6 DEF LockInv

\* The four steps that take and release locks.  In each of them p changes only
\* its label, and its two disks stay what they are.
LEMMA LockFirstLocks ==
    ASSUME DataInv, LockInv, NEW p \in Procs, LockFirst(p)
    PROVE  LockInv'
<1>1. /\ disk_lock' = [disk_lock EXCEPT ![first(p)] = p] /\ disk_lock[first(p)] = NoProc
      /\ first(p)' = first(p) /\ second(p)' = second(p)
  BY DEF LockFirst, first, second, LockOrder
<1>2. OnlyMoves(p) /\ ~HoldsFirst(p) /\ ~Updating(p) /\ HoldsFirst(p)' /\ ~Updating(p)'
  BY DEF LockFirst, At, Goto, OnlyMoves, DataInv, TypeOK, HoldsFirst, Updating, Critical
<1>3. first(p) \in Disks /\ ~Stray(p)
  BY TwoDisks DEF LockFirst, At, Stray
<1>4. \A q \in Procs \ {p} : /\ HoldsFirst(q)' <=> HoldsFirst(q)
                             /\ Updating(q)' <=> Updating(q)
                             /\ first(q)' = first(q) /\ second(q)' = second(q)
                             /\ (Stray(q)' <=> Stray(q)) /\ loc'[q] = loc[q]
  BY <1>2, OthersStay
<1>5. \A d \in Disks : disk_lock'[d] = IF d = first(p) THEN p ELSE disk_lock[d]
  BY <1>1 DEF DataInv, TypeOK
<1>6. \A q \in Procs : HoldsFirst(q) => first(q) \in Disks /\ first(q) # second(q)
  BY TwoDisks
<1>7. \A q \in Procs : Updating(q) => HoldsFirst(q) /\ second(q) \in Disks
  BY TwoDisks DEF HoldsFirst
<1>8. FirstHeld' /\ SecondHeld'
  BY <1>1, <1>2, <1>3, <1>4, <1>5, <1>6, <1>7, NoProcAssumption
     DEF LockInv, FirstHeld, SecondHeld, HeldByNeed
<1>9. HeldByNeed'
  <2> SUFFICES ASSUME NEW d \in Disks, NEW q \in Procs, disk_lock'[d] = q
               PROVE  \/ HoldsFirst(q)' /\ d = first(q)'
                      \/ Updating(q)' /\ d = second(q)'
                      \/ Stray(q)' /\ d = loc'[q].disk
    BY DEF HeldByNeed
  <2>1. CASE d = first(p)
    <3>1. q = p
      BY <1>5, <2>1
    <3>2. HoldsFirst(p)' /\ d = first(p)'
      BY <1>1, <1>2, <2>1
    <3> QED
      BY <3>1, <3>2
  <2>2. CASE d # first(p)
    <3>1. disk_lock[d] = q
      BY <1>5, <2>2
    <3>2. \/ HoldsFirst(q) /\ d = first(q)
          \/ Updating(q) /\ d = second(q)
          \/ Stray(q) /\ d = loc[q].disk
      BY <3>1 DEF LockInv, HeldByNeed
    <3> QED
      BY <1>2, <1>3, <1>4, <3>2
  <2> QED
    BY <2>1, <2>2
<1> QED
  BY <1>8, <1>9 DEF LockInv

\* acquiresleep of the second disk.
LEMMA LockSecondLocks ==
    ASSUME DataInv, LockInv, NEW p \in Procs, LockSecond(p)
    PROVE  LockInv'
<1>1. /\ disk_lock' = [disk_lock EXCEPT ![second(p)] = p] /\ disk_lock[second(p)] = NoProc
      /\ first(p)' = first(p) /\ second(p)' = second(p)
  BY DEF LockSecond, first, second, LockOrder
<1>2. OnlyMoves(p) /\ HoldsFirst(p) /\ ~Updating(p)
      /\ HoldsFirst(p)' /\ Updating(p)'
  BY DEF LockSecond, At, Goto, OnlyMoves, DataInv, TypeOK, HoldsFirst, Updating, Critical
<1>3. first(p) \in Disks /\ second(p) \in Disks /\ first(p) # second(p) /\ ~Stray(p)
  BY <1>2, TwoDisks DEF LockSecond, At, Stray
<1>4. \A q \in Procs \ {p} : /\ HoldsFirst(q)' <=> HoldsFirst(q)
                             /\ Updating(q)' <=> Updating(q)
                             /\ first(q)' = first(q) /\ second(q)' = second(q)
                             /\ (Stray(q)' <=> Stray(q)) /\ loc'[q] = loc[q]
  BY <1>2, OthersStay
<1>5. \A d \in Disks : disk_lock'[d] = IF d = second(p) THEN p ELSE disk_lock[d]
  BY <1>1 DEF DataInv, TypeOK
<1>6. \A q \in Procs : HoldsFirst(q) => first(q) \in Disks
  BY TwoDisks
<1>7. \A q \in Procs : Updating(q) => HoldsFirst(q) /\ second(q) \in Disks
  BY TwoDisks DEF HoldsFirst
<1>8. FirstHeld' /\ SecondHeld'
  BY <1>1, <1>2, <1>3, <1>4, <1>5, <1>6, <1>7, NoProcAssumption
     DEF LockInv, FirstHeld, SecondHeld, HeldByNeed
<1>9. HeldByNeed'
  BY <1>1, <1>2, <1>3, <1>4, <1>5, NoProcAssumption
     DEF LockInv, FirstHeld, SecondHeld, HeldByNeed
<1> QED
  BY <1>8, <1>9 DEF LockInv

\* releasesleep of the second disk.
LEMMA UnlockSecondLocks ==
    ASSUME DataInv, LockInv, NEW p \in Procs, UnlockSecond(p)
    PROVE  LockInv'
<1>1. /\ disk_lock' = [disk_lock EXCEPT ![second(p)] = NoProc]
      /\ first(p)' = first(p) /\ second(p)' = second(p)
  BY DEF UnlockSecond, first, second, LockOrder
<1>2. OnlyMoves(p) /\ HoldsFirst(p) /\ Updating(p)
      /\ HoldsFirst(p)' /\ ~Updating(p)'
  BY DEF UnlockSecond, At, Goto, OnlyMoves, DataInv, TypeOK, HoldsFirst, Updating, Critical
<1>3. first(p) \in Disks /\ second(p) \in Disks /\ first(p) # second(p) /\ ~Stray(p)
  BY <1>2, TwoDisks DEF UnlockSecond, At, Stray
<1>4. \A q \in Procs \ {p} : /\ HoldsFirst(q)' <=> HoldsFirst(q)
                             /\ Updating(q)' <=> Updating(q)
                             /\ first(q)' = first(q) /\ second(q)' = second(q)
                             /\ (Stray(q)' <=> Stray(q)) /\ loc'[q] = loc[q]
  BY <1>2, OthersStay
<1>5. \A d \in Disks : disk_lock'[d] = IF d = second(p) THEN NoProc ELSE disk_lock[d]
  BY <1>1 DEF DataInv, TypeOK
<1>6. \A q \in Procs : HoldsFirst(q) => first(q) \in Disks
  BY TwoDisks
<1>7. \A q \in Procs : Updating(q) => HoldsFirst(q) /\ second(q) \in Disks
  BY TwoDisks DEF HoldsFirst
<1>8. FirstHeld' /\ SecondHeld'
  BY <1>1, <1>2, <1>3, <1>4, <1>5, <1>6, <1>7, NoProcAssumption
     DEF LockInv, FirstHeld, SecondHeld, HeldByNeed
<1>9. HeldByNeed'
  BY <1>1, <1>2, <1>3, <1>4, <1>5, NoProcAssumption
     DEF LockInv, FirstHeld, SecondHeld, HeldByNeed
<1> QED
  BY <1>8, <1>9 DEF LockInv

\* releasesleep of the first disk.
LEMMA UnlockFirstLocks ==
    ASSUME DataInv, LockInv, NEW p \in Procs, UnlockFirst(p)
    PROVE  LockInv'
<1>1. /\ disk_lock' = [disk_lock EXCEPT ![first(p)] = NoProc]
      /\ first(p)' = first(p) /\ second(p)' = second(p)
  BY DEF UnlockFirst, first, second, LockOrder
<1>2. OnlyMoves(p) /\ HoldsFirst(p) /\ ~Updating(p)
      /\ ~HoldsFirst(p)' /\ ~Updating(p)'
  BY DEF UnlockFirst, At, Goto, OnlyMoves, DataInv, TypeOK, HoldsFirst, Updating, Critical
<1>3. first(p) \in Disks /\ second(p) \in Disks /\ first(p) # second(p) /\ ~Stray(p)
  BY <1>2, TwoDisks DEF UnlockFirst, At, Stray
<1>4. \A q \in Procs \ {p} : /\ HoldsFirst(q)' <=> HoldsFirst(q)
                             /\ Updating(q)' <=> Updating(q)
                             /\ first(q)' = first(q) /\ second(q)' = second(q)
                             /\ (Stray(q)' <=> Stray(q)) /\ loc'[q] = loc[q]
  BY <1>2, OthersStay
<1>5. \A d \in Disks : disk_lock'[d] = IF d = first(p) THEN NoProc ELSE disk_lock[d]
  BY <1>1 DEF DataInv, TypeOK
<1>6. \A q \in Procs : HoldsFirst(q) => first(q) \in Disks
  BY TwoDisks
<1>7. \A q \in Procs : Updating(q) => HoldsFirst(q) /\ second(q) \in Disks
  BY TwoDisks DEF HoldsFirst
<1>8. FirstHeld' /\ SecondHeld'
  BY <1>1, <1>2, <1>3, <1>4, <1>5, <1>6, <1>7, NoProcAssumption
     DEF LockInv, FirstHeld, SecondHeld, HeldByNeed
<1>9. HeldByNeed'
  BY <1>1, <1>2, <1>3, <1>4, <1>5, NoProcAssumption
     DEF LockInv, FirstHeld, SecondHeld, HeldByNeed
<1> QED
  BY <1>8, <1>9 DEF LockInv

\* Every step preserves the lock invariant.
LEMMA LockStep ==
    ASSUME DataInv, LockInv, [Next \/ Reboot]_vars
    PROVE  LockInv'
<1>1. CASE Reboot
  BY <1>1, NoProcAssumption
     DEF Reboot, LockInv, FirstHeld, SecondHeld, HeldByNeed, HoldsFirst, Updating, Critical, Stray
<1>2. CASE UNCHANGED vars
  BY <1>2
     DEF vars, LockInv, FirstHeld, SecondHeld, HeldByNeed, HoldsFirst, Updating, Stray,
         first, second, LockOrder
<1>3. CASE Next
  <2> PICK p \in Procs : Invoke(p) \/ Step(p)
    BY <1>3 DEF Next
  <2>1. CASE LockFirst(p) \/ LockSecond(p) \/ UnlockSecond(p) \/ UnlockFirst(p)
    BY <2>1, LockFirstLocks, LockSecondLocks, UnlockSecondLocks, UnlockFirstLocks
  <2>2. CASE LockOutside(p)
    BY <2>2, LockOutsideLocks
  <2>3. CASE ~(LockFirst(p) \/ LockSecond(p) \/ UnlockSecond(p) \/ UnlockFirst(p))
             /\ ~LockOutside(p)
    <3>1. KeepsLocks(p)
      BY <2>3, load_metadataKeeps, get_disk_healthKeeps, TransferKeeps,
         raid_repair_diskKeeps, raid_system_infoKeeps, raid_system_initKeeps,
         raid_system_destroyKeeps, OtherKeeps, InvokeKeeps
         DEF Step
    <3> QED
      BY <3>1, KeepsLocksInv
  <2> QED
    BY <2>1, <2>2, <2>3
<1> QED
  BY <1>1, <1>2, <1>3

\* No disk is locked at boot.
LEMMA NoLocksAtBoot == ColdBoot \/ ReadyArray => LockInv
BY NoProcAssumption
   DEF ColdBoot, ReadyArray, LockInv, FirstHeld, SecondHeld, HeldByNeed, HoldsFirst,
       Updating, Critical

\* A disk has one lock and a lock one holder, so writers are apart.
LEMMA ApartFromInv == DataInv /\ LockInv => WritersApart
<1> SUFFICES ASSUME DataInv, LockInv, NEW p \in Procs, NEW q \in Procs, p # q,
                    Updating(p), Updating(q)
             PROVE  {loc[p].disk, loc[p].red} \intersect {loc[q].disk, loc[q].red} = {}
  BY DEF WritersApart
<1>1. HoldsFirst(p) /\ HoldsFirst(q)
  BY DEF HoldsFirst
<1>2. /\ {first(p), second(p)} = {loc[p].disk, loc[p].red}
      /\ {first(q), second(q)} = {loc[q].disk, loc[q].red}
  BY <1>1, TwoDisks
<1>3. \A d \in {first(p), second(p)} : disk_lock[d] = p
  BY <1>1 DEF LockInv, FirstHeld, SecondHeld
<1>4. \A d \in {first(q), second(q)} : disk_lock[d] = q
  BY <1>1 DEF LockInv, FirstHeld, SecondHeld
<1> QED
  BY <1>2, <1>3, <1>4

\* A lock has a holder that still has to release it.
LEMMA NoLeakFromInv == DataInv /\ LockInv => NoLockLeak
<1> SUFFICES ASSUME DataInv, LockInv, NEW d \in Disks, disk_lock[d] # NoProc
             PROVE  LET p == disk_lock[d]
                    IN  \/ /\ pc[p] \in Critical \union {"lock2", "write_row", "unlock1"}
                           /\ d \in {loc[p].disk, loc[p].red}
                        \/ Stray(p) /\ d = loc[p].disk
  BY DEF NoLockLeak, Stray
<1>1. PICK p \in Procs : disk_lock[d] = p
  BY DEF DataInv, TypeOK
<1>2. (HoldsFirst(p) /\ d \in {first(p), second(p)}) \/ (Stray(p) /\ d = loc[p].disk)
  BY <1>1 DEF LockInv, HeldByNeed, HoldsFirst
<1>3. HoldsFirst(p) => {first(p), second(p)} = {loc[p].disk, loc[p].red}
  BY TwoDisks
<1> QED
  BY <1>1, <1>2, <1>3 DEF HoldsFirst, Updating

-----------------------------------------------------------------------------
(* The lock theorems.                                                       *)

\* From power-on, a process of raid.c between acquiresleep and releasesleep holds
\* the locks of its two disks, and no other process holds any.
THEOREM ColdLocks == ColdSpec => [](DataInv /\ LockInv)
<1>1. DataInv /\ LockInv /\ [Next]_vars => LockInv'
  BY LockStep
<1>2. ColdBoot => LockInv
  BY NoLocksAtBoot
<1> QED
  BY <1>1, <1>2, ColdDataInv, PTL DEF ColdSpec

\* The same on a machine that may restart at any moment: the locks are in memory
\* and start free again.
THEOREM RebootLocks == RebootSpec => [](DataInv /\ LockInv)
<1>1. DataInv /\ LockInv /\ [Next \/ Reboot]_vars => LockInv'
  BY LockStep
<1>2. ReadyArray => LockInv
  BY NoLocksAtBoot
<1> QED
  BY <1>1, <1>2, RebootDataInv, PTL DEF RebootSpec

\* Two writers never update the same disk at the same time, so a parity or
\* mirror update is never interleaved with another one, however many processes
\* write and whatever fails, is rebuilt, destroyed or restarted meanwhile.
THEOREM WritersAlwaysApart == (ColdSpec \/ RebootSpec) => []WritersApart
BY ApartFromInv, ColdLocks, RebootLocks, PTL

\* A disk lock is held only by a writer on its way through the locked section:
\* no path out of rw_block or handle_rw_raid01 leaves one behind, but for the
\* writer of the block one past the end of a RAID1 array, which goes astray with
\* the lock of that block's primary, and no other.
THEOREM LocksNeverLeak == (ColdSpec \/ RebootSpec) => []NoLockLeak
BY NoLeakFromInv, ColdLocks, RebootLocks, PTL
=============================================================================
