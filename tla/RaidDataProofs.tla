--------------------------- MODULE RaidDataProofs ---------------------------
(***************************************************************************)
(* What the RAID layer guarantees to those who use it with the discipline  *)
(* that it needs: the kernel does not panic and no freed page is used, and *)
(* reads, healthy disks, mirrors and parity are never behind the writes.   *)
(* Module RaidProofs has what holds without any discipline.                *)
(***************************************************************************)
EXTENDS RaidProofs, FiniteSetTheorems

-----------------------------------------------------------------------------
(* No panic and no use after free.                                          *)

\* An array is made or destroyed only while nothing else runs; the block one
\* past the end, which max_blknum lets through, is not used; and a disk other
\* than the first is not repaired where parity arrays can exist.
Orderly ==
    /\ "destroy" \in QuietOps
    /\ \A c \in Calls : c.op \in {"read", "write"} =>
           \A sb \in Superblocks : Accepts(sb, c.block) => c.block \in Addresses(sb)
    /\ \A c \in Calls : c.op = "repair" /\ c.disk \in Disks /\ DISKS # 2 => c.disk = 1

DestroyLabels == {"destroy", "destroy_free", "destroy_flag", "destroy_null"}

\* Whoever destroys the array is alone.
AloneInv ==
    \A p, q \in Procs : pc[p] # "idle" /\ pc[q] # "idle" /\ call[p].op = "destroy" => p = q

\* The page that raid_device points to is not freed, but for the last steps of
\* raid_system_destroy.
PageInv ==
    /\ is_init = 1 => superblock # Null
    /\ superblock # Null /\ heap[superblock] = Freed =>
           \E p \in Procs : pc[p] \in {"destroy_flag", "destroy_null"}
    /\ \A p \in Procs : pc[p] = "destroy_null" => is_init = -1
    /\ \A p \in Procs : pc[p] = "init_flag" => superblock # Null

\* Of a process: its label is of its call, the page it points to is not freed,
\* the rows and disks of its transfer exist, and only disk 1 is rebuilt from
\* the others, in rounds that never read disk 0.
SafeLocal(l, c, r, h) ==
    /\ l # "wild"
    /\ l \in DestroyLabels => c.op = "destroy"
    /\ r.meta # Null => l # "idle" /\ c.op # "destroy" /\ h[r.meta] # Freed
    /\ l \in Addressed => r.blk \in Rows /\ (r.sb.raid_level # "RAID0" => r.red \in Disks)
    /\ l \in {"xor_read", "xor_write"} => DISKS # 2 /\ c.disk = 1
    /\ l = "xor_read" => r.j <= DISKS - 2

SafeInv ==
    /\ ~panicked /\ AloneInv /\ PageInv
    /\ \A p \in Procs : SafeLocal(pc[p], call[p], loc[p], heap)

\* What the lemmas take from the invariants about one process.
LEMMA OneProcess ==
    ASSUME DataInv, SafeInv, NEW p \in Procs
    PROVE  /\ pc[p] \in Labels /\ loc[p] \in LocalTypes /\ call[p] \in Calls \union {NoCall}
           /\ Fit(pc[p], call[p], loc[p], heap) /\ SafeLocal(pc[p], call[p], loc[p], heap)
  BY DEF DataInv, TypeOK, SafeInv

\* A step of p that leaves the device alone and ends in a safe place.
SafeMove(p) ==
    /\ OnlyMoves(p) /\ UNCHANGED <<is_init, superblock, heap, panicked, call>>
    /\ \/ pc'[p] = pc[p]
       \/ /\ pc[p] \notin {"idle", "destroy_flag", "destroy_null"}
          /\ pc'[p] \notin {"destroy_flag", "destroy_null", "init_flag"}
    /\ SafeLocal(pc'[p], call[p], loc'[p], heap)

\* Such a step preserves the invariant.
LEMMA SafeStep ==
    ASSUME DataInv, SafeInv, NEW p \in Procs, SafeMove(p)
    PROVE  SafeInv'
<1>1. ASSUME NEW q \in Procs, q # p PROVE pc'[q] = pc[q] /\ loc'[q] = loc[q]
  BY <1>1 DEF DataInv, TypeOK, SafeMove, OnlyMoves
<1>2. AloneInv'
  BY <1>1 DEF SafeInv, AloneInv, SafeMove
<1>3. PageInv'
  BY <1>1 DEF SafeInv, PageInv, SafeMove
<1>4. ASSUME NEW q \in Procs PROVE SafeLocal(pc'[q], call'[q], loc'[q], heap')
  BY <1>1 DEF SafeInv, SafeMove
<1> QED
  BY <1>2, <1>3, <1>4 DEF SafeInv, SafeMove

-----------------------------------------------------------------------------
(* The steps that leave the device alone, by system call.                   *)

USE DEF At, Goto, device, OnlyMoves, SafeMove, SafeLocal, LocalTypes, DestroyLabels, Addressed,
        WriteLabels, LoadLabels, RepairLabels, Fit, JobInv, DataInv, TypeOK

\* Loading the superblock, but for publishing it.
LEMMA load_metadataSafe ==
    ASSUME DataInv, SafeInv, NEW p \in Procs,
           LoadFast(p) \/ LoadCheck(p) \/ LoadRead(p) \/ LoadFinal(p)
    PROVE  SafeMove(p)
<1>0. /\ pc[p] \in Labels /\ loc[p] \in LocalTypes /\ Fit(pc[p], call[p], loc[p], heap)
      /\ SafeLocal(pc[p], call[p], loc[p], heap)
  BY OneProcess
<1>1. CASE LoadFast(p)
  <2>1. CASE is_init = 1 /\ superblock # Null
    BY <1>0, <1>1, <2>1 DEF LoadFast, Loaded, AfterLoad, Valid, Dereferenced
  <2>2. CASE ~(is_init = 1 /\ superblock # Null)
    BY <1>0, <1>1, <2>2 DEF LoadFast, Loaded, AfterLoad, Valid, Dereferenced
  <2> QED
    BY <2>1, <2>2
<1>2. CASE LoadCheck(p)
  BY <1>0, <1>2 DEF LoadCheck
<1>3. CASE LoadRead(p)
  BY <1>0, <1>3 DEF LoadRead, LoadFailed, Return
<1>4. CASE LoadFinal(p)
  BY <1>0, <1>4 DEF LoadFinal, Loaded, AfterLoad, LoadFailed, Return, Valid, Dereferenced
<1> QED
  BY <1>1, <1>2, <1>3, <1>4

\* Reading a health status.
LEMMA get_disk_healthSafe ==
    ASSUME DataInv, SafeInv, NEW p \in Procs,
           HealthRead(p) \/ HealthStore(p)
    PROVE  SafeMove(p)
<1>0. /\ pc[p] \in Labels /\ loc[p] \in LocalTypes /\ Fit(pc[p], call[p], loc[p], heap)
      /\ SafeLocal(pc[p], call[p], loc[p], heap)
  BY OneProcess
<1>1. CASE HealthRead(p)
  BY <1>0, <1>1 DEF HealthRead
<1>2. CASE HealthStore(p)
  BY <1>0, <1>2 DEF HealthStore
<1> QED
  BY <1>1, <1>2

\* Reading a block.
LEMMA ReadingSafe ==
    ASSUME DataInv, SafeInv, NEW p \in Procs,
           DataHealth(p) \/ PrimaryHealth(p) \/ MirrorHealth(p) \/ ReadRow(p)
    PROVE  SafeMove(p)
<1>0. /\ pc[p] \in Labels /\ loc[p] \in LocalTypes /\ Fit(pc[p], call[p], loc[p], heap)
      /\ SafeLocal(pc[p], call[p], loc[p], heap)
  BY OneProcess
<1>1. CASE DataHealth(p)
  BY <1>0, <1>1 DEF DataHealth, Return, IsRead
<1>2. CASE PrimaryHealth(p)
  BY <1>0, <1>2 DEF PrimaryHealth
<1>3. CASE MirrorHealth(p)
  <2>1. CASE Health(p) = "HEALTHY"
    <3>1. /\ OnlyMoves(p) /\ UNCHANGED <<is_init, superblock, heap, panicked, call>>
          /\ pc[p] = "mirror_health" /\ pc'[p] = "read_row" /\ loc'[p] = [loc[p] EXCEPT !.disk = loc[p].red]
      BY <1>0, <1>3, <2>1 DEF MirrorHealth
    <3>2. loc'[p].meta = loc[p].meta /\ loc'[p].blk = loc[p].blk /\ loc'[p].red = loc[p].red /\ loc'[p].sb = loc[p].sb
      BY <1>0, <3>1
    <3> QED
      BY <1>0, <3>1, <3>2
  <2>2. CASE ~(Health(p) = "HEALTHY")
    BY <1>0, <1>3, <2>2 DEF MirrorHealth, Return
  <2> QED
    BY <2>1, <2>2
<1>4. CASE ReadRow(p)
  BY <1>0, <1>4 DEF ReadRow
<1> QED
  BY <1>1, <1>2, <1>3, <1>4

\* The disk locks.
LEMMA LockingSafe ==
    ASSUME DataInv, SafeInv, NEW p \in Procs,
           LockFirst(p) \/ LockSecond(p) \/ UnlockSecond(p) \/ UnlockFirst(p)
    PROVE  SafeMove(p)
<1>0. /\ pc[p] \in Labels /\ loc[p] \in LocalTypes /\ Fit(pc[p], call[p], loc[p], heap)
      /\ SafeLocal(pc[p], call[p], loc[p], heap)
  BY OneProcess
<1>1. CASE LockFirst(p)
  BY <1>0, <1>1 DEF LockFirst
<1>2. CASE LockSecond(p)
  BY <1>0, <1>2 DEF LockSecond, Mirrored
<1>3. CASE UnlockSecond(p)
  BY <1>0, <1>3 DEF UnlockSecond
<1>4. CASE UnlockFirst(p)
  BY <1>0, <1>4 DEF UnlockFirst
<1> QED
  BY <1>1, <1>2, <1>3, <1>4

\* Writing a block.
LEMMA WritingSafe ==
    ASSUME DataInv, SafeInv, NEW p \in Procs,
           WritePrimaryHealth(p) \/ WriteMirrorHealth(p) \/ WritePrimary(p) \/ WriteMirror(p) \/ ReadOld(p) \/ ReadParity(p) \/ WriteParity(p) \/ WriteRow(p)
    PROVE  SafeMove(p)
<1>0. /\ pc[p] \in Labels /\ loc[p] \in LocalTypes /\ Fit(pc[p], call[p], loc[p], heap)
      /\ SafeLocal(pc[p], call[p], loc[p], heap)
  BY OneProcess
<1>1. CASE WritePrimaryHealth(p)
  BY <1>0, <1>1 DEF WritePrimaryHealth
<1>2. CASE WriteMirrorHealth(p)
  <2>1. CASE Health(p) = "HEALTHY"
    BY <1>0, <1>2, <2>1 DEF WriteMirrorHealth
  <2>2. CASE ~(Health(p) = "HEALTHY")
    <3>1. /\ OnlyMoves(p) /\ UNCHANGED <<is_init, superblock, heap, panicked, call>>
          /\ pc[p] = "wmirror_health" /\ pc'[p] = "unlock2" /\ loc'[p] = [loc[p] EXCEPT !.ret = -1]
      BY <1>0, <1>2, <2>2 DEF WriteMirrorHealth
    <3>2. loc'[p].meta = loc[p].meta /\ loc'[p].blk = loc[p].blk /\ loc'[p].red = loc[p].red /\ loc'[p].sb = loc[p].sb
      BY <1>0, <3>1
    <3> QED
      BY <1>0, <3>1, <3>2
  <2> QED
    BY <2>1, <2>2
<1>3. CASE WritePrimary(p)
  BY <1>0, <1>3 DEF WritePrimary
<1>4. CASE WriteMirror(p)
  BY <1>0, <1>4 DEF WriteMirror
<1>5. CASE ReadOld(p)
  BY <1>0, <1>5 DEF ReadOld
<1>6. CASE ReadParity(p)
  BY <1>0, <1>6 DEF ReadParity
<1>7. CASE WriteParity(p)
  BY <1>0, <1>7 DEF WriteParity
<1>8. CASE WriteRow(p)
  BY <1>0, <1>8 DEF WriteRow
<1> QED
  BY <1>1, <1>2, <1>3, <1>4, <1>5, <1>6, <1>7, <1>8

\* Failing a disk.
LEMMA raid_fail_diskSafe ==
    ASSUME DataInv, SafeInv, NEW p \in Procs,
           raid_fail_disk(p)
    PROVE  SafeMove(p)
<1>0. /\ pc[p] \in Labels /\ loc[p] \in LocalTypes /\ Fit(pc[p], call[p], loc[p], heap)
      /\ SafeLocal(pc[p], call[p], loc[p], heap)
  BY OneProcess
<1>1. CASE raid_fail_disk(p)
  <2>1. CASE call[p].disk \in Disks
    BY <1>0, <1>1, <2>1 DEF raid_fail_disk, Return
  <2>2. CASE ~(call[p].disk \in Disks)
    BY <1>0, <1>1, <2>2 DEF raid_fail_disk, Return
  <2> QED
    BY <2>1, <2>2
<1> QED
  BY <1>1

\* Repairing a disk, up to the decision how.
LEMMA RepairSafe ==
    ASSUME DataInv, SafeInv, NEW p \in Procs,
           RepairHealth(p) \/ RepairCount(p) \/ RepairSuperblock(p)
    PROVE  SafeMove(p)
<1>0. /\ pc[p] \in Labels /\ loc[p] \in LocalTypes /\ Fit(pc[p], call[p], loc[p], heap)
      /\ SafeLocal(pc[p], call[p], loc[p], heap)
  BY OneProcess
<1>1. CASE RepairHealth(p)
  <2>1. \/ pc'[p] = "done" /\ (loc'[p] = [loc[p] EXCEPT !.ret = -2] \/ loc'[p] = [loc[p] EXCEPT !.ret = 0])
        \/ pc'[p] = "repair_count" /\ loc'[p] = loc[p]
    BY <1>0, <1>1 DEF RepairHealth, Return
  <2>2. loc'[p].meta = loc[p].meta
    BY <1>0, <2>1
  <2>3. pc[p] = "repair" /\ UNCHANGED <<is_init, superblock, heap, panicked, call>>
    BY <1>1 DEF RepairHealth
  <2>4. OnlyMoves(p)
    <3>1. CASE call[p].disk \in Disks /\ Health(p) # "HEALTHY"
      <4>1. pc' = [pc EXCEPT ![p] = "repair_count"] /\ loc' = loc
        BY <1>1, <3>1 DEF RepairHealth
      <4> QED
        BY <4>1
    <3>2. CASE call[p].disk \notin Disks
      BY <1>0, <1>1, <3>2 DEF RepairHealth, Return
    <3>3. CASE call[p].disk \in Disks /\ Health(p) = "HEALTHY"
      BY <1>0, <1>1, <3>3 DEF RepairHealth, Return
    <3> QED
      BY <3>1, <3>2, <3>3
  <2> QED
    BY <1>0, <2>1, <2>2, <2>3, <2>4
<1>2. CASE RepairCount(p)
  BY <1>0, <1>2 DEF RepairCount
<1>3. CASE RepairSuperblock(p)
  BY <1>0, <1>3 DEF RepairSuperblock
<1> QED
  BY <1>1, <1>2, <1>3

\* Rebuilding a disk.
LEMMA CopyingSafe ==
    ASSUME DataInv, SafeInv, NEW p \in Procs,
           PartnerHealth(p) \/ CopyRead(p) \/ CopyWrite(p) \/ XorWrite(p) \/ RepairDone(p)
    PROVE  SafeMove(p)
<1>0. /\ pc[p] \in Labels /\ loc[p] \in LocalTypes /\ Fit(pc[p], call[p], loc[p], heap)
      /\ SafeLocal(pc[p], call[p], loc[p], heap)
  BY OneProcess
<1>1. CASE PartnerHealth(p)
  BY <1>0, <1>1 DEF PartnerHealth, Return
<1>2. CASE CopyRead(p)
  BY <1>0, <1>2 DEF CopyRead
<1>3. CASE CopyWrite(p)
  BY <1>0, <1>3 DEF CopyWrite
<1>4. CASE XorWrite(p)
  <2>1. CASE loc[p].i = LastRow
    BY <1>0, <1>4, <2>1 DEF XorWrite
  <2>2. CASE ~(loc[p].i = LastRow)
    <3>1. /\ OnlyMoves(p) /\ UNCHANGED <<is_init, superblock, heap, panicked, call>>
          /\ pc[p] = "xor_write" /\ pc'[p] = "xor_read" /\ loc'[p] = [loc[p] EXCEPT !.i = loc[p].i + 1, !.j = 0]
      BY <1>0, <1>4, <2>2 DEF XorWrite
    <3>2. loc'[p].meta = loc[p].meta /\ loc'[p].j = 0 /\ 0 <= DISKS - 2
      BY <1>0, <3>1, DisksAssumption
    <3> QED
      BY <1>0, <3>1, <3>2
  <2> QED
    BY <2>1, <2>2
<1>5. CASE RepairDone(p)
  BY <1>0, <1>5 DEF RepairDone, Return
<1> QED
  BY <1>1, <1>2, <1>3, <1>4, <1>5

\* Querying the array.
LEMMA raid_system_infoSafe ==
    ASSUME DataInv, SafeInv, NEW p \in Procs,
           InfoHealth(p) \/ InfoCopy(p)
    PROVE  SafeMove(p)
<1>0. /\ pc[p] \in Labels /\ loc[p] \in LocalTypes /\ Fit(pc[p], call[p], loc[p], heap)
      /\ SafeLocal(pc[p], call[p], loc[p], heap)
  BY OneProcess
<1>1. CASE InfoHealth(p)
  BY <1>0, <1>1 DEF InfoHealth, Return
<1>2. CASE InfoCopy(p)
  BY <1>0, <1>2 DEF InfoCopy
<1> QED
  BY <1>1, <1>2

\* Writing the superblocks of a new array, and of none.
LEMMA InitSafe ==
    ASSUME DataInv, SafeInv, NEW p \in Procs,
           InitCheck(p) \/ InitWrite(p) \/ DestroyWrite(p)
    PROVE  SafeMove(p)
<1>0. /\ pc[p] \in Labels /\ loc[p] \in LocalTypes /\ Fit(pc[p], call[p], loc[p], heap)
      /\ SafeLocal(pc[p], call[p], loc[p], heap)
  BY OneProcess
<1>1. CASE InitCheck(p)
  <2>1. \/ pc'[p] = "done" /\ (loc'[p] = [loc[p] EXCEPT !.ret = -1] \/ loc'[p] = [loc[p] EXCEPT !.ret = -2])
        \/ pc'[p] = "init_write" /\ loc'[p] = [loc[p] EXCEPT !.sb = Superblock(call[p].level)]
    BY <1>0, <1>1 DEF InitCheck, Return
  <2>2. loc'[p].meta = loc[p].meta
    BY <1>0, <2>1
  <2>3. pc[p] = "init" /\ OnlyMoves(p) /\ UNCHANGED <<is_init, superblock, heap, panicked, call>>
    BY <1>0, <1>1 DEF InitCheck, Return
  <2> QED
    BY <1>0, <2>1, <2>2, <2>3
<1>2. CASE InitWrite(p)
  BY <1>0, <1>2 DEF InitWrite
<1>3. CASE DestroyWrite(p)
  BY <1>0, <1>3 DEF DestroyWrite
<1> QED
  BY <1>1, <1>2, <1>3

\* What the validity check lets through lies on the disks.
LEMMA rw_blockSafe ==
    ASSUME DataInv, SafeInv, Orderly, NEW p \in Procs, rw_block(p)
    PROVE  SafeMove(p)
<1> DEFINE m == heap[loc[p].meta]
           b == call[p].block
           red == IF m.raid_level = "RAID0" THEN 0 ELSE RedundantDisk(m, b)
<1>0. /\ pc[p] \in Labels /\ loc[p] \in LocalTypes /\ call[p] \in Calls \union {NoCall}
      /\ Fit(pc[p], call[p], loc[p], heap) /\ SafeLocal(pc[p], call[p], loc[p], heap)
  BY OneProcess
<1>1. m \in Superblocks /\ b \in Nat /\ call[p] \in Calls /\ call[p].op \in {"read", "write"}
  <2>1. pc[p] = "rw" /\ Valid(p)
    BY DEF rw_block
  <2>2. loc[p].meta \in 1 .. Pages /\ heap[loc[p].meta] # Unused /\ call[p].op \in {"read", "write"}
    BY <1>0, <2>1 DEF SuperblockInv
  <2>3. heap[loc[p].meta] # Freed
    BY <2>1, <2>2, NullAssumption DEF Valid, Dereferenced
  <2>4. m \in Superblocks
    BY <2>2, <2>3
  <2>5. call[p] \in Calls
    BY <1>0, <2>2 DEF NoCall
  <2>6. b \in Nat
    BY <2>2, <2>5, CallsAssumption
  <2> QED
    BY <2>2, <2>4, <2>5, <2>6
<1>2. CASE ~Accepts(m, b)
  BY <1>0, <1>2 DEF rw_block, Return
<1>3. CASE Accepts(m, b)
  <2>1. b \in Addresses(m)
    BY <1>1, <1>3 DEF Orderly
  <2>2. blkc_num(m, b) \in Rows /\ (m.raid_level # "RAID0" => red \in Disks)
    BY <1>1, <2>1, LocationInRange DEF Home, Redundant
  <2>3. /\ loc' = [loc EXCEPT ![p] = [loc[p] EXCEPT !.disk = disk_num(m, b), !.blk = blkc_num(m, b), !.red = red, !.sb = m]]
        /\ pc' = [pc EXCEPT ![p] = pc'[p]] /\ pc[p] = "rw"
        /\ pc'[p] \in {"data_health", "primary_health", "lock1"}
        /\ UNCHANGED <<is_init, superblock, heap, panicked, call>>
    <3>1. /\ loc' = [loc EXCEPT ![p].disk = disk_num(m, b), ![p].blk = blkc_num(m, b), ![p].red = red, ![p].sb = m]
          /\ pc[p] = "rw" /\ UNCHANGED <<is_init, superblock, heap, panicked, call>>
      BY <1>3 DEF rw_block
    <3>2. pc' = [pc EXCEPT ![p] = pc'[p]] /\ pc'[p] \in {"data_health", "primary_health", "lock1"}
      BY <1>0, <1>3 DEF rw_block
    <3> HIDE DEF m, b, red
    <3> QED
      BY <1>0, <3>1, <3>2
  <2>4. /\ loc'[p].meta = loc[p].meta /\ loc'[p].blk = blkc_num(m, b) /\ loc'[p].red = red /\ loc'[p].sb = m
        /\ loc' = [loc EXCEPT ![p] = loc'[p]]
    BY <1>0, <2>3
  <2> HIDE DEF m, b, red
  <2> QED
    BY <1>0, <2>2, <2>3, <2>4
<1> QED
  BY <1>2, <1>3

\* Only disk 1 of a parity array is rebuilt.
LEMMA handle_recoverySafe ==
    ASSUME DataInv, SafeInv, Orderly, NEW p \in Procs, handle_recovery(p)
    PROVE  SafeMove(p)
<1>0. /\ pc[p] \in Labels /\ loc[p] \in LocalTypes /\ call[p] \in Calls \union {NoCall}
      /\ Fit(pc[p], call[p], loc[p], heap) /\ SafeLocal(pc[p], call[p], loc[p], heap)
  BY OneProcess
<1>1. pc[p] = "repair_mark" /\ UNCHANGED <<is_init, superblock, heap, panicked, call>>
  BY DEF handle_recovery
<1>2. CASE Refused(p)
  BY <1>0, <1>1, <1>2 DEF handle_recovery, Return
<1>3. CASE ~Refused(p) /\ loc[p].sb.raid_level \in Mirrored
  <2>1. /\ pc' = [pc EXCEPT ![p] = "partner_health"]
        /\ loc' = [loc EXCEPT ![p].red = RecoveryPartner(loc[p].sb, call[p].disk), ![p].i = 0]
    BY <1>3 DEF handle_recovery, Mirrored, Parity
  <2>2. OnlyMoves(p) /\ pc'[p] = "partner_health" /\ loc'[p].meta = loc[p].meta
    BY <1>0, <2>1
  <2> QED
    BY <1>0, <1>1, <2>2
<1>4. CASE ~Refused(p) /\ loc[p].sb.raid_level \in Parity
  <2>1. loc[p].sb \in Superblocks
    BY <1>0, <1>4 DEF Refused
  <2>2. DISKS # 2
    BY <1>4, <2>1 DEF Superblocks, Superblock, Supported
  <2>3. call[p].disk = 1
    BY <1>0, <1>1, <2>2 DEF Orderly, NoCall
  <2>4. /\ pc' = [pc EXCEPT ![p] = "xor_read"]
        /\ loc' = [loc EXCEPT ![p].i = 1, ![p].j = 0]
    BY <1>4 DEF handle_recovery, Mirrored, Parity
  <2>5. OnlyMoves(p) /\ pc'[p] = "xor_read" /\ loc'[p].meta = loc[p].meta /\ loc'[p].j = 0
    BY <1>0, <2>4
  <2>6. 0 <= DISKS - 2
    BY DisksAssumption
  <2> QED
    BY <1>0, <1>1, <2>2, <2>3, <2>5, <2>6
<1> QED
  BY <1>0, <1>2, <1>3, <1>4, SuperblockFields DEF Refused, RAID_TYPE, Mirrored, Parity

\* The rounds of the rebuild of disk 1 do not reach disk 0.
LEMMA XorReadSafe ==
    ASSUME DataInv, SafeInv, NEW p \in Procs, XorRead(p)
    PROVE  SafeMove(p)
<1>0. /\ pc[p] \in Labels /\ loc[p] \in LocalTypes
      /\ Fit(pc[p], call[p], loc[p], heap) /\ SafeLocal(pc[p], call[p], loc[p], heap)
  BY OneProcess
<1>1. RecoverySource(call[p].disk, loc[p].j) # 0
  <2>1. call[p].disk = 1 /\ loc[p].j \in 0 .. (DISKS - 2)
    BY <1>0, DisksAssumption DEF XorRead
  <2> QED
    BY <2>1, SourceOfDisk1
<1>2. PICK v : /\ pc[p] = "xor_read" /\ loc' = [loc EXCEPT ![p] = [loc[p] EXCEPT !.buf = v, !.j = loc[p].j + 1]]
               /\ pc' = [pc EXCEPT ![p] = IF loc[p].j = DISKS - 2 THEN "xor_write" ELSE "xor_read"]
               /\ UNCHANGED <<is_init, superblock, heap, panicked, call>>
  <2> DEFINE source == RecoverySource(call[p].disk, loc[p].j)
             v == IF loc[p].j = 0 THEN rows[source][loc[p].i] ELSE Xor(loc[p].buf, rows[source][loc[p].i])
  <2>1. /\ pc[p] = "xor_read" /\ loc' = [loc EXCEPT ![p].buf = v, ![p].j = loc[p].j + 1]
        /\ pc' = [pc EXCEPT ![p] = IF loc[p].j = DISKS - 2 THEN "xor_write" ELSE "xor_read"]
        /\ UNCHANGED <<is_init, superblock, heap, panicked, call>>
    BY <1>1 DEF XorRead
  <2> HIDE DEF v
  <2> QED
    BY <1>0, <2>1
<1>3. loc'[p].meta = loc[p].meta /\ loc'[p].j = loc[p].j + 1 /\ loc' = [loc EXCEPT ![p] = loc'[p]]
  BY <1>0, <1>2
<1>4. loc[p].j \in Nat /\ loc[p].j <= DISKS - 2 /\ DISKS \in Nat
  BY <1>0, <1>2, DisksAssumption
<1> QED
  BY <1>0, <1>2, <1>3, <1>4

-----------------------------------------------------------------------------
(* The steps that change the device.                                        *)

\* A step of p that frees no page preserves the invariant if it leaves p and
\* the device in order.
LEMMA SafeUpdate ==
    ASSUME DataInv, SafeInv, NEW p \in Procs, pc[p] # "idle", OnlyMoves(p),
           UNCHANGED <<panicked, call>>, PageInv', SafeLocal(pc'[p], call[p], loc'[p], heap'),
           \A g \in 1 .. Pages : heap[g] # Freed => heap'[g] # Freed
    PROVE  SafeInv'
<1>1. ASSUME NEW q \in Procs, q # p PROVE pc'[q] = pc[q] /\ loc'[q] = loc[q]
  BY <1>1
<1>2. AloneInv'
  <2>1. ASSUME NEW q \in Procs, pc'[q] # "idle" PROVE pc[q] # "idle" /\ call'[q] = call[q]
    BY <1>1, <2>1
  <2> QED
    BY <2>1 DEF SafeInv, AloneInv
<1>3. ASSUME NEW q \in Procs PROVE SafeLocal(pc'[q], call'[q], loc'[q], heap')
  <2>1. CASE q = p
    BY <2>1
  <2>2. CASE q # p
    <3>1. SafeLocal(pc[q], call[q], loc[q], heap) /\ loc[q].meta \in (1 .. Pages) \union {Null}
      BY OneProcess
    <3> QED
      BY <1>1, <2>2, <3>1
  <2> QED
    BY <2>1, <2>2
<1> QED
  BY <1>2, <1>3 DEF SafeInv

\* A new page holds a superblock.
LEMMA NewPageFresh ==
    ASSUME FreshPages # {}
    PROVE  NewPage \in 1 .. Pages /\ heap[NewPage] = Unused /\ NewPage # Null
  BY NullAssumption DEF NewPage, FreshPages

\* load_metadata publishes what it has read.
LEMMA LoadCommitSafe ==
    ASSUME DataInv, SafeInv, NEW p \in Procs, LoadCommit(p)
    PROVE  SafeInv'
<1>0. /\ pc[p] \in Labels /\ loc[p] \in LocalTypes
      /\ Fit(pc[p], call[p], loc[p], heap) /\ SafeLocal(pc[p], call[p], loc[p], heap)
  BY OneProcess
<1>1. pc[p] = "lm_commit" /\ pc'[p] = "lm_final" /\ OnlyMoves(p) /\ UNCHANGED <<panicked, call, loc>>
  BY <1>0 DEF LoadCommit
<1>2. CASE superblock = Null \/ is_init = -1
  <2>1. PICK g \in 1 .. Pages : g # Null /\ superblock' = g /\ heap' = [heap EXCEPT ![g] = loc[p].sb]
    BY <1>2, NewPageFresh DEF LoadCommit
  <2>2. loc[p].sb # Freed
    BY <1>0, <1>1, FreedAssumption DEF SuperblockInv
  <2>3. \A h \in 1 .. Pages : heap[h] # Freed => heap'[h] # Freed
    BY <2>1, <2>2
  <2>4. PageInv'
    <3>1. superblock' # Null /\ heap'[superblock'] # Freed
      BY <2>1, <2>2
    <3>2. ASSUME NEW q \in Procs, pc'[q] = "destroy_null" PROVE FALSE
      <4>1. q # p /\ pc[q] = "destroy_null"
        BY <1>1, <3>2
      <4>2. call[q].op = "destroy"
        BY <4>1, OneProcess
      <4> QED
        BY <1>1, <4>1, <4>2 DEF SafeInv, AloneInv
    <3> QED
      BY <3>1, <3>2 DEF PageInv
  <2>5. SafeLocal(pc'[p], call[p], loc'[p], heap')
    <3>1. loc[p].meta \in (1 .. Pages) \union {Null} /\ loc'[p] = loc[p]
      BY <1>0, <1>1
    <3> QED
      BY <1>0, <1>1, <2>3, <3>1
  <2> QED
    BY <1>1, <2>3, <2>4, <2>5, SafeUpdate
<1>3. CASE ~(superblock = Null \/ is_init = -1)
  <2>1. UNCHANGED <<is_init, superblock, heap>>
    BY <1>3 DEF LoadCommit
  <2>2. SafeMove(p)
    BY <1>0, <1>1, <2>1
  <2> QED
    BY <2>2, SafeStep
<1> QED
  BY <1>2, <1>3

\* raid_system_init publishes the superblock that it has built.
LEMMA InitPublishSafe ==
    ASSUME DataInv, SafeInv, NEW p \in Procs, InitPublish(p)
    PROVE  SafeInv'
<1>0. /\ pc[p] \in Labels /\ loc[p] \in LocalTypes
      /\ Fit(pc[p], call[p], loc[p], heap) /\ SafeLocal(pc[p], call[p], loc[p], heap)
  BY OneProcess
<1>1. /\ pc[p] = "init_publish" /\ pc'[p] = "init_flag" /\ OnlyMoves(p)
      /\ UNCHANGED <<panicked, call, loc, is_init>>
  BY <1>0 DEF InitPublish
<1>2. PICK g \in 1 .. Pages : g # Null /\ superblock' = g /\ heap' = [heap EXCEPT ![g] = loc[p].sb]
  BY NewPageFresh DEF InitPublish
<1>3. loc[p].sb # Freed
  BY <1>0, <1>1, FreedAssumption DEF SuperblockInv
<1>4. \A h \in 1 .. Pages : heap[h] # Freed => heap'[h] # Freed
  BY <1>2, <1>3
<1>5. PageInv'
  <2>1. superblock' # Null /\ heap'[superblock'] # Freed
    BY <1>2, <1>3
  <2>2. ASSUME NEW q \in Procs, pc'[q] = "destroy_null" PROVE FALSE
    <3>1. q # p /\ pc[q] = "destroy_null"
      BY <1>1, <2>2
    <3>2. call[q].op = "destroy"
      BY <3>1, OneProcess
    <3> QED
      BY <1>1, <3>1, <3>2 DEF SafeInv, AloneInv
  <2> QED
    BY <2>1, <2>2 DEF PageInv
<1>6. SafeLocal(pc'[p], call[p], loc'[p], heap')
  <2>1. loc[p].meta \in (1 .. Pages) \union {Null} /\ loc'[p] = loc[p]
    BY <1>0, <1>1
  <2> QED
    BY <1>0, <1>1, <1>4, <2>1
<1> QED
  BY <1>1, <1>4, <1>5, <1>6, SafeUpdate

\* raid_system_init takes the array into service.
LEMMA InitFlagSafe ==
    ASSUME DataInv, SafeInv, NEW p \in Procs, InitFlag(p)
    PROVE  SafeInv'
<1>0. /\ pc[p] \in Labels /\ loc[p] \in LocalTypes
      /\ Fit(pc[p], call[p], loc[p], heap) /\ SafeLocal(pc[p], call[p], loc[p], heap)
  BY OneProcess
<1>1. /\ pc[p] = "init_flag" /\ pc'[p] = "done" /\ OnlyMoves(p) /\ is_init' = 1
      /\ UNCHANGED <<panicked, call, superblock, heap>> /\ loc'[p] = [loc[p] EXCEPT !.ret = 0]
  BY <1>0 DEF InitFlag, Return
<1>2. PageInv'
  <2>1. ASSUME NEW q \in Procs, pc'[q] # pc[q] PROVE q = p
    BY <1>1, <2>1
  <2>2. superblock # Null
    BY <1>1 DEF SafeInv, PageInv
  <2>3. ASSUME NEW q \in Procs, pc[q] \in {"destroy_flag", "destroy_null"} PROVE FALSE
    <3>1. call[q].op = "destroy" /\ q # p
      BY <1>1, <2>3, OneProcess
    <3> QED
      BY <1>1, <2>3, <3>1 DEF SafeInv, AloneInv
  <2> QED
    BY <1>1, <2>1, <2>2, <2>3 DEF SafeInv, PageInv
<1>3. SafeLocal(pc'[p], call[p], loc'[p], heap')
  <2>1. loc'[p].meta = loc[p].meta
    BY <1>0, <1>1
  <2> QED
    BY <1>0, <1>1, <2>1
<1> QED
  BY <1>1, <1>2, <1>3, SafeUpdate

\* Whoever destroys the array finds the other processes idle.
LEMMA DestroyerAlone ==
    ASSUME DataInv, SafeInv, NEW p \in Procs, pc[p] \in DestroyLabels, NEW q \in Procs, q # p
    PROVE  pc[q] = "idle"
<1>1. call[p].op = "destroy" /\ pc[p] # "idle"
  BY OneProcess
<1> QED
  BY <1>1 DEF SafeInv, AloneInv

\* A step of the process that destroys the array.
LEMMA DestroyStep ==
    ASSUME DataInv, SafeInv, NEW p \in Procs, pc[p] \in DestroyLabels, OnlyMoves(p),
           UNCHANGED <<panicked, call>>, loc'[p].meta = loc[p].meta, PageInv',
           pc'[p] \in DestroyLabels \union {"done"}
    PROVE  SafeInv'
<1>0. SafeLocal(pc[p], call[p], loc[p], heap)
  BY OneProcess
<1>1. ASSUME NEW q \in Procs, q # p PROVE pc[q] = "idle" /\ pc'[q] = "idle" /\ loc'[q] = loc[q]
  <2>1. pc'[q] = pc[q] /\ loc'[q] = loc[q]
    BY <1>1
  <2>2. pc[q] = "idle"
    BY <1>1, DestroyerAlone
  <2> QED
    BY <2>1, <2>2
<1>2. AloneInv'
  BY <1>1 DEF AloneInv
<1>3. ASSUME NEW q \in Procs PROVE SafeLocal(pc'[q], call'[q], loc'[q], heap')
  <2>1. CASE q = p
    BY <1>0, <2>1
  <2>2. CASE q # p
    <3>1. SafeLocal(pc[q], call[q], loc[q], heap)
      BY OneProcess
    <3> QED
      BY <1>1, <2>2, <3>1
  <2> QED
    BY <2>1, <2>2
<1> QED
  BY <1>2, <1>3 DEF SafeInv

\* The page goes back to the allocator: it is there, as is_init says.
LEMMA DestroyFreeSafe ==
    ASSUME DataInv, SafeInv, NEW p \in Procs, DestroyFree(p)
    PROVE  SafeInv'
<1>0. /\ pc[p] \in Labels /\ loc[p] \in LocalTypes
      /\ Fit(pc[p], call[p], loc[p], heap) /\ SafeLocal(pc[p], call[p], loc[p], heap)
  BY OneProcess
<1>1. is_init # -1 => superblock # Null
  BY DEF SafeInv, PageInv
<1>2. /\ pc[p] = "destroy_free" /\ pc'[p] = "destroy_flag" /\ OnlyMoves(p)
      /\ UNCHANGED <<panicked, call, loc, is_init, superblock>>
  BY <1>0, <1>1 DEF DestroyFree
<1>3. PageInv'
  <2>1. ASSUME NEW q \in Procs, pc'[q] \in {"destroy_null", "init_flag"} PROVE FALSE
    BY <1>2, <2>1, DestroyerAlone
  <2> QED
    BY <1>1, <1>2, <2>1 DEF PageInv
<1> QED
  BY <1>2, <1>3, DestroyStep

\* The array is out of service.
LEMMA DestroyFlagSafe ==
    ASSUME DataInv, SafeInv, NEW p \in Procs, DestroyFlag(p)
    PROVE  SafeInv'
<1>1. /\ pc[p] = "destroy_flag" /\ pc'[p] = "destroy_null" /\ OnlyMoves(p)
      /\ UNCHANGED <<panicked, call, loc, superblock>> /\ is_init' = -1
  BY DEF DestroyFlag, NotInit
<1>2. PageInv'
  <2>1. ASSUME NEW q \in Procs, pc'[q] = "init_flag" PROVE FALSE
    BY <1>1, <2>1, DestroyerAlone
  <2> QED
    BY <1>1, <2>1 DEF PageInv
<1> QED
  BY <1>1, <1>2, DestroyStep

\* The pointer to the freed page goes last.
LEMMA DestroyNullSafe ==
    ASSUME DataInv, SafeInv, NEW p \in Procs, DestroyNull(p)
    PROVE  SafeInv'
<1>0. loc[p] \in LocalTypes
  BY OneProcess
<1>1. /\ pc[p] = "destroy_null" /\ pc'[p] = "done" /\ OnlyMoves(p)
      /\ UNCHANGED <<panicked, call, is_init>> /\ superblock' = Null
      /\ loc'[p] = [loc[p] EXCEPT !.ret = 0]
  BY DEF DestroyNull, Return
<1>2. loc'[p].meta = loc[p].meta
  BY <1>0, <1>1
<1>3. PageInv'
  <2>1. ASSUME NEW q \in Procs, pc'[q] \in {"init_flag", "destroy_null"} PROVE FALSE
    BY <1>1, <2>1, DestroyerAlone
  <2>2. is_init = -1
    BY <1>1 DEF SafeInv, PageInv
  <2> QED
    BY <1>1, <2>1, <2>2 DEF PageInv
<1> QED
  BY <1>1, <1>2, <1>3, DestroyStep

-----------------------------------------------------------------------------
(* What does not happen, and where calls begin and end.                     *)

\* No transfer leaves the disk, and no lock outside the array is taken.
LEMMA TransfersInside ==
    ASSUME DataInv, SafeInv, NEW p \in Procs
    PROVE  ~OffDisk(p) /\ ~LockOutside(p)
<1>1. Fit(pc[p], call[p], loc[p], heap) /\ SafeLocal(pc[p], call[p], loc[p], heap)
  BY OneProcess
<1>2. ~OffDisk(p)
  BY <1>1 DEF OffDisk, OnDisk
<1>3. ~LockOutside(p)
  BY <1>1 DEF LockOutside, AddressInv, second, LockOrder
<1> QED
  BY <1>2, <1>3

\* No freed page is used.
LEMMA NoUseAfterFree ==
    ASSUME DataInv, SafeInv, NEW p \in Procs
    PROVE  Valid(p)
<1>0. /\ pc[p] \in Labels /\ Fit(pc[p], call[p], loc[p], heap)
      /\ SafeLocal(pc[p], call[p], loc[p], heap)
  BY OneProcess
<1>1. CASE pc[p] \in {"lm_fast", "lm_final", "destroy_free"}
  <2>1. \A q \in Procs : pc[q] \notin {"destroy_flag", "destroy_null"}
    <3> SUFFICES ASSUME NEW q \in Procs, pc[q] \in {"destroy_flag", "destroy_null"} PROVE FALSE
      OBVIOUS
    <3>1. q # p
      BY <1>1
    <3> QED
      BY <1>1, <3>1, DestroyerAlone
  <2>2. superblock # Null => heap[superblock] # Freed
    BY <2>1 DEF SafeInv, PageInv
  <2>3. Dereferenced(p) \in {superblock, Null}
    BY <1>1 DEF Dereferenced
  <2> QED
    BY <2>2, <2>3 DEF Valid
<1>2. CASE pc[p] \notin {"lm_fast", "lm_final", "destroy_free"}
  <2>1. Dereferenced(p) \in {loc[p].meta, Null}
    BY <1>2 DEF Dereferenced
  <2> QED
    BY <1>0, <2>1 DEF Valid
<1> QED
  BY <1>1, <1>2

\* The state of a process between two calls.
LEMMA IdleSafe == ASSUME NEW c, NEW h PROVE SafeLocal("idle", c, Locals, h)
  BY DEF Locals

\* A system call returns.
LEMMA FinishSafe ==
    ASSUME DataInv, SafeInv, NEW p \in Procs, Finish(p)
    PROVE  SafeInv'
<1>1. /\ pc[p] = "done" /\ pc' = [pc EXCEPT ![p] = "idle"] /\ loc' = [loc EXCEPT ![p] = Locals]
      /\ call' = [call EXCEPT ![p] = NoCall] /\ UNCHANGED <<panicked, is_init, superblock, heap>>
  BY DEF Finish
<1>2. ASSUME NEW q \in Procs, q # p PROVE pc'[q] = pc[q] /\ loc'[q] = loc[q] /\ call'[q] = call[q]
  BY <1>1, <1>2
<1>3. pc'[p] = "idle" /\ loc'[p] = Locals
  BY <1>1
<1>4. AloneInv'
  <2>1. ASSUME NEW q \in Procs, pc'[q] # "idle" PROVE pc[q] # "idle" /\ call'[q] = call[q]
    BY <1>2, <1>3, <2>1
  <2>2. AloneInv
    BY DEF SafeInv
  <2> SUFFICES ASSUME NEW q \in Procs, NEW r \in Procs, pc'[q] # "idle", pc'[r] # "idle",
                      call'[q].op = "destroy"
               PROVE  q = r
    BY DEF AloneInv
  <2>3. pc[q] # "idle" /\ pc[r] # "idle" /\ call[q].op = "destroy"
    BY <2>1
  <2> QED
    BY <2>2, <2>3 DEF AloneInv
<1>5. PageInv'
  BY <1>1, <1>2, <1>3 DEF SafeInv, PageInv
<1>6. ASSUME NEW q \in Procs PROVE SafeLocal(pc'[q], call'[q], loc'[q], heap')
  <2>1. CASE q = p
    BY <1>3, <2>1, IdleSafe
  <2>2. CASE q # p
    <3>1. SafeLocal(pc[q], call[q], loc[q], heap)
      BY OneProcess
    <3> QED
      BY <1>1, <1>2, <2>2, <3>1
  <2> QED
    BY <2>1, <2>2
<1> QED
  BY <1>1, <1>4, <1>5, <1>6 DEF SafeInv

\* A system call begins; raid_system_destroy only if nothing runs, and nothing
\* while it runs.
LEMMA InvokeSafe ==
    ASSUME DataInv, SafeInv, Orderly, NEW p \in Procs, Invoke(p)
    PROVE  SafeInv'
<1>0. loc[p] \in LocalTypes /\ SafeLocal(pc[p], call[p], loc[p], heap)
  BY OneProcess
<1>1. PICK c \in Calls :
          /\ Admitted(p, c) /\ pc[p] = "idle" /\ call' = [call EXCEPT ![p] = c]
          /\ pc' = [pc EXCEPT ![p] = Entry(c)] /\ loc' = [loc EXCEPT ![p] = [loc[p] EXCEPT !.i = 1]]
          /\ UNCHANGED <<panicked, is_init, superblock, heap>>
  BY <1>0 DEF Invoke
<1>2. ASSUME NEW q \in Procs, q # p PROVE pc'[q] = pc[q] /\ loc'[q] = loc[q] /\ call'[q] = call[q]
  BY <1>1, <1>2
<1>3. /\ pc'[p] = Entry(c) /\ call'[p] = c /\ loc'[p].meta = loc[p].meta
  BY <1>0, <1>1
<1>4. Entry(c) \in {"lm_fast", "init", "fail", "repair", "destroy"} /\ (Entry(c) = "destroy" => c.op = "destroy")
  BY CallsAssumption DEF Entry
<1>5. AloneInv'
  <2>1. c.op = "destroy" => \A q \in Procs : pc[q] = "idle"
    BY <1>1 DEF Admitted, Orderly
  <2>2. ASSUME NEW q \in Procs, pc[q] # "idle" PROVE call[q].op # "destroy"
    BY <1>1, <2>2 DEF Admitted, Orderly
  <2>3. ASSUME NEW q \in Procs, q # p, pc'[q] # "idle"
        PROVE  call'[q].op # "destroy" /\ c.op # "destroy"
    BY <1>2, <2>1, <2>2, <2>3
  <2> QED
    BY <1>3, <2>3 DEF AloneInv
<1>6. PageInv'
  <2>1. pc'[p] \notin {"destroy_flag", "destroy_null", "init_flag"} /\ pc[p] = "idle"
    BY <1>1, <1>3, <1>4
  <2> QED
    BY <1>1, <1>2, <2>1 DEF SafeInv, PageInv
<1>7. ASSUME NEW q \in Procs PROVE SafeLocal(pc'[q], call'[q], loc'[q], heap')
  <2>1. CASE q = p
    <3>1. loc'[p].meta = Null
      BY <1>0, <1>1, <1>3
    <3> HIDE DEF LocalTypes
    <3> QED
      BY <1>3, <1>4, <2>1, <3>1
  <2>2. CASE q # p
    <3>1. SafeLocal(pc[q], call[q], loc[q], heap)
      BY OneProcess
    <3> QED
      BY <1>1, <1>2, <2>2, <3>1
  <2> QED
    BY <2>1, <2>2
<1> QED
  BY <1>1, <1>5, <1>6, <1>7 DEF SafeInv

\* A device without an array, or with one in service.
DeviceSound ==
    /\ ~panicked
    /\ is_init = 1 => superblock # Null
    /\ superblock # Null => heap[superblock] # Freed

\* A machine on which no system call runs.
LEMMA QuiescentSafe == Quiescent /\ DeviceSound => SafeInv
  BY IdleSafe DEF Quiescent, DeviceSound, SafeInv, AloneInv, PageInv

HIDE DEF At, Goto, device, OnlyMoves, SafeMove, SafeLocal, LocalTypes, DestroyLabels, Addressed,
         WriteLabels, LoadLabels, RepairLabels, Fit, JobInv, DataInv, TypeOK

\* A restart.
LEMMA RebootSafe == ASSUME DataInv, Reboot PROVE SafeInv'
<1>1. Quiescent' /\ DeviceSound'
  BY DEF Reboot, Quiescent, DeviceSound
<1> QED
  BY <1>1, QuiescentSafe, PTL

\* The initial states.
LEMMA BootSafe == ColdBoot \/ ReadyArray => SafeInv
<1>1. ColdBoot => SafeInv
  BY QuiescentSafe DEF ColdBoot, Quiescent, DeviceSound
<1>2. ASSUME ReadyArray PROVE SafeInv
  <2>1. PICK l \in Levels : heap = [g \in 1 .. Pages |-> IF g = 1 THEN Superblock(l) ELSE Unused]
    BY <1>2 DEF ReadyArray
  <2>2. superblock = 1 /\ 1 \in 1 .. Pages /\ 1 # Null
    BY <1>2, PagesAssumption, NullAssumption DEF ReadyArray
  <2>3. heap[superblock] # Freed
    BY <2>1, <2>2, BootSuperblock, FreedAssumption
  <2> QED
    BY <1>2, <2>2, <2>3, QuiescentSafe DEF ReadyArray, Quiescent, DeviceSound
<1> QED
  BY <1>1, <1>2

\* Every step preserves the invariant.
LEMMA NextSafe ==
    ASSUME DataInv, SafeInv, Orderly, [Next \/ Reboot]_vars
    PROVE  SafeInv'
<1>1. CASE Reboot
  BY <1>1, RebootSafe
<1>2. CASE UNCHANGED vars
  BY <1>2 DEF vars, device, SafeInv, AloneInv, PageInv
<1>3. CASE Next
  <2> PICK p \in Procs : Invoke(p) \/ Step(p)
    BY <1>3 DEF Next
  <2>1. CASE load_metadata(p)
    BY <2>1, load_metadataSafe, LoadCommitSafe, SafeStep DEF load_metadata
  <2>2. CASE get_disk_health(p)
    BY <2>2, get_disk_healthSafe, SafeStep DEF get_disk_health
  <2>3. CASE Transfer(p)
    BY <2>3, rw_blockSafe, ReadingSafe, LockingSafe, WritingSafe, TransfersInside, SafeStep
       DEF Transfer, handle_rw_raid01, write_parrity_block
  <2>4. CASE raid_fail_disk(p)
    BY <2>4, raid_fail_diskSafe, SafeStep
  <2>5. CASE raid_repair_disk(p)
    BY <2>5, RepairSafe, handle_recoverySafe, CopyingSafe, XorReadSafe, SafeStep
       DEF raid_repair_disk, mirrorRecovery, raid4_and_5_recovery
  <2>6. CASE raid_system_info(p)
    BY <2>6, raid_system_infoSafe, SafeStep DEF raid_system_info
  <2>7. CASE raid_system_init(p)
    BY <2>7, InitSafe, InitPublishSafe, InitFlagSafe, SafeStep DEF raid_system_init
  <2>8. CASE raid_system_destroy(p)
    BY <2>8, InitSafe, DestroyFreeSafe, DestroyFlagSafe, DestroyNullSafe, SafeStep
       DEF raid_system_destroy
  <2>9. CASE UseAfterFree(p)
    BY <2>9, NoUseAfterFree DEF UseAfterFree
  <2>10. CASE Finish(p)
    BY <2>10, FinishSafe
  <2>11. CASE Invoke(p)
    BY <2>11, InvokeSafe
  <2> QED
    BY <2>1, <2>2, <2>3, <2>4, <2>5, <2>6, <2>7, <2>8, <2>9, <2>10, <2>11 DEF Step
<1> QED
  BY <1>1, <1>2, <1>3

\* Used as it must be, the RAID layer neither panics nor touches a superblock
\* page after raid_system_destroy has freed it: from power-on and from an array
\* in service, whatever fails, is repaired, is re-initialised or restarts.
THEOREM NothingUndefined ==
    ASSUME Orderly
    PROVE  (ColdSpec \/ RebootSpec) => []NoUndefined
<1>1. DataInv /\ SafeInv /\ [Next \/ Reboot]_vars => SafeInv'
  BY NextSafe
<1>2. DataInv /\ SafeInv /\ [Next]_vars => SafeInv'
  BY <1>1
<1>3. SafeInv => NoUndefined
  BY DEF SafeInv, SafeLocal, NoUndefined
<1>4. ColdSpec => []NoUndefined
  BY <1>2, <1>3, ColdDataInv, BootSafe, PTL DEF ColdSpec
<1>5. RebootSpec => []NoUndefined
  BY <1>1, <1>3, RebootDataInv, BootSafe, PTL DEF RebootSpec
<1> QED
  BY <1>4, <1>5, PTL

-----------------------------------------------------------------------------
(* An array in service: the inductive invariant.                            *)

\* The system calls of an array in service: it is neither made nor destroyed
\* meanwhile, the block one past its end, which max_blknum lets through, is not
\* used, and a repair runs alone.
Disciplined ==
    /\ \A c \in Calls : c.op \notin {"init", "destroy"}
    /\ \A c \in Calls : c.op \in {"read", "write"} =>
           \A l \in Levels : Accepts(Superblock(l), c.block) => c.block \in Addresses(Superblock(l))
    /\ "repair" \in QuietOps

\* The labels that are reached while an array is in service.
ServiceLabels ==
    Addressed \union RepairLabels
        \union {"idle", "done", "lm_fast", "rw", "fail", "repair", "info_health", "info_copy"}

\* The disks of 2 .. k that have a one in row r.
Ones(rw, r, k) == {d \in 2 .. k : rw[d][r] = 1}

EvenRow(rw, r) == Cardinality({d \in Disks : rw[d][r] = 1}) % 2 = 0

\* The array does not change, and its disks are in service, failed or being
\* repaired.
ArrayInv ==
    /\ is_init = 1 /\ superblock = 1
    /\ \E l \in Levels : Array = Superblock(l)
    /\ \A d \in Disks : sblock[d] = Array
    /\ \A d \in Disks : disk_status[d] \in {"HEALTHY", "UNHEALTY", "RECOVERY"}
    /\ \A b \in Blocks : latest[b] \in {0, 1}

\* A repair runs alone.
RepairAlone ==
    \A p, q \in Procs : pc[p] # "idle" /\ pc[q] # "idle" /\ call[p].op = "repair" => p = q

\* The data of a block that is not mirrored is current.
PlainCells ==
    Array.raid_level \notin Mirrored => \A b \in Addresses(Array) :
        rows[disk_num(Array, b)][blkc_num(Array, b)] = latest[b]

\* The mirror of a block is current.
MirrorCells ==
    Array.raid_level \in Mirrored => \A b \in Addresses(Array) :
        rows[RedundantDisk(Array, b)][blkc_num(Array, b)] = latest[b]

\* So is its primary copy on a healthy disk, but between the two writes.
PrimaryCells ==
    Array.raid_level \in Mirrored => \A b \in Addresses(Array) :
        disk_status[disk_num(Array, b)] = "HEALTHY" =>
            \/ rows[disk_num(Array, b)][blkc_num(Array, b)] = latest[b]
            \/ \E p \in Procs : pc[p] = "write_mirror" /\ call[p].block = b

\* A row has even parity, but between the two writes.
ParityRows ==
    Array.raid_level \in Parity => \A r \in Rows :
        EvenRow(rows, r) \/ \E p \in Procs : pc[p] = "write_row" /\ loc[p].blk = r

\* Of a process at label l with call c and locals r, where the array is sb, its
\* rows rw and their status st: the handler serves the array, and works on the
\* cells of its block.
ServingFit(l, c, r, sb) ==
    /\ l \in ServiceLabels /\ r.health = "none" /\ c.op \notin {"init", "destroy"}
    /\ l \in Addressed \union {"rw", "info_health", "info_copy"} => r.meta = 1
    /\ l \in Addressed =>
           /\ r.sb = sb /\ c.block \in Addresses(sb) /\ r.blk = blkc_num(sb, c.block)
           /\ sb.raid_level # "RAID0" => r.red = RedundantDisk(sb, c.block)
           /\ \/ r.disk = disk_num(sb, c.block)
              \/ l = "read_row" /\ sb.raid_level \in Mirrored /\ r.disk = r.red
    /\ l \in {"primary_health", "mirror_health"} => sb.raid_level \in Mirrored /\ c.op = "read"
    /\ l = "read_row" => c.op = "read"
    /\ (l = "info_copy" => c.op = "info") /\ (l = "fail" => c.op = "fail")
    /\ l \in {"wprimary_health", "wmirror_health", "write_primary", "write_mirror"} =>
           sb.raid_level \in Mirrored
    /\ l = "write_row" => sb.raid_level \notin Mirrored

\* What a writer knows of its cells.
WriterFit(l, c, r, sb, rw, st) ==
    /\ l = "wmirror_health" => st[r.disk] # "HEALTHY"
    /\ l = "write_mirror" /\ st[r.disk] = "HEALTHY" => rw[r.disk][r.blk] = c.value
    /\ l \in {"read_parity", "write_parity", "write_row"} /\ sb.raid_level \in Parity =>
           r.buf = rw[r.disk][r.blk] /\ r.buf # c.value
    /\ l = "write_parity" => r.par = rw[r.red][r.blk]
    /\ l = "write_row" /\ sb.raid_level \in Parity => ~EvenRow(rw, r.blk)

\* What a reader delivers is among the values that it may deliver, e.
DeliveryFit(l, c, r, rw, e) ==
    /\ l = "read_row" => rw[r.disk][r.blk] \in e
    /\ l = "done" /\ c.op = "read" /\ r.ret = 0 => r.buf \in e

\* A repair by copying: the disk is out of service, and has what its partner has
\* up to row i.
CopyLabels == {"copy_read", "copy_write"}
CopyFit(l, c, r, sb, rw, st) ==
    /\ l = "repair_mark" => r.sb = sb
    /\ l = "partner_health" => r.red = RecoveryPartner(sb, c.disk) /\ st[c.disk] # "HEALTHY"
    /\ l \in CopyLabels \union {"partner_health"} => sb.raid_level \in Mirrored
    /\ l \in CopyLabels \/ (l = "repair_done" /\ sb.raid_level \in Mirrored) =>
           /\ st[c.disk] # "HEALTHY"
           /\ r.red \in Disks /\ r.red = RecoveryPartner(sb, c.disk) /\ st[r.red] = "HEALTHY"
           /\ \A i \in Rows : i < r.i => rw[c.disk][i] = rw[r.red][i]
    /\ l = "copy_write" => IF r.i = 0 THEN r.sb = sb ELSE r.buf = rw[r.red][r.i]
    /\ l = "repair_done" /\ sb.raid_level \in Mirrored => r.i = BlocksPerDisk

\* A repair by XOR: the buffer has the XOR of disks 2 to j + 1, and the repair of
\* any disk but the first ends before it is written.
XorFit(l, c, r, sb, rw) ==
    /\ l \in {"xor_read", "xor_write"} => sb.raid_level \in Parity
    /\ l = "xor_read" => c.disk + r.j <= DISKS
    /\ l = "xor_write" => c.disk = 1 /\ r.j = DISKS - 1
    /\ l \in {"xor_read", "xor_write"} /\ c.disk = 1 /\ r.j > 0 =>
           r.buf = Cardinality(Ones(rw, r.i, r.j + 1)) % 2

\* All of them.
ServiceFit(l, c, r, sb, rw, st, e) ==
    /\ ServingFit(l, c, r, sb) /\ WriterFit(l, c, r, sb, rw, st) /\ DeliveryFit(l, c, r, rw, e)
    /\ CopyFit(l, c, r, sb, rw, st) /\ XorFit(l, c, r, sb, rw)

\* The values that a read of a block may deliver include the latest one and all
\* that are being written.
Expects(p) ==
    call[p].op = "read" /\ pc[p] # "idle" /\ call[p].block \in Blocks =>
        /\ latest[call[p].block] \in expect[p]
        /\ \A q \in Procs : Writing(q, call[p].block) => call[q].value \in expect[p]

ServiceInv ==
    /\ ArrayInv /\ RepairAlone /\ PlainCells /\ MirrorCells /\ PrimaryCells /\ ParityRows
    /\ \A p \in Procs :
           Expects(p) /\ ServiceFit(pc[p], call[p], loc[p], Array, rows, disk_status, expect[p])

-----------------------------------------------------------------------------
(* Lemmas about the layout and about parity.                                *)

\* Mirrors of different blocks are different cells.
LEMMA MirrorInjective ==
    ASSUME NEW sb \in Superblocks, sb.raid_level \in Mirrored,
           NEW a \in Addresses(sb), NEW b \in Addresses(sb), Redundant(sb, a) = Redundant(sb, b)
    PROVE  a = b
<1>1. /\ RedundantDisk(sb, a) = disk_num(sb, a) + sb.num_of_disks
      /\ RedundantDisk(sb, b) = disk_num(sb, b) + sb.num_of_disks
  BY DEF RedundantDisk, Mirrored
<1>2. sb.num_of_disks \in Nat
  BY SuperblockFields
<1>3. disk_num(sb, a) \in Disks /\ disk_num(sb, b) \in Disks
  BY LocationInRange DEF Home
<1>4. RedundantDisk(sb, a) = RedundantDisk(sb, b) /\ blkc_num(sb, a) = blkc_num(sb, b)
  BY DEF Redundant
<1>5. disk_num(sb, a) = disk_num(sb, b)
  BY <1>1, <1>2, <1>3, <1>4 DEF Disks
<1>6. Home(sb, a) = Home(sb, b)
  BY <1>4, <1>5 DEF Home
<1> QED
  BY <1>6, HomeInjective

\* The blocks of a row share its parity disk.
LEMMA SameParityDisk ==
    ASSUME NEW sb \in Superblocks, sb.raid_level \in Parity, NEW a, NEW b,
           blkc_num(sb, a) = blkc_num(sb, b)
    PROVE  RedundantDisk(sb, a) = RedundantDisk(sb, b)
  BY DEF RedundantDisk, Parity, Mirrored

\* Block numbers of the array are block numbers of the model.
LEMMA AddressesAreBlocks ==
    ASSUME NEW sb \in Superblocks
    PROVE  Addresses(sb) \subseteq Blocks
<1>1. sb.num_of_disks \in Nat /\ sb.num_of_disks <= DISKS /\ DISKS \in Nat
  BY SuperblockFields, DisksAssumption DEF RAID_TYPE, Mirrored, Parity
<1>2. BlocksPerDisk - 1 \in Nat
  BY BlocksAssumption
<1>3. \A m, n, k \in Nat : m <= n => m * k <= n * k
  OBVIOUS
<1>4. sb.num_of_disks * (BlocksPerDisk - 1) <= DISKS * (BlocksPerDisk - 1)
  BY <1>1, <1>2, <1>3
<1>5. sb.num_of_disks * (BlocksPerDisk - 1) \in Nat /\ DISKS * (BlocksPerDisk - 1) \in Nat
  BY <1>1, <1>2
<1> QED
  BY <1>4, <1>5 DEF Addresses, Capacity, Blocks

\* The next number is even if this one is odd.
LEMMA NextParity ==
    ASSUME NEW n \in Nat, NEW m, m = n + 1
    PROVE  m % 2 = 0 <=> n % 2 # 0
  OBVIOUS

\* Writing the other value to one disk of a row flips the row's parity.
LEMMA FlippedRow ==
    ASSUME NEW rw \in [Disks -> [Rows -> {0, 1}]], NEW d \in Disks, NEW r \in Rows,
           NEW v \in {0, 1}, v # rw[d][r],
           NEW nw, \A e \in Disks : nw[e][r] = IF e = d THEN v ELSE rw[e][r]
    PROVE  EvenRow(nw, r) <=> ~EvenRow(rw, r)
<1> DEFINE S == {e \in Disks : rw[e][r] = 1}
           T == {e \in Disks : nw[e][r] = 1}
<1>1. IsFiniteSet(S) /\ IsFiniteSet(T)
  <2>1. IsFiniteSet(Disks)
    BY DisksAssumption, FS_Interval DEF Disks
  <2> QED
    BY <2>1, FS_Subset
<1>2. Cardinality(S) \in Nat /\ Cardinality(T) \in Nat
  BY <1>1, FS_CardinalityType
<1>4. CASE v = 1
  <2>1. T = S \union {d} /\ d \notin S
    BY <1>4
  <2>2. Cardinality(T) = Cardinality(S) + 1
    BY <1>1, <2>1, FS_AddElement
  <2> HIDE DEF S, T
  <2>3. Cardinality(T) % 2 = 0 <=> Cardinality(S) % 2 # 0
    BY <1>2, <2>2, NextParity
  <2> QED
    BY <2>3 DEF EvenRow, S, T
<1>5. CASE v = 0
  <2>1. S = T \union {d} /\ d \notin T
    <3>1. rw[d][r] = 1
      BY <1>5
    <3> QED
      BY <1>5, <3>1
  <2>2. Cardinality(S) = Cardinality(T) + 1
    BY <1>1, <2>1, FS_AddElement
  <2> HIDE DEF S, T
  <2>3. Cardinality(T) % 2 = 0 <=> Cardinality(S) % 2 # 0
    BY <1>2, <2>2, NextParity
  <2> QED
    BY <2>3 DEF EvenRow, S, T
<1> QED
  BY <1>4, <1>5

\* The parity of a row that is not written stays.
LEMMA OtherRow ==
    ASSUME NEW rw, NEW nw, NEW r, \A e \in Disks : nw[e][r] = rw[e][r]
    PROVE  EvenRow(nw, r) <=> EvenRow(rw, r)
  BY DEF EvenRow

\* One more disk in the running XOR.
LEMMA RunningXor ==
    ASSUME NEW rw \in [Disks -> [Rows -> {0, 1}]], NEW r \in Rows, NEW j \in Nat, j + 2 <= DISKS,
           NEW x, j > 0 => x = Cardinality(Ones(rw, r, j + 1)) % 2
    PROVE  (IF j = 0 THEN rw[j + 2][r] ELSE Xor(x, rw[j + 2][r]))
               = Cardinality(Ones(rw, r, j + 2)) % 2
<1> DEFINE S == {d \in 2 .. (j + 1) : rw[d][r] = 1}
           T == {d \in 2 .. (j + 2) : rw[d][r] = 1}
           v == rw[j + 2][r]
<1>1. j + 2 \in Disks /\ v \in {0, 1}
  BY DisksAssumption DEF Disks
<1>2. IsFiniteSet(S) /\ IsFiniteSet(T)
  <2>1. IsFiniteSet(2 .. (j + 1)) /\ IsFiniteSet(2 .. (j + 2))
    BY FS_Interval
  <2> QED
    BY <2>1, FS_Subset
<1>3. Cardinality(S) \in Nat
  BY <1>2, FS_CardinalityType
<1>4. Cardinality(T) = Cardinality(S) + v
  <2>0. 2 .. (j + 2) = (2 .. (j + 1)) \union {j + 2} /\ j + 2 \notin 2 .. (j + 1)
    OBVIOUS
  <2>1. CASE v = 1
    <3>1. T = S \union {j + 2} /\ j + 2 \notin S
      BY <2>0, <2>1
    <3>2. Cardinality(T) = Cardinality(S) + 1
      BY <1>2, <3>1, FS_AddElement
    <3> QED
      BY <2>1, <3>2
  <2>2. CASE v = 0
    <3>1. T = S
      BY <2>0, <2>2
    <3> HIDE DEF S, T, v
    <3> QED
      BY <1>3, <2>2, <3>1
  <2> QED
    BY <1>1, <2>1, <2>2
<1>5. j = 0 => Cardinality(S) = 0
  <2>1. j = 0 => S = {}
    OBVIOUS
  <2> QED
    BY <2>1, FS_EmptySet
<1> HIDE DEF S, T, v
<1>6. CASE j = 0
  BY <1>1, <1>4, <1>5, <1>6 DEF v, T, Ones
<1>7. CASE j # 0
  <2>1. x = Cardinality(S) % 2
    BY <1>7 DEF S, Ones
  <2>2. (x + v) % 2 = (Cardinality(S) + v) % 2
    BY <1>1, <1>3, <2>1
  <2> QED
    BY <1>4, <1>7, <2>2 DEF Xor, v, T, Ones
<1> QED
  BY <1>6, <1>7

\* In a row of even parity, disk 1 is the XOR of the others.
LEMMA FirstIsXor ==
    ASSUME NEW rw \in [Disks -> [Rows -> {0, 1}]], NEW r \in Rows, EvenRow(rw, r)
    PROVE  rw[1][r] = Cardinality(Ones(rw, r, DISKS)) % 2
<1> DEFINE S == {d \in 2 .. DISKS : rw[d][r] = 1}
           T == {d \in Disks : rw[d][r] = 1}
<1>1. 1 \in Disks /\ rw[1][r] \in {0, 1}
  BY DisksAssumption DEF Disks
<1>2. IsFiniteSet(S) /\ IsFiniteSet(T)
  <2>1. IsFiniteSet(2 .. DISKS) /\ IsFiniteSet(Disks)
    BY DisksAssumption, FS_Interval DEF Disks
  <2> QED
    BY <2>1, FS_Subset
<1>3. Cardinality(S) \in Nat
  BY <1>2, FS_CardinalityType
<1>4. Disks = (2 .. DISKS) \union {1} /\ 1 \notin 2 .. DISKS
  BY DisksAssumption DEF Disks
<1>5. Cardinality(T) % 2 = 0
  BY DEF EvenRow
<1>6. CASE rw[1][r] = 1
  <2>1. T = S \union {1} /\ 1 \notin S
    BY <1>4, <1>6
  <2>2. Cardinality(T) = Cardinality(S) + 1
    BY <1>2, <2>1, FS_AddElement
  <2> HIDE DEF S, T
  <2>3. Cardinality(S) % 2 = 1
    BY <1>3, <1>5, <2>2
  <2> QED
    BY <1>6, <2>3 DEF S, Ones
<1>7. CASE rw[1][r] = 0
  <2>1. T = S
    BY <1>4, <1>7
  <2> HIDE DEF S, T
  <2> QED
    BY <1>5, <1>7, <2>1 DEF S, Ones
<1> QED
  BY <1>1, <1>6, <1>7

-----------------------------------------------------------------------------
(* How steps preserve the invariant.                                        *)

\* What the lemmas take from the invariants about one process.
LEMMA OneServed ==
    ASSUME DataInv, ServiceInv, NEW p \in Procs
    PROVE  /\ pc[p] \in Labels /\ loc[p] \in LocalTypes /\ call[p] \in Calls \union {NoCall}
           /\ Fit(pc[p], call[p], loc[p], heap) /\ Expects(p)
           /\ ServiceFit(pc[p], call[p], loc[p], Array, rows, disk_status, expect[p])
  BY DEF DataInv, TypeOK, ServiceInv

\* The array in service.
LEMMA ArrayServed ==
    ASSUME ServiceInv
    PROVE  Array \in Superblocks /\ Array = heap[1] /\ superblock = 1 /\ is_init = 1
  BY BootSuperblock DEF ServiceInv, ArrayInv, Array

\* While p runs a call, nobody else repairs a disk.
LEMMA OthersDoNotRepair ==
    ASSUME DataInv, ServiceInv, NEW p \in Procs, pc[p] # "idle", NEW q \in Procs, q # p
    PROVE  pc[q] \notin RepairLabels
<1>1. pc[q] \in RepairLabels => call[q].op = "repair" /\ pc[q] # "idle"
  BY OneServed DEF Fit, JobInv, RepairLabels
<1> QED
  BY <1>1 DEF ServiceInv, RepairAlone

\* Outside a repair, its part of the invariant says nothing.
LEMMA NotRepairing ==
    ASSUME NEW l, l \notin RepairLabels, NEW c, NEW r, NEW sb, NEW rw, NEW st
    PROVE  CopyFit(l, c, r, sb, rw, st) /\ XorFit(l, c, r, sb, rw)
  BY DEF CopyFit, CopyLabels, XorFit, RepairLabels

\* A step of p within a call preserves the invariant, if it does so for the array
\* and for p and keeps what the others know.
LEMMA ServiceStep ==
    ASSUME DataInv, ServiceInv, NEW p \in Procs, pc[p] # "idle", pc'[p] # "idle", OnlyMoves(p),
           UNCHANGED <<call, Array>>, ArrayInv', PlainCells', MirrorCells', PrimaryCells',
           ParityRows', \A q \in Procs : Expects(q)',
           ServiceFit(pc'[p], call[p], loc'[p], Array, rows', disk_status', expect'[p]),
           \A q \in Procs \ {p} :
               /\ WriterFit(pc[q], call[q], loc[q], Array, rows', disk_status')
               /\ DeliveryFit(pc[q], call[q], loc[q], rows', expect'[q])
    PROVE  ServiceInv'
<1>1. ASSUME NEW q \in Procs, q # p PROVE pc'[q] = pc[q] /\ loc'[q] = loc[q]
  BY <1>1 DEF OnlyMoves, DataInv, TypeOK
<1>2. RepairAlone'
  <2>1. ASSUME NEW q \in Procs, pc'[q] # "idle" PROVE pc[q] # "idle" /\ call'[q] = call[q]
    BY <1>1, <2>1
  <2> QED
    BY <2>1 DEF ServiceInv, RepairAlone
<1>3. ASSUME NEW q \in Procs
      PROVE  ServiceFit(pc'[q], call'[q], loc'[q], Array', rows', disk_status', expect'[q])
  <2>1. CASE q = p
    BY <2>1
  <2>2. CASE q # p
    <3>1. ServingFit(pc[q], call[q], loc[q], Array)
      BY OneServed DEF ServiceFit
    <3>2. pc[q] \notin RepairLabels
      BY <2>2, OthersDoNotRepair
    <3>3. /\ CopyFit(pc[q], call[q], loc[q], Array, rows', disk_status')
          /\ XorFit(pc[q], call[q], loc[q], Array, rows')
      BY <3>2, NotRepairing
    <3> QED
      BY <1>1, <2>2, <3>1, <3>3 DEF ServiceFit
  <2> QED
    BY <2>1, <2>2
<1> QED
  BY <1>2, <1>3 DEF ServiceInv

\* A step of p that writes no row, takes disks at most out of service, and ends
\* where p's part of the invariant holds.
ServiceMove(p) ==
    /\ pc[p] \notin {"idle", "write_mirror", "write_row"} /\ pc'[p] # "idle" /\ OnlyMoves(p)
    /\ UNCHANGED <<rows, sblock, is_init, superblock, heap, call, latest, expect>>
    /\ \A d \in Disks : disk_status'[d] = disk_status[d] \/ disk_status'[d] \in {"UNHEALTY", "RECOVERY"}
    /\ ServiceFit(pc'[p], call[p], loc'[p], Array, rows, disk_status', expect[p])

\* Such a step preserves the invariant.
LEMMA ServiceMoveStep ==
    ASSUME DataInv, ServiceInv, NEW p \in Procs, ServiceMove(p)
    PROVE  ServiceInv'
<1>0. Array' = Array /\ Array \in Superblocks
  BY ArrayServed DEF ServiceMove, Array
<1>1. ASSUME NEW q \in Procs, q # p PROVE pc'[q] = pc[q] /\ loc'[q] = loc[q]
  BY <1>1 DEF ServiceMove, OnlyMoves, DataInv, TypeOK
<1>2. ArrayInv'
  BY <1>0 DEF ServiceInv, ServiceMove, ArrayInv
<1>3. PlainCells' /\ MirrorCells'
  BY <1>0 DEF ServiceInv, ServiceMove, PlainCells, MirrorCells
<1>4. PrimaryCells'
  <2> SUFFICES ASSUME Array.raid_level \in Mirrored, NEW b \in Addresses(Array),
                      disk_status'[disk_num(Array, b)] = "HEALTHY"
               PROVE  \/ rows[disk_num(Array, b)][blkc_num(Array, b)] = latest[b]
                      \/ \E q \in Procs : pc'[q] = "write_mirror" /\ call[q].block = b
    BY <1>0 DEF PrimaryCells, ServiceMove
  <2>1. disk_num(Array, b) \in Disks
    BY <1>0, LocationInRange DEF Home
  <2>2. disk_status[disk_num(Array, b)] = "HEALTHY"
    BY <2>1 DEF ServiceMove
  <2>3. \/ rows[disk_num(Array, b)][blkc_num(Array, b)] = latest[b]
        \/ \E q \in Procs : pc[q] = "write_mirror" /\ call[q].block = b
    BY <2>2 DEF ServiceInv, PrimaryCells
  <2> QED
    BY <1>1, <2>3 DEF ServiceMove
<1>5. ParityRows'
  <2> SUFFICES ASSUME Array.raid_level \in Parity, NEW r \in Rows
               PROVE  EvenRow(rows, r) \/ \E q \in Procs : pc'[q] = "write_row" /\ loc'[q].blk = r
    BY <1>0 DEF ParityRows, ServiceMove
  <2>1. EvenRow(rows, r) \/ \E q \in Procs : pc[q] = "write_row" /\ loc[q].blk = r
    BY DEF ServiceInv, ParityRows
  <2> QED
    BY <1>1, <2>1 DEF ServiceMove
<1>6. ASSUME NEW q \in Procs PROVE Expects(q)'
  <2>1. ASSUME NEW x \in Procs PROVE pc'[x] # "idle" <=> pc[x] # "idle"
    BY <1>1 DEF ServiceMove
  <2>2. Expects(q)
    BY OneServed
  <2> QED
    BY <2>1, <2>2 DEF Expects, Writing, ServiceMove
<1>7. ASSUME NEW q \in Procs \ {p}
      PROVE  /\ WriterFit(pc[q], call[q], loc[q], Array, rows', disk_status')
             /\ DeliveryFit(pc[q], call[q], loc[q], rows', expect'[q])
  <2>1. /\ WriterFit(pc[q], call[q], loc[q], Array, rows, disk_status)
        /\ DeliveryFit(pc[q], call[q], loc[q], rows, expect[q])
    BY OneServed DEF ServiceFit
  <2>2. pc[q] \in {"wmirror_health", "write_mirror"} => loc[q].disk \in Disks
    BY OneServed DEF Fit, AddressInv, Addressed, WriteLabels
  <2>3. rows' = rows /\ expect' = expect
    BY DEF ServiceMove
  <2>4. WriterFit(pc[q], call[q], loc[q], Array, rows, disk_status')
    BY <2>1, <2>2 DEF WriterFit, ServiceMove
  <2> QED
    BY <2>1, <2>3, <2>4
<1>8. /\ pc[p] # "idle" /\ pc'[p] # "idle" /\ OnlyMoves(p) /\ call' = call
      /\ ServiceFit(pc'[p], call[p], loc'[p], Array, rows', disk_status', expect'[p])
  BY DEF ServiceMove
<1> QED
  BY <1>0, <1>2, <1>3, <1>4, <1>5, <1>6, <1>7, <1>8, ServiceStep

-----------------------------------------------------------------------------
(* Steps that write no row.                                                 *)

\* A step of p that changes nothing but p's place and locals, outside a repair.
LEMMA LocalMove ==
    ASSUME NEW p \in Procs, pc[p] \notin {"idle", "write_mirror", "write_row"},
           pc'[p] \notin RepairLabels \union {"idle"}, OnlyMoves(p),
           UNCHANGED <<stored, device, call, latest, expect>>,
           ServingFit(pc'[p], call[p], loc'[p], Array),
           WriterFit(pc'[p], call[p], loc'[p], Array, rows, disk_status),
           DeliveryFit(pc'[p], call[p], loc'[p], rows, expect[p])
    PROVE  ServiceMove(p)
<1>1. /\ disk_status' = disk_status
      /\ UNCHANGED <<rows, sblock, is_init, superblock, heap, call, latest, expect>>
  BY DEF stored, device
<1>2. ServiceFit(pc'[p], call[p], loc'[p], Array, rows, disk_status', expect[p])
  BY <1>1, NotRepairing DEF ServiceFit
<1> QED
  BY <1>1, <1>2 DEF ServiceMove

\* Where a process knows nothing of the rows.
LEMMA Unconcerned ==
    ASSUME NEW l, NEW c, NEW r, NEW sb, NEW rw, NEW st, NEW e,
           l \notin {"wmirror_health", "write_mirror", "read_parity", "write_parity", "write_row",
                    "read_row"},
           l = "done" => c.op # "read" \/ r.ret # 0
    PROVE  WriterFit(l, c, r, sb, rw, st) /\ DeliveryFit(l, c, r, rw, e)
  BY DEF WriterFit, DeliveryFit

USE DEF At, Goto, OnlyMoves, LocalTypes, ServiceLabels, Addressed, WriteLabels, LoadLabels,
        RepairLabels, DataInv, TypeOK

\* A call returns an error, or returns from something else than a read.
LEMMA ReturnMove ==
    ASSUME DataInv, ServiceInv, NEW p \in Procs, pc[p] \notin {"idle", "write_mirror", "write_row"},
           NEW x, x # 0 \/ call[p].op # "read",
           Return(p, x), UNCHANGED <<stored, device, call, latest, expect>>
    PROVE  ServiceMove(p)
<1>0. loc[p] \in LocalTypes /\ ServingFit(pc[p], call[p], loc[p], Array)
  BY OneServed DEF ServiceFit
<1>1. loc'[p] = [loc[p] EXCEPT !.ret = x] /\ pc'[p] = "done" /\ OnlyMoves(p)
  BY <1>0 DEF Return
<1>2. loc'[p].ret = x /\ loc'[p].health = loc[p].health
  BY <1>0, <1>1
<1>3. ServingFit(pc'[p], call[p], loc'[p], Array)
  BY <1>0, <1>1, <1>2 DEF ServingFit
<1>4. /\ WriterFit(pc'[p], call[p], loc'[p], Array, rows, disk_status)
      /\ DeliveryFit(pc'[p], call[p], loc'[p], rows, expect[p])
  BY <1>1, <1>2, Unconcerned
<1> QED
  BY <1>1, <1>3, <1>4, LocalMove

\* load_metadata finds the array in service; the rest of it is not reached.
LEMMA load_metadataMove ==
    ASSUME DataInv, ServiceInv, NEW p \in Procs, load_metadata(p)
    PROVE  ServiceMove(p)
<1>0. /\ pc[p] \in Labels /\ loc[p] \in LocalTypes /\ Fit(pc[p], call[p], loc[p], heap)
      /\ ServingFit(pc[p], call[p], loc[p], Array)
  BY OneServed DEF ServiceFit
<1>1. is_init = 1 /\ superblock = 1 /\ superblock # Null
  BY ArrayServed, PagesAssumption, NullAssumption
<1>2. LoadFast(p)
  BY <1>0 DEF load_metadata, LoadCheck, LoadRead, LoadCommit, LoadFinal, ServingFit
<1>3. /\ pc[p] = "lm_fast" /\ pc'[p] \in {"info_health", "rw"}
      /\ pc' = [pc EXCEPT ![p] = pc'[p]] /\ loc' = [loc EXCEPT ![p].meta = 1]
      /\ UNCHANGED <<stored, device, call, latest, expect>>
  BY <1>0, <1>1, <1>2 DEF LoadFast, Loaded, AfterLoad
<1>4. OnlyMoves(p) /\ loc'[p] = [loc[p] EXCEPT !.meta = 1]
  BY <1>3
<1>5. loc'[p].meta = 1 /\ loc'[p].health = loc[p].health
  BY <1>0, <1>4
<1>6. ServingFit(pc'[p], call[p], loc'[p], Array)
  BY <1>0, <1>3, <1>5 DEF ServingFit
<1>7. /\ WriterFit(pc'[p], call[p], loc'[p], Array, rows, disk_status)
      /\ DeliveryFit(pc'[p], call[p], loc'[p], rows, expect[p])
  BY <1>3, Unconcerned
<1> QED
  BY <1>3, <1>4, <1>6, <1>7, LocalMove

\* Every disk's health is cached.
LEMMA get_disk_healthNot ==
    ASSUME DataInv, ServiceInv, NEW p \in Procs
    PROVE  ~get_disk_health(p)
<1>1. loc[p].health = "none"
  BY OneServed DEF ServiceFit, ServingFit
<1>2. \A d \in Disks : disk_status[d] # "UNITIALIZED"
  BY DEF ServiceInv, ArrayInv
<1> QED
  BY <1>1, <1>2 DEF get_disk_health, HealthRead, HealthStore

\* The validity check, and the cells of the block.
LEMMA rw_blockMove ==
    ASSUME DataInv, ServiceInv, Disciplined, NEW p \in Procs, rw_block(p)
    PROVE  ServiceMove(p)
<1> DEFINE b == call[p].block
           red == IF Array.raid_level = "RAID0" THEN 0 ELSE RedundantDisk(Array, b)
<1>0. /\ pc[p] \in Labels /\ loc[p] \in LocalTypes /\ call[p] \in Calls \union {NoCall}
      /\ Fit(pc[p], call[p], loc[p], heap) /\ ServingFit(pc[p], call[p], loc[p], Array)
  BY OneServed DEF ServiceFit
<1>1. /\ pc[p] = "rw" /\ call[p].op \in {"read", "write"} /\ heap[loc[p].meta] = Array
      /\ UNCHANGED <<stored, device, call, latest, expect>>
  BY <1>0, ArrayServed DEF rw_block, Fit, JobInv, ServingFit
<1>2. CASE ~Accepts(Array, b)
  <2>1. Return(p, -1)
    BY <1>1, <1>2 DEF rw_block
  <2> HIDE DEF DataInv, TypeOK
  <2> QED
    BY <1>1, <2>1, ReturnMove
<1>3. CASE Accepts(Array, b)
  <2>1. call[p] \in Calls
    BY <1>0, <1>1 DEF NoCall
  <2>2. b \in Addresses(Array)
    BY <1>1, <1>3, <2>1 DEF Disciplined, ServiceInv, ArrayInv
  <2>3. /\ loc' = [loc EXCEPT ![p].disk = disk_num(Array, b), ![p].blk = blkc_num(Array, b), ![p].red = red, ![p].sb = Array]
        /\ pc' = [pc EXCEPT ![p] = CASE Array.raid_level \notin Mirrored -> "data_health"
                             [] Array.raid_level \in Mirrored /\ IsRead(p) -> "primary_health"
                             [] Array.raid_level \in Mirrored /\ ~IsRead(p) -> "lock1"]
    BY <1>1, <1>3 DEF rw_block
  <2>4. /\ pc'[p] \in {"data_health", "primary_health", "lock1"} /\ pc' = [pc EXCEPT ![p] = pc'[p]]
        /\ pc'[p] = "primary_health" => Array.raid_level \in Mirrored /\ call[p].op = "read"
    BY <1>0, <2>3 DEF IsRead
  <2> HIDE DEF b
  <2>5. /\ loc'[p].disk = disk_num(Array, b) /\ loc'[p].blk = blkc_num(Array, b) /\ loc'[p].red = red /\ loc'[p].sb = Array
        /\ loc'[p].health = loc[p].health /\ loc'[p].meta = loc[p].meta /\ loc' = [loc EXCEPT ![p] = loc'[p]]
    <3> HIDE DEF red
    <3>1. loc'[p] = [loc[p] EXCEPT !.disk = disk_num(Array, b), !.blk = blkc_num(Array, b), !.red = red, !.sb = Array]
      BY <1>0, <2>3
    <3>2. loc' = [loc EXCEPT ![p] = loc'[p]]
      BY <1>0, <2>3, <3>1
    <3> QED
      BY <1>0, <3>1, <3>2
  <2>6. ServingFit(pc'[p], call[p], loc'[p], Array)
    BY <1>0, <1>1, <2>2, <2>4, <2>5 DEF b, ServingFit
  <2>7. /\ WriterFit(pc'[p], call[p], loc'[p], Array, rows, disk_status)
        /\ DeliveryFit(pc'[p], call[p], loc'[p], rows, expect[p])
    BY <2>4, Unconcerned
  <2> QED
    BY <1>1, <2>4, <2>5, <2>6, <2>7, LocalMove
<1> QED
  BY <1>2, <1>3

\* The values of the cells that a reader of block b may be sent to.
LEMMA CellsExpected ==
    ASSUME DataInv, ServiceInv, NEW p \in Procs, pc[p] # "idle", call[p].op = "read",
           call[p].block \in Addresses(Array)
    PROVE  LET b == call[p].block
               d == disk_num(Array, b)
               r == blkc_num(Array, b)
           IN  /\ Array.raid_level \notin Mirrored => rows[d][r] \in expect[p]
               /\ Array.raid_level \in Mirrored =>
                      /\ rows[RedundantDisk(Array, b)][r] \in expect[p]
                      /\ disk_status[d] = "HEALTHY" => rows[d][r] \in expect[p]
<1> DEFINE b == call[p].block
           d == disk_num(Array, b)
           r == blkc_num(Array, b)
<1>1. b \in Blocks
  BY ArrayServed, AddressesAreBlocks
<1>2. /\ latest[b] \in expect[p]
      /\ \A q \in Procs : Writing(q, b) => call[q].value \in expect[p]
  BY <1>1, OneServed DEF Expects
<1>3. Array.raid_level \notin Mirrored => rows[d][r] \in expect[p]
  BY <1>2 DEF ServiceInv, PlainCells
<1>4. Array.raid_level \in Mirrored => rows[RedundantDisk(Array, b)][r] \in expect[p]
  BY <1>2 DEF ServiceInv, MirrorCells
<1>5. ASSUME Array.raid_level \in Mirrored, disk_status[d] = "HEALTHY" PROVE rows[d][r] \in expect[p]
  <2>1. \/ rows[d][r] = latest[b]
        \/ \E q \in Procs : pc[q] = "write_mirror" /\ call[q].block = b
    BY <1>5 DEF ServiceInv, PrimaryCells
  <2>2. ASSUME NEW q \in Procs, pc[q] = "write_mirror", call[q].block = b PROVE rows[d][r] \in expect[p]
    <3>1. /\ Fit(pc[q], call[q], loc[q], heap) /\ ServingFit(pc[q], call[q], loc[q], Array)
          /\ WriterFit(pc[q], call[q], loc[q], Array, rows, disk_status)
      BY OneServed DEF ServiceFit
    <3>2. call[q].op = "write" /\ loc[q].disk = d /\ loc[q].blk = r
      BY <2>2, <3>1 DEF Fit, JobInv, ServingFit
    <3>3. rows[d][r] = call[q].value
      BY <1>5, <2>2, <3>1, <3>2 DEF WriterFit
    <3>4. Writing(q, b)
      BY <2>2, <3>2 DEF Writing
    <3> QED
      BY <1>2, <3>3, <3>4
  <2> QED
    BY <1>2, <2>1, <2>2
<1> QED
  BY <1>3, <1>4, <1>5

\* The health of the disk of a label that is addressed.
LEMMA HealthOf ==
    ASSUME DataInv, ServiceInv, NEW p \in Procs
    PROVE  /\ pc[p] \in {"data_health", "primary_health", "wprimary_health"} =>
                  Health(p) = disk_status[loc[p].disk]
           /\ Health(p) = "HEALTHY" => HealthDisk(p) \in Disks /\ disk_status[HealthDisk(p)] = "HEALTHY"
<1>1. Fit(pc[p], call[p], loc[p], heap)
  BY OneServed
<1> QED
  BY <1>1 DEF Health, HealthDisk, Fit, AddressInv

\* RAID0, RAID4 and RAID5 go on only if the data disk is healthy.
LEMMA DataHealthMove ==
    ASSUME DataInv, ServiceInv, NEW p \in Procs, DataHealth(p)
    PROVE  ServiceMove(p)
<1>0. /\ pc[p] \in Labels /\ loc[p] \in LocalTypes /\ Fit(pc[p], call[p], loc[p], heap)
      /\ ServingFit(pc[p], call[p], loc[p], Array)
  BY OneServed DEF ServiceFit
<1>1. /\ pc[p] = "data_health" /\ call[p].op \in {"read", "write"} /\ Array.raid_level \notin Mirrored
      /\ UNCHANGED <<stored, device, call, latest, expect>>
  BY <1>0 DEF DataHealth, Fit, JobInv, AddressInv, ServingFit
<1>2. CASE Health(p) # "HEALTHY"
  <2>1. Return(p, -1)
    BY <1>2 DEF DataHealth
  <2> HIDE DEF DataInv, TypeOK
  <2> QED
    BY <1>1, <2>1, ReturnMove
<1>3. CASE Health(p) = "HEALTHY"
  <2>1. /\ pc' = [pc EXCEPT ![p] = pc'[p]] /\ loc' = loc /\ pc'[p] \in {"read_row", "write_row", "lock1"}
        /\ pc'[p] = "read_row" <=> call[p].op = "read"
        /\ pc'[p] = "write_row" => Array.raid_level = "RAID0"
    BY <1>0, <1>1, <1>3 DEF DataHealth, IsRead, ServingFit
  <2>2. ServingFit(pc'[p], call[p], loc'[p], Array)
    BY <1>0, <1>1, <2>1 DEF ServingFit
  <2>3. pc'[p] = "read_row" => rows[loc[p].disk][loc[p].blk] \in expect[p]
    BY <1>0, <1>1, <2>1, CellsExpected DEF ServingFit
  <2>4. /\ WriterFit(pc'[p], call[p], loc'[p], Array, rows, disk_status)
        /\ DeliveryFit(pc'[p], call[p], loc'[p], rows, expect[p])
    BY <2>1, <2>3 DEF Parity, WriterFit, DeliveryFit
  <2> QED
    BY <1>1, <2>1, <2>2, <2>4, LocalMove
<1> QED
  BY <1>2, <1>3

\* A mirrored block is read from a healthy primary.
LEMMA PrimaryHealthMove ==
    ASSUME DataInv, ServiceInv, NEW p \in Procs, PrimaryHealth(p)
    PROVE  ServiceMove(p)
<1>0. /\ pc[p] \in Labels /\ loc[p] \in LocalTypes /\ Fit(pc[p], call[p], loc[p], heap)
      /\ ServingFit(pc[p], call[p], loc[p], Array)
  BY OneServed DEF ServiceFit
<1>1. /\ pc[p] = "primary_health" /\ call[p].op = "read" /\ Array.raid_level \in Mirrored
      /\ UNCHANGED <<stored, device, call, latest, expect>> /\ loc' = loc
      /\ pc' = [pc EXCEPT ![p] = IF Health(p) = "HEALTHY" THEN "read_row" ELSE "mirror_health"]
  BY <1>0 DEF PrimaryHealth, ServingFit
<1>2. /\ pc'[p] \in {"read_row", "mirror_health"} /\ OnlyMoves(p)
      /\ pc'[p] = "read_row" => Health(p) = "HEALTHY"
  BY <1>0, <1>1
<1>3. ServingFit(pc'[p], call[p], loc'[p], Array)
  BY <1>0, <1>1, <1>2 DEF ServingFit
<1>4. /\ loc[p].disk = disk_num(Array, call[p].block) /\ loc[p].blk = blkc_num(Array, call[p].block)
      /\ call[p].block \in Addresses(Array)
  BY <1>0, <1>1 DEF ServingFit
<1>5. pc'[p] = "read_row" => disk_status[loc[p].disk] = "HEALTHY"
  BY <1>1, <1>2, HealthOf
<1>6. pc'[p] = "read_row" => rows[loc[p].disk][loc[p].blk] \in expect[p]
  BY <1>1, <1>4, <1>5, CellsExpected
<1>7. /\ WriterFit(pc'[p], call[p], loc'[p], Array, rows, disk_status)
      /\ DeliveryFit(pc'[p], call[p], loc'[p], rows, expect[p])
  BY <1>1, <1>2, <1>6 DEF WriterFit, DeliveryFit
<1> QED
  BY <1>1, <1>2, <1>3, <1>7, LocalMove

\* Otherwise from its mirror.
LEMMA MirrorHealthMove ==
    ASSUME DataInv, ServiceInv, NEW p \in Procs, MirrorHealth(p)
    PROVE  ServiceMove(p)
<1>0. /\ pc[p] \in Labels /\ loc[p] \in LocalTypes /\ Fit(pc[p], call[p], loc[p], heap)
      /\ ServingFit(pc[p], call[p], loc[p], Array)
  BY OneServed DEF ServiceFit
<1>1. /\ pc[p] = "mirror_health" /\ call[p].op = "read" /\ Array.raid_level \in Mirrored
      /\ UNCHANGED <<stored, device, call, latest, expect>> /\ Array.raid_level # "RAID0"
  BY <1>0 DEF MirrorHealth, Mirrored, ServingFit
<1>2. CASE Health(p) # "HEALTHY"
  <2>1. Return(p, -1)
    BY <1>2 DEF MirrorHealth
  <2> HIDE DEF DataInv, TypeOK
  <2> QED
    BY <1>1, <2>1, ReturnMove
<1>3. CASE Health(p) = "HEALTHY"
  <2>1. pc' = [pc EXCEPT ![p] = "read_row"] /\ loc' = [loc EXCEPT ![p].disk = loc[p].red]
    BY <1>3 DEF MirrorHealth
  <2>2. loc'[p] = [loc[p] EXCEPT !.disk = loc[p].red] /\ pc'[p] = "read_row" /\ OnlyMoves(p)
    BY <1>0, <2>1
  <2>3. /\ loc'[p].disk = loc[p].red /\ loc'[p].red = loc[p].red /\ loc'[p].health = loc[p].health
        /\ loc'[p].blk = loc[p].blk /\ loc'[p].sb = loc[p].sb /\ loc'[p].meta = loc[p].meta
    BY <1>0, <2>2
  <2>4. ServingFit(pc'[p], call[p], loc'[p], Array)
    BY <1>0, <1>1, <2>2, <2>3 DEF ServingFit
  <2>5. rows[loc'[p].disk][loc'[p].blk] \in expect[p]
    BY <1>0, <1>1, <2>3, CellsExpected DEF ServingFit
  <2>6. /\ WriterFit(pc'[p], call[p], loc'[p], Array, rows, disk_status)
        /\ DeliveryFit(pc'[p], call[p], loc'[p], rows, expect[p])
    BY <2>2, <2>5 DEF WriterFit, DeliveryFit
  <2> QED
    BY <1>1, <2>2, <2>4, <2>6, LocalMove
<1> QED
  BY <1>2, <1>3

\* The row is read.
LEMMA ReadRowMove ==
    ASSUME DataInv, ServiceInv, NEW p \in Procs, ReadRow(p)
    PROVE  ServiceMove(p)
<1> DEFINE v == rows[loc[p].disk][loc[p].blk]
<1>0. /\ pc[p] \in Labels /\ loc[p] \in LocalTypes
      /\ ServingFit(pc[p], call[p], loc[p], Array) /\ DeliveryFit(pc[p], call[p], loc[p], rows, expect[p])
  BY OneServed DEF ServiceFit
<1>1. /\ pc[p] = "read_row" /\ pc' = [pc EXCEPT ![p] = "done"] /\ loc' = [loc EXCEPT ![p].buf = v, ![p].ret = 0]
      /\ UNCHANGED <<stored, device, call, latest, expect>>
  BY DEF ReadRow
<1>2. v \in expect[p]
  BY <1>0, <1>1 DEF DeliveryFit
<1> HIDE DEF v
<1>3. loc'[p] = [loc[p] EXCEPT !.buf = v, !.ret = 0] /\ pc'[p] = "done" /\ OnlyMoves(p)
  BY <1>0, <1>1
<1>4. loc'[p].buf = v /\ loc'[p].health = loc[p].health
  BY <1>0, <1>3
<1>5. ServingFit(pc'[p], call[p], loc'[p], Array)
  BY <1>0, <1>3, <1>4 DEF ServingFit
<1>6. /\ WriterFit(pc'[p], call[p], loc'[p], Array, rows, disk_status)
      /\ DeliveryFit(pc'[p], call[p], loc'[p], rows, expect[p])
  BY <1>2, <1>3, <1>4 DEF WriterFit, DeliveryFit
<1> QED
  BY <1>1, <1>3, <1>5, <1>6, LocalMove

\* A step that keeps p's locals and leads to a label where p knows nothing of the
\* rows.
LEMMA StayMove ==
    ASSUME NEW p \in Procs, pc[p] \notin {"idle", "write_mirror", "write_row"}, NEW l,
           pc' = [pc EXCEPT ![p] = l], pc \in [Procs -> Labels], loc \in [Procs -> LocalTypes],
           loc' = loc, UNCHANGED <<stored, device, call, latest, expect>>,
           l \notin RepairLabels \union {"idle", "wmirror_health", "write_mirror", "read_parity",
                                      "write_parity", "write_row", "read_row"},
           l = "done" => call[p].op # "read", ServingFit(l, call[p], loc[p], Array)
    PROVE  ServiceMove(p)
<1>1. pc'[p] = l /\ loc'[p] = loc[p] /\ OnlyMoves(p)
  OBVIOUS
<1>2. /\ WriterFit(pc'[p], call[p], loc'[p], Array, rows, disk_status)
      /\ DeliveryFit(pc'[p], call[p], loc'[p], rows, expect[p])
  BY <1>1, Unconcerned
<1> QED
  BY <1>1, <1>2, LocalMove

\* The disk locks.
LEMMA LockMove ==
    ASSUME DataInv, ServiceInv, NEW p \in Procs,
           LockFirst(p) \/ LockSecond(p) \/ UnlockSecond(p) \/ UnlockFirst(p)
    PROVE  ServiceMove(p)
<1>0. /\ pc \in [Procs -> Labels] /\ loc \in [Procs -> LocalTypes]
      /\ Fit(pc[p], call[p], loc[p], heap) /\ ServingFit(pc[p], call[p], loc[p], Array)
  BY OneServed DEF ServiceFit
<1>1. CASE LockFirst(p)
  <2>1. /\ pc[p] = "lock1" /\ pc' = [pc EXCEPT ![p] = "lock2"] /\ loc' = loc
        /\ UNCHANGED <<stored, device, call, latest, expect>>
    BY <1>1 DEF LockFirst
  <2>2. ServingFit("lock2", call[p], loc[p], Array)
    BY <1>0, <2>1 DEF ServingFit
  <2> QED
    BY <1>0, <2>1, <2>2, StayMove
<1>2. CASE LockSecond(p)
  <2> DEFINE l == IF loc[p].sb.raid_level \in Mirrored THEN "wprimary_health" ELSE "read_old"
  <2>1. /\ pc[p] = "lock2" /\ pc' = [pc EXCEPT ![p] = l] /\ loc' = loc
        /\ UNCHANGED <<stored, device, call, latest, expect>>
    BY <1>2 DEF LockSecond
  <2>2. ServingFit(l, call[p], loc[p], Array)
    BY <1>0, <2>1 DEF ServingFit
  <2>3. l \in {"wprimary_health", "read_old"}
    OBVIOUS
  <2> HIDE DEF l
  <2> QED
    BY <1>0, <2>1, <2>2, <2>3, StayMove
<1>3. CASE UnlockSecond(p)
  <2>1. /\ pc[p] = "unlock2" /\ pc' = [pc EXCEPT ![p] = "unlock1"] /\ loc' = loc
        /\ UNCHANGED <<stored, device, call, latest, expect>>
    BY <1>3 DEF UnlockSecond
  <2>2. ServingFit("unlock1", call[p], loc[p], Array)
    BY <1>0, <2>1 DEF ServingFit
  <2> QED
    BY <1>0, <2>1, <2>2, StayMove
<1>4. CASE UnlockFirst(p)
  <2>1. /\ pc[p] = "unlock1" /\ pc' = [pc EXCEPT ![p] = "done"] /\ loc' = loc
        /\ UNCHANGED <<stored, device, call, latest, expect>>
    BY <1>4 DEF UnlockFirst
  <2>2. ServingFit("done", call[p], loc[p], Array) /\ call[p].op # "read"
    BY <1>0, <2>1 DEF ServingFit, Fit, JobInv
  <2> QED
    BY <1>0, <2>1, <2>2, StayMove
<1> QED
  BY <1>1, <1>2, <1>3, <1>4

\* Only an unhealthy primary is skipped.
LEMMA WritePrimaryHealthMove ==
    ASSUME DataInv, ServiceInv, NEW p \in Procs, WritePrimaryHealth(p)
    PROVE  ServiceMove(p)
<1>0. /\ pc \in [Procs -> Labels] /\ loc \in [Procs -> LocalTypes]
      /\ Fit(pc[p], call[p], loc[p], heap) /\ ServingFit(pc[p], call[p], loc[p], Array)
  BY OneServed DEF ServiceFit
<1>1. /\ pc[p] = "wprimary_health" /\ loc' = loc
      /\ UNCHANGED <<stored, device, call, latest, expect>>
      /\ pc' = [pc EXCEPT ![p] = IF Health(p) = "HEALTHY" THEN "write_primary" ELSE "wmirror_health"]
  BY DEF WritePrimaryHealth
<1>2. /\ pc'[p] \in {"write_primary", "wmirror_health"} /\ OnlyMoves(p)
      /\ pc'[p] = "wmirror_health" => Health(p) # "HEALTHY"
  BY <1>0, <1>1
<1>3. ServingFit(pc'[p], call[p], loc'[p], Array)
  BY <1>0, <1>1, <1>2 DEF ServingFit
<1>4. pc'[p] = "wmirror_health" => disk_status[loc[p].disk] # "HEALTHY"
  BY <1>1, <1>2, HealthOf
<1>5. /\ WriterFit(pc'[p], call[p], loc'[p], Array, rows, disk_status)
      /\ DeliveryFit(pc'[p], call[p], loc'[p], rows, expect[p])
  BY <1>1, <1>2, <1>4 DEF WriterFit, DeliveryFit
<1> QED
  BY <1>1, <1>2, <1>3, <1>5, LocalMove

\* The mirror is written if it is healthy.
LEMMA WriteMirrorHealthMove ==
    ASSUME DataInv, ServiceInv, NEW p \in Procs, WriteMirrorHealth(p)
    PROVE  ServiceMove(p)
<1>0. /\ pc \in [Procs -> Labels] /\ loc \in [Procs -> LocalTypes]
      /\ Fit(pc[p], call[p], loc[p], heap) /\ ServingFit(pc[p], call[p], loc[p], Array)
      /\ WriterFit(pc[p], call[p], loc[p], Array, rows, disk_status)
  BY OneServed DEF ServiceFit
<1>1. pc[p] = "wmirror_health" /\ UNCHANGED <<stored, device, call, latest, expect>>
  BY DEF WriteMirrorHealth
<1>2. CASE Health(p) = "HEALTHY"
  <2>1. pc'[p] = "write_mirror" /\ loc' = loc /\ OnlyMoves(p)
    BY <1>0, <1>2 DEF WriteMirrorHealth
  <2>2. ServingFit(pc'[p], call[p], loc'[p], Array)
    BY <1>0, <1>1, <2>1 DEF ServingFit
  <2>3. /\ WriterFit(pc'[p], call[p], loc'[p], Array, rows, disk_status)
        /\ DeliveryFit(pc'[p], call[p], loc'[p], rows, expect[p])
    BY <1>0, <1>1, <2>1 DEF WriterFit, DeliveryFit
  <2> QED
    BY <1>1, <2>1, <2>2, <2>3, LocalMove
<1>3. CASE Health(p) # "HEALTHY"
  <2>1. pc' = [pc EXCEPT ![p] = "unlock2"] /\ loc' = [loc EXCEPT ![p].ret = -1]
    BY <1>3 DEF WriteMirrorHealth
  <2>2. pc'[p] = "unlock2" /\ loc'[p] = [loc[p] EXCEPT !.ret = -1] /\ OnlyMoves(p)
    BY <1>0, <2>1
  <2>3. /\ loc'[p].disk = loc[p].disk /\ loc'[p].red = loc[p].red /\ loc'[p].health = loc[p].health
        /\ loc'[p].blk = loc[p].blk /\ loc'[p].sb = loc[p].sb /\ loc'[p].meta = loc[p].meta
    BY <1>0, <2>2
  <2>4. ServingFit(pc'[p], call[p], loc'[p], Array)
    BY <1>0, <1>1, <2>2, <2>3 DEF ServingFit
  <2>5. /\ WriterFit(pc'[p], call[p], loc'[p], Array, rows, disk_status)
        /\ DeliveryFit(pc'[p], call[p], loc'[p], rows, expect[p])
    BY <2>2, Unconcerned
  <2> QED
    BY <1>1, <2>2, <2>4, <2>5, LocalMove
<1> QED
  BY <1>2, <1>3

\* The old data: a write of what is already there ends here.
LEMMA ReadOldMove ==
    ASSUME DataInv, ServiceInv, NEW p \in Procs, ReadOld(p)
    PROVE  ServiceMove(p)
<1> DEFINE v == rows[loc[p].disk][loc[p].blk]
<1>0. /\ pc \in [Procs -> Labels] /\ loc \in [Procs -> LocalTypes]
      /\ Fit(pc[p], call[p], loc[p], heap) /\ ServingFit(pc[p], call[p], loc[p], Array)
  BY OneServed DEF ServiceFit
<1>1. /\ pc[p] = "read_old" /\ UNCHANGED <<stored, device, call, latest, expect>>
      /\ loc' = [loc EXCEPT ![p].buf = v]
      /\ pc' = [pc EXCEPT ![p] = IF v = call[p].value THEN "unlock2" ELSE "read_parity"]
  BY DEF ReadOld
<1>2. /\ pc'[p] \in {"unlock2", "read_parity"} /\ pc' = [pc EXCEPT ![p] = pc'[p]]
      /\ pc'[p] = "read_parity" => v # call[p].value
  BY <1>0, <1>1
<1> HIDE DEF v
<1>3. loc'[p] = [loc[p] EXCEPT !.buf = v] /\ loc' = [loc EXCEPT ![p] = loc'[p]]
  BY <1>0, <1>1
<1>4. /\ loc'[p].disk = loc[p].disk /\ loc'[p].red = loc[p].red /\ loc'[p].health = loc[p].health
      /\ loc'[p].blk = loc[p].blk /\ loc'[p].sb = loc[p].sb /\ loc'[p].meta = loc[p].meta /\ loc'[p].buf = v
  BY <1>0, <1>3
<1>5. ServingFit(pc'[p], call[p], loc'[p], Array)
  BY <1>0, <1>1, <1>2, <1>4 DEF ServingFit
<1>6. /\ WriterFit(pc'[p], call[p], loc'[p], Array, rows, disk_status)
      /\ DeliveryFit(pc'[p], call[p], loc'[p], rows, expect[p])
  BY <1>2, <1>4 DEF WriterFit, DeliveryFit, v
<1> QED
  BY <1>1, <1>2, <1>3, <1>5, <1>6, LocalMove

\* The old parity.
LEMMA ReadParityMove ==
    ASSUME DataInv, ServiceInv, NEW p \in Procs, ReadParity(p)
    PROVE  ServiceMove(p)
<1> DEFINE v == rows[loc[p].red][loc[p].blk]
<1>0. /\ pc \in [Procs -> Labels] /\ loc \in [Procs -> LocalTypes]
      /\ Fit(pc[p], call[p], loc[p], heap) /\ ServingFit(pc[p], call[p], loc[p], Array)
      /\ WriterFit(pc[p], call[p], loc[p], Array, rows, disk_status)
  BY OneServed DEF ServiceFit
<1>1. /\ pc[p] = "read_parity" /\ UNCHANGED <<stored, device, call, latest, expect>>
      /\ loc' = [loc EXCEPT ![p].par = v] /\ pc' = [pc EXCEPT ![p] = "write_parity"]
  BY DEF ReadParity
<1> HIDE DEF v
<1>3. loc'[p] = [loc[p] EXCEPT !.par = v] /\ pc'[p] = "write_parity" /\ OnlyMoves(p)
  BY <1>0, <1>1
<1>4. /\ loc'[p].disk = loc[p].disk /\ loc'[p].red = loc[p].red /\ loc'[p].health = loc[p].health
      /\ loc'[p].blk = loc[p].blk /\ loc'[p].sb = loc[p].sb /\ loc'[p].meta = loc[p].meta /\ loc'[p].buf = loc[p].buf /\ loc'[p].par = v
  BY <1>0, <1>3
<1>5. ServingFit(pc'[p], call[p], loc'[p], Array)
  BY <1>0, <1>1, <1>3, <1>4 DEF ServingFit
<1>6. /\ WriterFit(pc'[p], call[p], loc'[p], Array, rows, disk_status)
      /\ DeliveryFit(pc'[p], call[p], loc'[p], rows, expect[p])
  BY <1>0, <1>1, <1>3, <1>4 DEF WriterFit, DeliveryFit, v
<1> QED
  BY <1>1, <1>3, <1>5, <1>6, LocalMove

\* raid_system_info.
LEMMA InfoMove ==
    ASSUME DataInv, ServiceInv, NEW p \in Procs, raid_system_info(p)
    PROVE  ServiceMove(p)
<1>0. /\ pc \in [Procs -> Labels] /\ loc \in [Procs -> LocalTypes]
      /\ Fit(pc[p], call[p], loc[p], heap) /\ ServingFit(pc[p], call[p], loc[p], Array)
  BY OneServed DEF ServiceFit
<1>1. CASE InfoCopy(p)
  <2> DEFINE h == heap[loc[p].meta]
  <2>1. /\ pc[p] = "info_copy" /\ UNCHANGED <<stored, device, call, latest, expect>>
        /\ loc' = [loc EXCEPT ![p].sb = h, ![p].ret = 0] /\ pc' = [pc EXCEPT ![p] = "done"]
    BY <1>1 DEF InfoCopy
  <2> HIDE DEF h
  <2>2. loc'[p] = [loc[p] EXCEPT !.sb = h, !.ret = 0] /\ pc'[p] = "done" /\ OnlyMoves(p)
    BY <1>0, <2>1
  <2>3. loc'[p].health = loc[p].health
    BY <1>0, <2>2
  <2>4. ServingFit(pc'[p], call[p], loc'[p], Array)
    BY <1>0, <2>2, <2>3 DEF ServingFit
  <2>5. call[p].op # "read"
    BY <1>0, <2>1 DEF ServingFit
  <2>6. /\ WriterFit(pc'[p], call[p], loc'[p], Array, rows, disk_status)
        /\ DeliveryFit(pc'[p], call[p], loc'[p], rows, expect[p])
    BY <2>2, <2>5, Unconcerned
  <2> QED
    BY <2>1, <2>2, <2>4, <2>6, LocalMove
<1>2. CASE InfoHealth(p)
  <2>1. pc[p] = "info_health" /\ call[p].op = "info" /\ UNCHANGED <<stored, device, call, latest, expect>>
    BY <1>0, <1>2 DEF InfoHealth, Fit, JobInv
  <2>2. CASE Health(p) = "HEALTHY"
    <3>1. pc' = [pc EXCEPT ![p] = "info_copy"] /\ loc' = loc
      BY <1>2, <2>2 DEF InfoHealth
    <3>2. ServingFit("info_copy", call[p], loc[p], Array)
      BY <1>0, <2>1 DEF ServingFit
    <3> QED
      BY <1>0, <2>1, <3>1, <3>2, StayMove
  <2>3. CASE Health(p) # "HEALTHY" /\ loc[p].i < DISKS
    <3>1. pc' = [pc EXCEPT ![p] = "lm_fast"] /\ loc' = [loc EXCEPT ![p].i = loc[p].i + 1]
      BY <1>2, <2>3 DEF InfoHealth
    <3>2. loc'[p] = [loc[p] EXCEPT !.i = loc[p].i + 1] /\ pc'[p] = "lm_fast" /\ OnlyMoves(p)
      BY <1>0, <3>1
    <3>3. loc'[p].health = loc[p].health
      BY <1>0, <3>2
    <3>4. ServingFit(pc'[p], call[p], loc'[p], Array)
      BY <1>0, <3>2, <3>3 DEF ServingFit
    <3>5. /\ WriterFit(pc'[p], call[p], loc'[p], Array, rows, disk_status)
          /\ DeliveryFit(pc'[p], call[p], loc'[p], rows, expect[p])
      BY <3>2, Unconcerned
    <3> QED
      BY <2>1, <3>2, <3>4, <3>5, LocalMove
  <2>4. CASE Health(p) # "HEALTHY" /\ ~(loc[p].i < DISKS)
    <3>1. Return(p, -1)
      BY <1>2, <2>4 DEF InfoHealth
    <3> HIDE DEF DataInv, TypeOK
    <3> QED
      BY <2>1, <3>1, ReturnMove
  <2> QED
    BY <2>2, <2>3, <2>4
<1> QED
  BY <1>1, <1>2 DEF raid_system_info

-----------------------------------------------------------------------------
(* Failing a disk, and a repair up to its writes.                           *)

\* The cells a process works on do not matter for these labels.
LEMMA RepairServing ==
    ASSUME NEW l \in RepairLabels \union {"done"}, NEW c, c.op = "repair", NEW r, r.health = "none", NEW sb
    PROVE  ServingFit(l, c, r, sb)
  BY DEF ServingFit

\* A step of a repair that writes no row.
LEMMA RepairMove ==
    ASSUME NEW p \in Procs, pc[p] \in RepairLabels \union {"repair"},
           pc'[p] \in RepairLabels \union {"done"}, OnlyMoves(p),
           UNCHANGED <<rows, sblock, is_init, superblock, heap, call, latest, expect>>,
           \A d \in Disks : disk_status'[d] = disk_status[d] \/ disk_status'[d] \in {"UNHEALTY", "RECOVERY"},
           call[p].op = "repair", loc'[p].health = "none",
           CopyFit(pc'[p], call[p], loc'[p], Array, rows, disk_status'),
           XorFit(pc'[p], call[p], loc'[p], Array, rows)
    PROVE  ServiceMove(p)
<1>1. ServingFit(pc'[p], call[p], loc'[p], Array)
  BY RepairServing
<1>2. /\ WriterFit(pc'[p], call[p], loc'[p], Array, rows, disk_status')
      /\ DeliveryFit(pc'[p], call[p], loc'[p], rows, expect[p])
  BY Unconcerned
<1> QED
  BY <1>1, <1>2 DEF ServiceMove, ServiceFit

\* What the lemmas take from the invariant about a process that repairs.
LEMMA OneRepairs ==
    ASSUME DataInv, ServiceInv, NEW p \in Procs, pc[p] \in RepairLabels \union {"repair"}
    PROVE  /\ pc \in [Procs -> Labels] /\ loc \in [Procs -> LocalTypes] /\ loc[p] \in LocalTypes
           /\ call[p].op = "repair" /\ loc[p].health = "none"
           /\ pc[p] \in RepairLabels => call[p].disk \in Disks
           /\ CopyFit(pc[p], call[p], loc[p], Array, rows, disk_status)
           /\ XorFit(pc[p], call[p], loc[p], Array, rows)
  BY OneServed DEF ServiceFit, ServingFit, Fit, JobInv

\* raid_fail_disk takes a disk out of service.
LEMMA raid_fail_diskMove ==
    ASSUME DataInv, ServiceInv, NEW p \in Procs, raid_fail_disk(p)
    PROVE  ServiceMove(p)
<1>0. /\ pc \in [Procs -> Labels] /\ loc \in [Procs -> LocalTypes] /\ disk_status \in [0 .. DISKS -> DISK_HEALTH \union {"zero"}]
      /\ ServingFit(pc[p], call[p], loc[p], Array)
  BY OneServed DEF ServiceFit
<1>a. /\ pc' = [pc EXCEPT ![p] = "done"]
      /\ loc' = [loc EXCEPT ![p].ret = 0] \/ loc' = [loc EXCEPT ![p].ret = -1]
      /\ disk_status' = [disk_status EXCEPT ![call[p].disk] = "UNHEALTY"] \/ disk_status' = disk_status
  BY DEF raid_fail_disk, Return
<1>1. PICK x \in {0, -1} : loc' = [loc EXCEPT ![p].ret = x]
  BY <1>a
<1>2. /\ pc[p] = "fail" /\ call[p].op = "fail"
      /\ UNCHANGED <<rows, sblock, is_init, superblock, heap, call, latest, expect>>
  BY <1>0 DEF raid_fail_disk, stored, ServingFit
<1>3. \A d \in Disks : disk_status'[d] = disk_status[d] \/ disk_status'[d] \in {"UNHEALTY", "RECOVERY"}
  BY <1>0, <1>a, DisksAssumption DEF Disks
<1>4. pc'[p] = "done" /\ loc'[p] = [loc[p] EXCEPT !.ret = x] /\ OnlyMoves(p)
  BY <1>0, <1>1, <1>a
<1>5. loc'[p].health = loc[p].health
  BY <1>0, <1>4
<1>6. ServingFit(pc'[p], call[p], loc'[p], Array)
  BY <1>0, <1>4, <1>5 DEF ServingFit
<1>7. /\ WriterFit(pc'[p], call[p], loc'[p], Array, rows, disk_status')
      /\ DeliveryFit(pc'[p], call[p], loc'[p], rows, expect[p])
  BY <1>2, <1>4, Unconcerned
<1>8. /\ CopyFit(pc'[p], call[p], loc'[p], Array, rows, disk_status')
      /\ XorFit(pc'[p], call[p], loc'[p], Array, rows)
  BY <1>4, NotRepairing
<1> QED
  BY <1>2, <1>3, <1>4, <1>6, <1>7, <1>8 DEF ServiceMove, ServiceFit

\* The repair of a disk that does not exist or is healthy is over.
LEMMA RepairHealthMove ==
    ASSUME DataInv, ServiceInv, NEW p \in Procs, RepairHealth(p)
    PROVE  ServiceMove(p)
<1>1. pc[p] = "repair" /\ UNCHANGED <<stored, device, call, latest, expect>>
  BY DEF RepairHealth
<1>0. /\ pc \in [Procs -> Labels] /\ loc \in [Procs -> LocalTypes] /\ loc[p] \in LocalTypes
      /\ call[p].op = "repair" /\ loc[p].health = "none"
  BY <1>1, OneRepairs
<1>2. CASE call[p].disk \notin Disks
  <2>1. Return(p, -2)
    BY <1>2 DEF RepairHealth
  <2> HIDE DEF DataInv, TypeOK
  <2> QED
    BY <1>0, <1>1, <2>1, ReturnMove
<1>3. CASE call[p].disk \in Disks /\ Health(p) = "HEALTHY"
  <2>1. Return(p, 0)
    BY <1>3 DEF RepairHealth
  <2> HIDE DEF DataInv, TypeOK
  <2> QED
    BY <1>0, <1>1, <2>1, ReturnMove
<1>4. CASE call[p].disk \in Disks /\ Health(p) # "HEALTHY"
  <2>1. pc' = [pc EXCEPT ![p] = "repair_count"] /\ loc' = loc
    BY <1>4 DEF RepairHealth
  <2>2. pc'[p] = "repair_count" /\ OnlyMoves(p)
    BY <1>0, <2>1
  <2>3. /\ CopyFit(pc'[p], call[p], loc'[p], Array, rows, disk_status')
        /\ XorFit(pc'[p], call[p], loc'[p], Array, rows)
    BY <2>2 DEF CopyFit, XorFit, CopyLabels
  <2>4. UNCHANGED <<rows, sblock, is_init, superblock, heap, call, latest, expect>> /\ disk_status' = disk_status
    BY <1>1 DEF stored, device
  <2> QED
    BY <1>0, <1>1, <2>1, <2>2, <2>3, <2>4, RepairMove
<1> QED
  BY <1>2, <1>3, <1>4

\* The failed disks are counted.
LEMMA RepairCountMove ==
    ASSUME DataInv, ServiceInv, NEW p \in Procs, RepairCount(p)
    PROVE  ServiceMove(p)
<1> DEFINE n == loc[p].count + (IF Health(p) = "UNHEALTY" THEN 1 ELSE 0)
<1>1. /\ pc[p] = "repair_count" /\ UNCHANGED <<stored, device, call, latest, expect>>
      /\ loc' = [loc EXCEPT ![p].count = n, ![p].i = loc[p].i + 1]
      /\ pc' = [pc EXCEPT ![p] = IF loc[p].i = DISKS THEN "repair_sb" ELSE "repair_count"]
  BY DEF RepairCount
<1>0. /\ pc \in [Procs -> Labels] /\ loc \in [Procs -> LocalTypes] /\ loc[p] \in LocalTypes
      /\ call[p].op = "repair" /\ loc[p].health = "none"
  BY <1>1, OneRepairs
<1> HIDE DEF n
<1>2. /\ pc'[p] \in {"repair_sb", "repair_count"} /\ OnlyMoves(p)
      /\ loc'[p] = [loc[p] EXCEPT !.count = n, !.i = loc[p].i + 1]
  BY <1>0, <1>1
<1>3. loc'[p].health = "none"
  BY <1>0, <1>2
<1>4. /\ CopyFit(pc'[p], call[p], loc'[p], Array, rows, disk_status')
      /\ XorFit(pc'[p], call[p], loc'[p], Array, rows)
  BY <1>2 DEF CopyFit, XorFit, CopyLabels
<1>5. UNCHANGED <<rows, sblock, is_init, superblock, heap, call, latest, expect>> /\ disk_status' = disk_status
  BY <1>1 DEF stored, device
<1> QED
  BY <1>0, <1>1, <1>2, <1>3, <1>4, <1>5, RepairMove

\* The superblock of the failed disk is that of the array.
LEMMA RepairSuperblockMove ==
    ASSUME DataInv, ServiceInv, NEW p \in Procs, RepairSuperblock(p)
    PROVE  ServiceMove(p)
<1>1. /\ pc[p] = "repair_sb" /\ UNCHANGED <<stored, device, call, latest, expect>>
      /\ loc' = [loc EXCEPT ![p].sb = sblock[call[p].disk]] /\ pc' = [pc EXCEPT ![p] = "repair_mark"]
  BY DEF RepairSuperblock
<1>0. /\ pc \in [Procs -> Labels] /\ loc \in [Procs -> LocalTypes] /\ loc[p] \in LocalTypes
      /\ call[p].op = "repair" /\ loc[p].health = "none" /\ call[p].disk \in Disks
  BY <1>1, OneRepairs
<1>2. sblock[call[p].disk] = Array
  BY <1>0 DEF ServiceInv, ArrayInv
<1>3. pc'[p] = "repair_mark" /\ OnlyMoves(p) /\ loc'[p] = [loc[p] EXCEPT !.sb = Array]
  BY <1>0, <1>1, <1>2
<1>4. loc'[p].health = "none" /\ loc'[p].sb = Array
  BY <1>0, <1>3
<1>5. /\ CopyFit(pc'[p], call[p], loc'[p], Array, rows, disk_status')
      /\ XorFit(pc'[p], call[p], loc'[p], Array, rows)
  BY <1>3, <1>4 DEF CopyFit, XorFit, CopyLabels
<1>6. UNCHANGED <<rows, sblock, is_init, superblock, heap, call, latest, expect>> /\ disk_status' = disk_status
  BY <1>1 DEF stored, device
<1> QED
  BY <1>0, <1>1, <1>3, <1>4, <1>5, <1>6, RepairMove

\* handle_recovery marks the disk, and what it attempts depends on the level.
LEMMA handle_recoveryMove ==
    ASSUME DataInv, ServiceInv, NEW p \in Procs, handle_recovery(p)
    PROVE  ServiceMove(p)
<1>1. /\ pc[p] = "repair_mark" /\ disk_status' = [disk_status EXCEPT ![call[p].disk] = "RECOVERY"]
      /\ UNCHANGED <<rows, sblock, is_init, superblock, heap, call, latest, expect>>
  BY DEF handle_recovery, MarkRecovery, stored
<1>0. /\ pc \in [Procs -> Labels] /\ loc \in [Procs -> LocalTypes] /\ loc[p] \in LocalTypes
      /\ call[p].op = "repair" /\ loc[p].health = "none" /\ call[p].disk \in Disks
      /\ CopyFit(pc[p], call[p], loc[p], Array, rows, disk_status)
      /\ disk_status \in [0 .. DISKS -> DISK_HEALTH \union {"zero"}]
  BY <1>1, OneRepairs
<1>2. loc[p].sb = Array
  BY <1>0, <1>1 DEF CopyFit
<1>3. /\ disk_status'[call[p].disk] = "RECOVERY"
      /\ \A d \in Disks : disk_status'[d] = disk_status[d] \/ disk_status'[d] \in {"UNHEALTY", "RECOVERY"}
  BY <1>0, <1>1 DEF Disks
<1>4. CASE Refused(p)
  <2>1. pc' = [pc EXCEPT ![p] = "done"] /\ loc' = [loc EXCEPT ![p].ret = -1]
    BY <1>4 DEF handle_recovery, Return
  <2>2. pc'[p] = "done" /\ loc'[p] = [loc[p] EXCEPT !.ret = -1] /\ OnlyMoves(p)
    BY <1>0, <2>1
  <2>3. loc'[p].health = "none"
    BY <1>0, <2>2
  <2>4. /\ CopyFit(pc'[p], call[p], loc'[p], Array, rows, disk_status')
        /\ XorFit(pc'[p], call[p], loc'[p], Array, rows)
    BY <2>2, NotRepairing
  <2> QED
    BY <1>0, <1>1, <1>3, <2>2, <2>3, <2>4, RepairMove
<1>5. CASE ~Refused(p) /\ Array.raid_level \in Mirrored
  <2> DEFINE x == RecoveryPartner(Array, call[p].disk)
  <2>1. pc' = [pc EXCEPT ![p] = "partner_health"] /\ loc' = [loc EXCEPT ![p].red = x, ![p].i = 0]
    BY <1>2, <1>5 DEF handle_recovery, Mirrored, Parity
  <2> HIDE DEF x
  <2>2. pc'[p] = "partner_health" /\ loc'[p] = [loc[p] EXCEPT !.red = x, !.i = 0] /\ OnlyMoves(p)
    BY <1>0, <2>1
  <2>3. loc'[p].health = "none" /\ loc'[p].red = x
    BY <1>0, <2>2
  <2>4. /\ CopyFit(pc'[p], call[p], loc'[p], Array, rows, disk_status')
        /\ XorFit(pc'[p], call[p], loc'[p], Array, rows)
    BY <1>3, <1>5, <2>2, <2>3 DEF CopyFit, CopyLabels, XorFit, x
  <2> QED
    BY <1>0, <1>1, <1>3, <2>2, <2>3, <2>4, RepairMove
<1>6. CASE ~Refused(p) /\ Array.raid_level \in Parity
  <2>1. pc' = [pc EXCEPT ![p] = "xor_read"] /\ loc' = [loc EXCEPT ![p].i = 1, ![p].j = 0]
    BY <1>2, <1>6 DEF handle_recovery, Mirrored, Parity
  <2>2. pc'[p] = "xor_read" /\ loc'[p] = [loc[p] EXCEPT !.i = 1, !.j = 0] /\ OnlyMoves(p)
    BY <1>0, <2>1
  <2>3. loc'[p].health = "none" /\ loc'[p].j = 0
    BY <1>0, <2>2
  <2>4. CopyFit(pc'[p], call[p], loc'[p], Array, rows, disk_status')
    BY <2>2 DEF CopyFit, CopyLabels
  <2>5. call[p].disk + 0 <= DISKS
    BY <1>0, DisksAssumption DEF Disks
  <2>6. XorFit(pc'[p], call[p], loc'[p], Array, rows)
    BY <1>6, <2>2, <2>3, <2>5 DEF XorFit
  <2> QED
    BY <1>0, <1>1, <1>3, <2>2, <2>3, <2>4, <2>6, RepairMove
<1>7. Refused(p) \/ Array.raid_level \in Mirrored \/ Array.raid_level \in Parity
  <2>1. Array.raid_level \in RAID_TYPE
    BY ArrayServed, SuperblockFields
  <2> QED
    BY <1>2, <2>1 DEF Refused, RAID_TYPE, Mirrored, Parity
<1> QED
  BY <1>4, <1>5, <1>6, <1>7

\* A disk is copied only from a healthy partner.
LEMMA PartnerHealthMove ==
    ASSUME DataInv, ServiceInv, NEW p \in Procs, PartnerHealth(p)
    PROVE  ServiceMove(p)
<1>1. pc[p] = "partner_health" /\ UNCHANGED <<stored, device, call, latest, expect>>
  BY DEF PartnerHealth
<1>0. /\ pc \in [Procs -> Labels] /\ loc \in [Procs -> LocalTypes] /\ loc[p] \in LocalTypes
      /\ call[p].op = "repair" /\ loc[p].health = "none" /\ call[p].disk \in Disks
      /\ CopyFit(pc[p], call[p], loc[p], Array, rows, disk_status)
  BY <1>1, OneRepairs
<1>2. CASE Health(p) # "HEALTHY"
  <2>1. Return(p, -1)
    BY <1>2 DEF PartnerHealth
  <2> HIDE DEF DataInv, TypeOK
  <2> QED
    BY <1>0, <1>1, <2>1, ReturnMove
<1>3. CASE Health(p) = "HEALTHY"
  <2>1. pc' = [pc EXCEPT ![p] = "copy_read"] /\ loc' = loc
    BY <1>3 DEF PartnerHealth
  <2>2. pc'[p] = "copy_read" /\ OnlyMoves(p)
    BY <1>0, <2>1
  <2>3. loc[p].red \in Disks /\ disk_status[loc[p].red] = "HEALTHY"
    BY <1>1, <1>3, HealthOf DEF HealthDisk
  <2>4. loc[p].i = 0
    BY <1>1, OneServed DEF Fit, RecoveryInv
  <2>5. UNCHANGED <<rows, sblock, is_init, superblock, heap, call, latest, expect>> /\ disk_status' = disk_status
    BY <1>1 DEF stored, device
  <2>6. CopyFit(pc'[p], call[p], loc'[p], Array, rows, disk_status)
    BY <1>0, <1>1, <2>1, <2>2, <2>3, <2>4 DEF CopyFit, CopyLabels, Rows
  <2>7. XorFit(pc'[p], call[p], loc'[p], Array, rows)
    BY <2>2 DEF XorFit
  <2> QED
    BY <1>0, <1>1, <2>1, <2>2, <2>5, <2>6, <2>7, RepairMove
<1> QED
  BY <1>2, <1>3

\* mirrorRecovery reads a row of the partner.
LEMMA CopyReadMove ==
    ASSUME DataInv, ServiceInv, NEW p \in Procs, CopyRead(p)
    PROVE  ServiceMove(p)
<1>1. /\ pc[p] = "copy_read" /\ UNCHANGED <<stored, device, call, latest, expect>>
      /\ pc' = [pc EXCEPT ![p] = "copy_write"]
  BY DEF CopyRead
<1>0. /\ pc \in [Procs -> Labels] /\ loc \in [Procs -> LocalTypes] /\ loc[p] \in LocalTypes
      /\ call[p].op = "repair" /\ loc[p].health = "none" /\ call[p].disk \in Disks
      /\ CopyFit(pc[p], call[p], loc[p], Array, rows, disk_status)
  BY <1>1, OneRepairs
<1>2. UNCHANGED <<rows, sblock, is_init, superblock, heap, call, latest, expect>> /\ disk_status' = disk_status
  BY <1>1 DEF stored, device
<1>3. loc[p].red \in Disks
  BY <1>0, <1>1 DEF CopyFit, CopyLabels
<1>4. sblock[loc[p].red] = Array
  BY <1>3 DEF ServiceInv, ArrayInv
<1> DEFINE v == rows[loc[p].red][loc[p].i]
<1>5. CASE loc[p].i = 0
  <2>1. loc' = [loc EXCEPT ![p].sb = Array]
    BY <1>4, <1>5 DEF CopyRead
  <2>2. loc'[p] = [loc[p] EXCEPT !.sb = Array] /\ pc'[p] = "copy_write" /\ OnlyMoves(p)
    BY <1>0, <1>1, <2>1
  <2>3. loc'[p].sb = Array /\ loc'[p].i = loc[p].i /\ loc'[p].red = loc[p].red /\ loc'[p].health = "none"
    BY <1>0, <2>2
  <2>4. CopyFit(pc'[p], call[p], loc'[p], Array, rows, disk_status)
    BY <1>0, <1>1, <1>5, <2>2, <2>3 DEF CopyFit, CopyLabels
  <2>5. XorFit(pc'[p], call[p], loc'[p], Array, rows)
    BY <2>2 DEF XorFit
  <2> QED
    BY <1>0, <1>1, <1>2, <2>2, <2>3, <2>4, <2>5, RepairMove
<1>6. CASE loc[p].i # 0
  <2>1. loc' = [loc EXCEPT ![p].buf = v]
    BY <1>6 DEF CopyRead
  <2> HIDE DEF v
  <2>2. loc'[p] = [loc[p] EXCEPT !.buf = v] /\ pc'[p] = "copy_write" /\ OnlyMoves(p)
    BY <1>0, <1>1, <2>1
  <2>3. loc'[p].buf = v /\ loc'[p].i = loc[p].i /\ loc'[p].red = loc[p].red /\ loc'[p].health = "none"
    BY <1>0, <2>2
  <2>4. CopyFit(pc'[p], call[p], loc'[p], Array, rows, disk_status)
    BY <1>0, <1>1, <1>6, <2>2, <2>3 DEF CopyFit, CopyLabels, v
  <2>5. XorFit(pc'[p], call[p], loc'[p], Array, rows)
    BY <2>2 DEF XorFit
  <2> QED
    BY <1>0, <1>1, <1>2, <2>2, <2>3, <2>4, <2>5, RepairMove
<1> QED
  BY <1>5, <1>6

\* The disk that is read in round j: disk 0 once the last disk has been read.
LEMMA NextSource ==
    ASSUME NEW d \in Disks, NEW j \in Nat, d + j <= DISKS
    PROVE  RecoverySource(d, j) = IF d + j = DISKS THEN 0 ELSE d + j + 1
  BY DisksAssumption DEF RecoverySource, Disks

\* raid4_and_5_recovery reads a disk; what is repaired with the XOR of all of
\* them is disk 1.
LEMMA XorReadMove ==
    ASSUME DataInv, ServiceInv, NEW p \in Procs, XorRead(p)
    PROVE  ServiceMove(p) \/ Panic(p)
<1> DEFINE s == RecoverySource(call[p].disk, loc[p].j)
           v == IF loc[p].j = 0 THEN rows[s][loc[p].i] ELSE Xor(loc[p].buf, rows[s][loc[p].i])
<1>1. pc[p] = "xor_read"
  BY DEF XorRead
<1>0. /\ pc \in [Procs -> Labels] /\ loc \in [Procs -> LocalTypes] /\ loc[p] \in LocalTypes
      /\ call[p].op = "repair" /\ loc[p].health = "none" /\ call[p].disk \in Disks
      /\ XorFit(pc[p], call[p], loc[p], Array, rows) /\ loc[p].j \in Nat
      /\ rows \in [Disks -> [Rows -> {0, 1}]]
  BY <1>1, OneRepairs
<1>2. Array.raid_level \in Parity /\ call[p].disk + loc[p].j <= DISKS
  BY <1>0, <1>1 DEF XorFit
<1>3. s = IF call[p].disk + loc[p].j = DISKS THEN 0 ELSE call[p].disk + loc[p].j + 1
  BY <1>0, <1>2, NextSource
<1> HIDE DEF s
<1>4. CASE s = 0
  BY <1>4 DEF XorRead, s
<1>5. CASE s # 0
  <2>1. /\ loc' = [loc EXCEPT ![p].buf = v, ![p].j = loc[p].j + 1]
        /\ pc' = [pc EXCEPT ![p] = IF loc[p].j = DISKS - 2 THEN "xor_write" ELSE "xor_read"]
        /\ UNCHANGED <<stored, device, call, latest, expect>>
    BY <1>5 DEF XorRead, s
  <2>2. UNCHANGED <<rows, sblock, is_init, superblock, heap, call, latest, expect>> /\ disk_status' = disk_status
    BY <2>1 DEF stored, device
  <2>3. call[p].disk + loc[p].j + 1 <= DISKS /\ DISKS \in Nat /\ call[p].disk \in Nat /\ call[p].disk >= 1
    <3>1. call[p].disk \in Nat /\ call[p].disk >= 1 /\ DISKS \in Nat
      BY <1>0, DisksAssumption DEF Disks
    <3>2. call[p].disk + loc[p].j # DISKS
      BY <1>3, <1>5
    <3>3. \A a, b, c \in Nat : a + b <= c /\ a + b # c => a + b + 1 <= c
      OBVIOUS
    <3>4. loc[p].j \in Nat
      BY <1>0
    <3> QED
      BY <1>2, <3>1, <3>2, <3>3, <3>4
  <2>4. loc[p].i \in Rows
    BY <1>1, OneServed DEF Fit, RecoveryInv
  <2>5. call[p].disk = 1 => v = Cardinality(Ones(rows, loc[p].i, loc[p].j + 2)) % 2
    <3>1. SUFFICES ASSUME call[p].disk = 1
                   PROVE  v = Cardinality(Ones(rows, loc[p].i, loc[p].j + 2)) % 2
      OBVIOUS
    <3>2. s = loc[p].j + 2 /\ loc[p].j + 2 <= DISKS
      BY <1>0, <1>3, <1>5, <2>3, <3>1
    <3>3. loc[p].j > 0 => loc[p].buf = Cardinality(Ones(rows, loc[p].i, loc[p].j + 1)) % 2
      BY <1>0, <1>1, <3>1 DEF XorFit
    <3>4. (IF loc[p].j = 0 THEN rows[loc[p].j + 2][loc[p].i] ELSE Xor(loc[p].buf, rows[loc[p].j + 2][loc[p].i]))
              = Cardinality(Ones(rows, loc[p].i, loc[p].j + 2)) % 2
      <4>1. rows \in [Disks -> [Rows -> {0, 1}]] /\ loc[p].j \in Nat
        BY <1>0
      <4> HIDE DEF DataInv, TypeOK, LocalTypes, v
      <4> QED
        BY <2>4, <3>2, <3>3, <4>1, RunningXor
    <3> QED
      BY <3>2, <3>4
  <2> HIDE DEF v
  <2>6. /\ loc'[p] = [loc[p] EXCEPT !.buf = v, !.j = loc[p].j + 1] /\ OnlyMoves(p)
        /\ pc'[p] = IF loc[p].j = DISKS - 2 THEN "xor_write" ELSE "xor_read"
    BY <1>0, <2>1
  <2>7. loc'[p].buf = v /\ loc'[p].j = loc[p].j + 1 /\ loc'[p].i = loc[p].i /\ loc'[p].health = "none"
    BY <1>0, <2>6
  <2>8. pc'[p] \in {"xor_read", "xor_write"}
    BY <2>6
  <2>9. CopyFit(pc'[p], call[p], loc'[p], Array, rows, disk_status)
    BY <2>8 DEF CopyFit, CopyLabels
  <2>10. pc'[p] = "xor_read" => call[p].disk + loc'[p].j <= DISKS
    BY <1>0, <2>3, <2>7
  <2>11. pc'[p] = "xor_write" => call[p].disk = 1 /\ loc'[p].j = DISKS - 1
    BY <1>0, <2>3, <2>6, <2>7
  <2>12. loc'[p].j + 1 = loc[p].j + 2
    BY <1>0, <2>7
  <2>13. XorFit(pc'[p], call[p], loc'[p], Array, rows)
    BY <1>2, <2>5, <2>7, <2>10, <2>11, <2>12 DEF XorFit
  <2> QED
    BY <1>0, <1>1, <2>2, <2>6, <2>7, <2>8, <2>9, <2>13, RepairMove
<1> QED
  BY <1>4, <1>5

-----------------------------------------------------------------------------
(* The writes of a repair.                                                  *)

\* Nobody else runs a call.
LEMMA Alone ==
    ASSUME DataInv, ServiceInv, NEW p \in Procs, pc[p] \in RepairLabels, NEW q \in Procs, q # p
    PROVE  pc[q] = "idle"
<1>1. call[p].op = "repair" /\ pc[p] # "idle"
  BY OneRepairs
<1> QED
  BY <1>1 DEF ServiceInv, RepairAlone

\* raid4_and_5_recovery writes to disk 1 what the row's parity says of it, which
\* is what it held.
LEMMA XorWriteMove ==
    ASSUME DataInv, ServiceInv, NEW p \in Procs, XorWrite(p)
    PROVE  ServiceMove(p)
<1>1. /\ pc[p] = "xor_write" /\ UNCHANGED <<sblock, device, call, latest, expect>>
      /\ rows' = [rows EXCEPT ![call[p].disk][loc[p].i] = loc[p].buf]
      /\ loc' = [loc EXCEPT ![p].i = loc[p].i + 1, ![p].j = 0]
      /\ pc' = [pc EXCEPT ![p] = IF loc[p].i = LastRow THEN "repair_done" ELSE "xor_read"]
  BY DEF XorWrite
<1>0. /\ pc \in [Procs -> Labels] /\ loc \in [Procs -> LocalTypes] /\ loc[p] \in LocalTypes
      /\ call[p].op = "repair" /\ loc[p].health = "none" /\ call[p].disk \in Disks
      /\ XorFit(pc[p], call[p], loc[p], Array, rows)
      /\ rows \in [Disks -> [Rows -> {0, 1}]]
  BY <1>1, OneRepairs
<1>2. Array.raid_level \in Parity /\ call[p].disk = 1 /\ loc[p].j = DISKS - 1
  BY <1>0, <1>1 DEF XorFit
<1>3. loc[p].j > 0 /\ loc[p].j + 1 = DISKS
  BY <1>2, DisksAssumption
<1>4. loc[p].buf = Cardinality(Ones(rows, loc[p].i, DISKS)) % 2
  BY <1>0, <1>1, <1>2, <1>3 DEF XorFit
<1>5. loc[p].i \in Rows
  BY <1>1, OneServed DEF Fit, RecoveryInv
<1>6. EvenRow(rows, loc[p].i)
  <2>1. ASSUME NEW q \in Procs PROVE pc[q] # "write_row"
    <3>1. q = p \/ pc[q] = "idle"
      BY <1>1, Alone
    <3> QED
      BY <1>1, <3>1
  <2> QED
    BY <1>2, <1>5, <2>1 DEF ServiceInv, ParityRows
<1>7. rows[1][loc[p].i] = loc[p].buf
  <2> HIDE DEF DataInv, TypeOK, LocalTypes
  <2>1. rows \in [Disks -> [Rows -> {0, 1}]]
    BY <1>0
  <2> QED
    BY <1>4, <1>5, <1>6, <2>1, FirstIsXor
<1>8. rows' = rows
  BY <1>0, <1>1, <1>2, <1>5, <1>7
<1>9. UNCHANGED <<rows, sblock, is_init, superblock, heap, call, latest, expect>> /\ disk_status' = disk_status
  BY <1>1, <1>8 DEF device
<1>10. /\ pc'[p] \in {"repair_done", "xor_read"} /\ OnlyMoves(p)
       /\ loc'[p] = [loc[p] EXCEPT !.i = loc[p].i + 1, !.j = 0]
  BY <1>0, <1>1
<1>11. loc'[p].health = "none" /\ loc'[p].j = 0
  BY <1>0, <1>10
<1>12. CopyFit(pc'[p], call[p], loc'[p], Array, rows, disk_status)
  BY <1>2, <1>10 DEF CopyFit, CopyLabels, Mirrored, Parity
<1>13. call[p].disk + 0 <= DISKS
  BY <1>2, DisksAssumption
<1>14. XorFit(pc'[p], call[p], loc'[p], Array, rows)
  BY <1>2, <1>10, <1>11, <1>13 DEF XorFit
<1> QED
  BY <1>0, <1>1, <1>9, <1>10, <1>11, <1>12, <1>14, RepairMove

\* A step of a repair that changes what the cells hold or what is known of them.
LEMMA RepairStep ==
    ASSUME DataInv, ServiceInv, NEW p \in Procs, pc[p] \in RepairLabels,
           pc'[p] \in RepairLabels \union {"done"}, OnlyMoves(p),
           UNCHANGED <<sblock, is_init, superblock, heap, call, latest, expect>>,
           \A d \in Disks : disk_status'[d] = disk_status[d] \/ disk_status'[d] = "HEALTHY",
           PlainCells', MirrorCells', PrimaryCells', ParityRows',
           call[p].op = "repair", loc'[p].health = "none",
           CopyFit(pc'[p], call[p], loc'[p], Array, rows', disk_status'),
           XorFit(pc'[p], call[p], loc'[p], Array, rows')
    PROVE  ServiceInv'
<1>0. Array' = Array
  BY DEF Array
<1>1. ArrayInv'
  BY <1>0 DEF ServiceInv, ArrayInv
<1>2. ASSUME NEW q \in Procs, q # p PROVE pc[q] = "idle" /\ pc'[q] = "idle"
  <2>1. pc'[q] = pc[q]
    BY <1>2
  <2> HIDE DEF DataInv, TypeOK
  <2> QED
    BY <1>2, <2>1, Alone
<1>3. ASSUME NEW q \in Procs PROVE Expects(q)'
  <2>1. Expects(q) /\ (pc'[q] # "idle" => pc[q] # "idle")
    BY <1>2, OneServed
  <2>2. ASSUME NEW x \in Procs PROVE ~Writing(x, call[q].block)' /\ call'[q] = call[q]
    BY <1>2 DEF Writing
  <2> QED
    BY <2>1, <2>2 DEF Expects
<1>4. ServiceFit(pc'[p], call[p], loc'[p], Array, rows', disk_status', expect'[p])
  <2>1. ServingFit(pc'[p], call[p], loc'[p], Array)
    BY RepairServing
  <2>2. /\ WriterFit(pc'[p], call[p], loc'[p], Array, rows', disk_status')
        /\ DeliveryFit(pc'[p], call[p], loc'[p], rows', expect'[p])
    BY Unconcerned
  <2> QED
    BY <2>1, <2>2 DEF ServiceFit
<1>5. ASSUME NEW q \in Procs \ {p}
      PROVE  /\ WriterFit(pc[q], call[q], loc[q], Array, rows', disk_status')
             /\ DeliveryFit(pc[q], call[q], loc[q], rows', expect'[q])
  BY <1>2, Unconcerned
<1> HIDE DEF DataInv, TypeOK
<1> QED
  BY <1>0, <1>1, <1>3, <1>4, <1>5, ServiceStep

\* The partner of a primary disk is its mirror, and that of a mirror its primary.
LEMMA PartnerOf ==
    ASSUME NEW sb \in Superblocks, sb.raid_level \in Mirrored, NEW d \in Disks,
           RecoveryPartner(sb, d) \in Disks, NEW b \in Addresses(sb)
    PROVE  /\ disk_num(sb, b) = d => RecoveryPartner(sb, d) = RedundantDisk(sb, b)
           /\ RedundantDisk(sb, b) = d => RecoveryPartner(sb, d) = disk_num(sb, b)
           /\ RecoveryPartner(sb, d) # d
<1>1. RedundantDisk(sb, b) = disk_num(sb, b) + sb.num_of_disks
  BY DEF RedundantDisk, Mirrored
<1>2. sb.num_of_disks \in Nat /\ sb.num_of_disks > 0
  BY SuperblockFields
<1>3. disk_num(sb, b) \in Disks
  BY LocationInRange DEF Home
<1>4. disk_num(sb, b) <= sb.num_of_disks
  <2>1. CASE sb.raid_level = "RAID1"
    BY <2>1, <1>2, Raid1Location DEF Mirrored
  <2>2. CASE sb.raid_level = "RAID0_1"
    BY <2>2, <1>2, StripedLocation DEF Mirrored
  <2> QED
    BY <2>1, <2>2 DEF Mirrored
<1> QED
  BY <1>1, <1>2, <1>3, <1>4 DEF RecoveryPartner, Disks


\* mirrorRecovery writes a row: what is copied to a mirror is current, because
\* its primary is healthy, and a primary that is copied to is out of service.
LEMMA CopyWriteServed ==
    ASSUME DataInv, ServiceInv, NEW p \in Procs, CopyWrite(p)
    PROVE  ServiceInv'
<1> DEFINE d == call[p].disk
           i == loc[p].i
<1>1. /\ pc[p] = "copy_write" /\ UNCHANGED <<device, call, latest, expect>>
      /\ loc' = [loc EXCEPT ![p].i = i + 1]
      /\ pc' = [pc EXCEPT ![p] = IF i = LastRow THEN "repair_done" ELSE "copy_read"]
  BY DEF CopyWrite
<1>0. /\ pc \in [Procs -> Labels] /\ loc \in [Procs -> LocalTypes] /\ loc[p] \in LocalTypes
      /\ call[p].op = "repair" /\ loc[p].health = "none" /\ call[p].disk \in Disks
      /\ CopyFit(pc[p], call[p], loc[p], Array, rows, disk_status)
      /\ rows \in [Disks -> [Rows -> {0, 1}]] /\ sblock \in [Disks -> Superblocks \union {Zero}]
  BY <1>1, OneRepairs
<1>2. /\ Array.raid_level \in Mirrored /\ disk_status[d] # "HEALTHY"
      /\ loc[p].red \in Disks /\ loc[p].red = RecoveryPartner(Array, d) /\ disk_status[loc[p].red] = "HEALTHY"
      /\ \A k \in Rows : k < i => rows[d][k] = rows[loc[p].red][k]
      /\ IF i = 0 THEN loc[p].sb = Array ELSE loc[p].buf = rows[loc[p].red][i]
  BY <1>0, <1>1 DEF CopyFit, CopyLabels
<1>3. i \in 0 .. (BlocksPerDisk - 1) /\ BlocksPerDisk \in Nat
  BY <1>1, OneServed, BlocksAssumption DEF Fit, RecoveryInv
<1>4. /\ pc'[p] = (IF i = LastRow THEN "repair_done" ELSE "copy_read") /\ OnlyMoves(p)
      /\ loc'[p] = [loc[p] EXCEPT !.i = i + 1]
  BY <1>0, <1>1
<1>5. loc'[p].health = "none" /\ loc'[p].i = i + 1 /\ loc'[p].red = loc[p].red
  BY <1>0, <1>4
<1>6. /\ UNCHANGED <<is_init, superblock, heap, disk_status>>
      /\ Array' = Array /\ Array \in Superblocks
  BY <1>1, ArrayServed DEF device, Array
<1>7. pc'[p] \in {"repair_done", "copy_read"} /\ (pc'[p] = "repair_done" => i + 1 = BlocksPerDisk)
  BY <1>3, <1>4 DEF LastRow
<1>8. XorFit(pc'[p], call[p], loc'[p], Array, rows')
  BY <1>7 DEF XorFit
<1>9. CASE i = 0
  <2>1. sblock' = sblock /\ rows' = rows
    <3>1. sblock[d] = Array
      BY <1>0 DEF ServiceInv, ArrayInv
    <3>2. sblock' = [sblock EXCEPT ![d] = Array] /\ rows' = rows
      BY <1>2, <1>9 DEF CopyWrite
    <3> QED
      BY <1>0, <3>1, <3>2
  <2>2. \A k \in Rows : ~(k < 1)
    BY DEF Rows
  <2>3. CopyFit(pc'[p], call[p], loc'[p], Array, rows', disk_status')
    BY <1>2, <1>5, <1>6, <1>7, <1>9, <2>1, <2>2 DEF CopyFit, CopyLabels
  <2>4. ServiceMove(p)
    BY <1>0, <1>1, <1>4, <1>5, <1>6, <1>7, <1>8, <2>1, <2>3, RepairMove
  <2> HIDE DEF DataInv, TypeOK
  <2> QED
    BY <2>4, ServiceMoveStep
<1>10. CASE i # 0
  <2>1. sblock' = sblock /\ rows' = [rows EXCEPT ![d][i] = rows[loc[p].red][i]]
    BY <1>2, <1>10 DEF CopyWrite
  <2>2. i \in Rows
    BY <1>3, <1>10 DEF Rows
  <2>3. \A e \in Disks, k \in Rows : rows'[e][k] = IF e = d /\ k = i THEN rows[loc[p].red][i] ELSE rows[e][k]
    BY <1>0, <2>1, <2>2
  <2>4. \A b \in Addresses(Array) :
            /\ disk_num(Array, b) \in Disks /\ RedundantDisk(Array, b) \in Disks /\ blkc_num(Array, b) \in Rows
            /\ RedundantDisk(Array, b) = d => loc[p].red = disk_num(Array, b)
            /\ loc[p].red # d
    <3>1. Array.raid_level # "RAID0"
      BY <1>2 DEF Mirrored
    <3> HIDE DEF DataInv, TypeOK, d, i
    <3>2. d \in Disks
      BY <1>0 DEF d
    <3> QED
      BY <1>2, <1>6, <3>1, <3>2, PartnerOf, LocationInRange DEF Home, Redundant
  <2>5. loc[p].red # d
    <3>1. Array.num_of_disks \in Nat /\ Array.num_of_disks > 0
      BY <1>6, SuperblockFields
    <3>2. d \in Nat
      BY <1>0 DEF Disks
    <3> HIDE DEF d
    <3> QED
      BY <1>2, <3>1, <3>2 DEF RecoveryPartner
  <2>6. PlainCells' /\ ParityRows'
    BY <1>2, <1>6 DEF PlainCells, ParityRows, Mirrored, Parity
  <2>7. ASSUME NEW q \in Procs PROVE pc[q] # "write_mirror"
    <3>1. q = p \/ pc[q] = "idle"
      BY <1>1, Alone
    <3> QED
      BY <1>1, <3>1
  <2>8. MirrorCells'
    <3> SUFFICES ASSUME NEW b \in Addresses(Array)
                 PROVE  rows'[RedundantDisk(Array, b)][blkc_num(Array, b)] = latest[b]
      BY <1>1, <1>6 DEF MirrorCells
    <3>1. rows[RedundantDisk(Array, b)][blkc_num(Array, b)] = latest[b]
      BY <1>2 DEF ServiceInv, MirrorCells
    <3>2. disk_status[disk_num(Array, b)] = "HEALTHY" => rows[disk_num(Array, b)][blkc_num(Array, b)] = latest[b]
      BY <1>2, <2>7 DEF ServiceInv, PrimaryCells
    <3> HIDE DEF DataInv, TypeOK, d, i
    <3> QED
      BY <1>2, <2>3, <2>4, <3>1, <3>2
  <2>9. PrimaryCells'
    <3> SUFFICES ASSUME NEW b \in Addresses(Array), disk_status[disk_num(Array, b)] = "HEALTHY"
                 PROVE  rows'[disk_num(Array, b)][blkc_num(Array, b)] = latest[b]
      BY <1>1, <1>6 DEF PrimaryCells
    <3>1. rows[disk_num(Array, b)][blkc_num(Array, b)] = latest[b]
      BY <1>2, <2>7 DEF ServiceInv, PrimaryCells
    <3> HIDE DEF DataInv, TypeOK, d, i
    <3> QED
      BY <1>2, <2>3, <2>4, <3>1
  <2>10. \A k \in Rows : k < i + 1 => rows'[d][k] = rows'[loc[p].red][k]
    <3>1. \A k \in Rows : k < i + 1 => k < i \/ k = i
      BY <1>3 DEF Rows
    <3>2. d \in Disks
      BY <1>0
    <3> HIDE DEF DataInv, TypeOK, d, i
    <3> QED
      BY <1>2, <2>3, <2>5, <3>1, <3>2
  <2>11. CopyFit(pc'[p], call[p], loc'[p], Array, rows', disk_status')
    BY <1>2, <1>5, <1>6, <1>7, <2>10 DEF CopyFit, CopyLabels
  <2>12. pc[p] \in RepairLabels /\ pc'[p] \in RepairLabels /\ call' = call /\ latest' = latest /\ expect' = expect
    BY <1>1, <1>7
  <2> HIDE DEF DataInv, TypeOK
  <2> QED
    BY <1>0, <1>4, <1>5, <1>6, <1>8, <2>1, <2>6, <2>8, <2>9, <2>11, <2>12, RepairStep
<1> QED
  BY <1>9, <1>10

\* A disk goes back into service with what its mirror has.
LEMMA RepairDoneServed ==
    ASSUME DataInv, ServiceInv, NEW p \in Procs, RepairDone(p)
    PROVE  ServiceInv'
<1> DEFINE d == call[p].disk
<1>1. /\ pc[p] = "repair_done" /\ UNCHANGED <<rows, sblock, is_init, superblock, heap, call, latest, expect>>
      /\ loc' = [loc EXCEPT ![p].ret = 0] /\ pc' = [pc EXCEPT ![p] = "done"]
      /\ disk_status' = [disk_status EXCEPT ![d] = "HEALTHY"]
  BY DEF RepairDone, Return, stored
<1>0. /\ pc \in [Procs -> Labels] /\ loc \in [Procs -> LocalTypes] /\ loc[p] \in LocalTypes
      /\ call[p].op = "repair" /\ loc[p].health = "none" /\ call[p].disk \in Disks
      /\ CopyFit(pc[p], call[p], loc[p], Array, rows, disk_status)
      /\ disk_status \in [0 .. DISKS -> DISK_HEALTH \union {"zero"}]
  BY <1>1, OneRepairs
<1>2. loc'[p] = [loc[p] EXCEPT !.ret = 0] /\ OnlyMoves(p) /\ pc'[p] = "done"
  BY <1>0, <1>1
<1>3. loc'[p].health = "none"
  BY <1>0, <1>2
<1>4. Array' = Array /\ Array \in Superblocks
  BY <1>1, ArrayServed DEF Array
<1>5. \A e \in Disks : disk_status'[e] = IF e = d THEN "HEALTHY" ELSE disk_status[e]
  BY <1>0, <1>1, DisksAssumption DEF Disks
<1>6. PlainCells' /\ MirrorCells'
  BY <1>1, <1>4 DEF ServiceInv, PlainCells, MirrorCells
<1>7. ASSUME NEW q \in Procs PROVE pc[q] \notin {"write_mirror", "write_row"}
  <2>1. q = p \/ pc[q] = "idle"
    BY <1>1, Alone
  <2> QED
    BY <1>1, <2>1
<1>8. ParityRows'
  <2> SUFFICES ASSUME Array.raid_level \in Parity, NEW r \in Rows PROVE EvenRow(rows, r)
    BY <1>1, <1>4 DEF ParityRows
  <2> QED
    BY <1>7 DEF ServiceInv, ParityRows
<1>9. PrimaryCells'
  <2> SUFFICES ASSUME Array.raid_level \in Mirrored, NEW b \in Addresses(Array),
                      disk_status'[disk_num(Array, b)] = "HEALTHY"
               PROVE  rows[disk_num(Array, b)][blkc_num(Array, b)] = latest[b]
    BY <1>1, <1>4 DEF PrimaryCells
  <2>1. disk_num(Array, b) \in Disks /\ blkc_num(Array, b) \in Rows
    BY <1>4, LocationInRange DEF Home
  <2>2. CASE disk_num(Array, b) # d
    BY <1>5, <1>7, <2>1, <2>2 DEF ServiceInv, PrimaryCells
  <2>3. CASE disk_num(Array, b) = d
    <3>1. /\ loc[p].red \in Disks /\ loc[p].red = RecoveryPartner(Array, d)
          /\ \A k \in Rows : k < BlocksPerDisk => rows[d][k] = rows[loc[p].red][k]
      BY <1>0, <1>1 DEF CopyFit
    <3>2. blkc_num(Array, b) < BlocksPerDisk
      BY <2>1, BlocksAssumption DEF Rows
    <3>3. rows[RedundantDisk(Array, b)][blkc_num(Array, b)] = latest[b]
      BY DEF ServiceInv, MirrorCells
    <3>4. loc[p].red = RedundantDisk(Array, b)
      <4>1. d \in Disks
        BY <1>0
      <4> HIDE DEF DataInv, TypeOK, d
      <4> QED
        BY <1>4, <2>3, <3>1, <4>1, PartnerOf
    <3> QED
      BY <2>1, <2>3, <3>1, <3>2, <3>3, <3>4
  <2> QED
    BY <2>2, <2>3
<1>10. /\ CopyFit(pc'[p], call[p], loc'[p], Array, rows', disk_status')
       /\ XorFit(pc'[p], call[p], loc'[p], Array, rows')
  BY <1>2, NotRepairing
<1>11. /\ pc[p] \in RepairLabels /\ pc'[p] \in RepairLabels \union {"done"}
       /\ \A e \in Disks : disk_status'[e] = disk_status[e] \/ disk_status'[e] = "HEALTHY"
  BY <1>1, <1>2, <1>5
<1> HIDE DEF DataInv, TypeOK
<1> QED
  BY <1>0, <1>1, <1>2, <1>3, <1>6, <1>8, <1>9, <1>10, <1>11, RepairStep

-----------------------------------------------------------------------------
(* The writes of a write call.                                              *)

RowLabels == {"write_primary", "write_mirror", "write_parity", "write_row"}

\* The cells of a writer.
LEMMA WriterCells ==
    ASSUME DataInv, ServiceInv, NEW p \in Procs, pc[p] \in WriteLabels
    PROVE  /\ call[p].op = "write" /\ call[p].value \in {0, 1}
           /\ call[p].block \in Addresses(Array) /\ call[p].block \in Blocks
           /\ loc[p].sb = Array /\ loc[p].disk \in Disks /\ loc[p].blk \in Rows
           /\ loc[p].disk = disk_num(Array, call[p].block) /\ loc[p].blk = blkc_num(Array, call[p].block)
           /\ Array.raid_level # "RAID0" =>
                  loc[p].red \in Disks /\ loc[p].red # loc[p].disk /\ loc[p].red = RedundantDisk(Array, call[p].block)
<1>1. /\ call[p] \in Calls \union {NoCall} /\ Fit(pc[p], call[p], loc[p], heap)
      /\ ServingFit(pc[p], call[p], loc[p], Array)
  BY OneServed DEF ServiceFit
<1>2. call[p].op = "write"
  BY <1>1 DEF Fit, JobInv
<1>3. call[p].value \in {0, 1}
  <2>1. call[p] \in Calls
    BY <1>1, <1>2 DEF NoCall
  <2> QED
    BY <1>2, <2>1, CallsAssumption
<1>4. /\ call[p].block \in Addresses(Array) /\ loc[p].sb = Array
      /\ loc[p].disk = disk_num(Array, call[p].block) /\ loc[p].blk = blkc_num(Array, call[p].block)
      /\ Array.raid_level # "RAID0" => loc[p].red = RedundantDisk(Array, call[p].block)
  BY <1>1 DEF ServingFit
<1>5. Array \in Superblocks
  BY ArrayServed
<1>6. call[p].block \in Blocks
  BY <1>4, <1>5, AddressesAreBlocks
<1>7. /\ disk_num(Array, call[p].block) \in Disks /\ blkc_num(Array, call[p].block) \in Rows
      /\ Array.raid_level # "RAID0" => RedundantDisk(Array, call[p].block) \in Disks
  BY <1>4, <1>5, LocationInRange DEF Home, Redundant
<1>8. Array.raid_level # "RAID0" => RedundantDisk(Array, call[p].block) # disk_num(Array, call[p].block)
  BY <1>4, <1>5, RedundantNotHome DEF Home, Redundant
<1> QED
  BY <1>2, <1>3, <1>4, <1>6, <1>7, <1>8

\* Two writers work on different disks.
LEMMA OthersApart ==
    ASSUME DataInv, ServiceInv, WritersApart, NEW p \in Procs, NEW q \in Procs, p # q,
           Array.raid_level # "RAID0",
           pc[p] \in Critical \union {"write_row"}, pc[q] \in Critical \union {"write_row"}
    PROVE  {loc[p].disk, loc[p].red} \intersect {loc[q].disk, loc[q].red} = {}
<1>1. loc[p].sb = Array /\ loc[q].sb = Array
  BY WriterCells DEF Critical
<1> QED
  BY <1>1 DEF WritersApart, Updating

\* Process p writes v to the row of its block on disk d.
WritesRow(p, d, v) ==
    /\ pc[p] \in RowLabels /\ d \in Disks /\ v \in {0, 1}
    /\ d = loc[p].disk \/ (Array.raid_level # "RAID0" /\ d = loc[p].red)
    /\ v = call[p].value \/ (Array.raid_level \in Parity /\ d = loc[p].red)
    /\ rows' = [rows EXCEPT ![d][loc[p].blk] = v]

\* The cells after it.
LEMMA RowWritten ==
    ASSUME DataInv, ServiceInv, NEW p \in Procs, NEW d, NEW v, WritesRow(p, d, v)
    PROVE  \A e \in Disks, r \in Rows : rows'[e][r] = IF e = d /\ r = loc[p].blk THEN v ELSE rows[e][r]
<1>1. rows \in [Disks -> [Rows -> {0, 1}]] /\ loc[p].blk \in Rows
  BY WriterCells DEF WritesRow, RowLabels
<1> QED
  BY <1>1 DEF WritesRow

\* What the other writers know of their cells stays true.
LEMMA OthersWriting ==
    ASSUME DataInv, ServiceInv, WritersApart, NEW p \in Procs, NEW d, NEW v, WritesRow(p, d, v),
           disk_status' = disk_status, NEW q \in Procs, q # p
    PROVE  WriterFit(pc[q], call[q], loc[q], Array, rows', disk_status')
<1>0. /\ Fit(pc[q], call[q], loc[q], heap) /\ ServingFit(pc[q], call[q], loc[q], Array)
      /\ WriterFit(pc[q], call[q], loc[q], Array, rows, disk_status)
  BY OneServed DEF ServiceFit
<1>1. CASE pc[q] \notin {"wmirror_health", "write_mirror", "read_parity", "write_parity", "write_row"}
  BY <1>1 DEF WriterFit
<1>2. CASE pc[q] \in {"wmirror_health", "write_mirror", "read_parity", "write_parity", "write_row"}
  <2>1. pc[q] \in WriteLabels /\ pc[q] \in Critical \union {"write_row"}
    BY <1>2 DEF Critical
  <2>2. pc[p] \in WriteLabels /\ pc[p] \in Critical \union {"write_row"}
    BY DEF Critical, WritesRow, RowLabels
  <2>3. CASE Array.raid_level = "RAID0"
    BY <1>0, <2>1, <2>3, WriterCells DEF WriterFit, ServingFit, Fit, AddressInv, Mirrored, Parity
  <2>4. CASE Array.raid_level # "RAID0"
    <3>1. {loc[p].disk, loc[p].red} \intersect {loc[q].disk, loc[q].red} = {}
      <4> HIDE DEF DataInv, TypeOK
      <4> QED
        BY <2>1, <2>2, <2>4, OthersApart
    <3>2. d \in {loc[p].disk, loc[p].red}
      BY DEF WritesRow
    <3>3. loc[q].disk # d /\ loc[q].red # d
      BY <3>1, <3>2
    <3>4. loc[q].disk \in Disks /\ loc[q].red \in Disks /\ loc[q].blk \in Rows
      BY <2>1, <2>4, WriterCells
    <3>5. rows'[loc[q].disk][loc[q].blk] = rows[loc[q].disk][loc[q].blk] /\ rows'[loc[q].red][loc[q].blk] = rows[loc[q].red][loc[q].blk]
      <4> HIDE DEF DataInv, TypeOK
      <4>1. \A e \in Disks, r \in Rows : rows'[e][r] = IF e = d /\ r = loc[p].blk THEN v ELSE rows[e][r]
        BY RowWritten
      <4> QED
        BY <3>3, <3>4, <4>1
    <3>6. pc[q] = "write_row" /\ Array.raid_level \in Parity => ~EvenRow(rows', loc[q].blk)
      <4> SUFFICES ASSUME pc[q] = "write_row", Array.raid_level \in Parity PROVE ~EvenRow(rows', loc[q].blk)
        OBVIOUS
      <4>1. ~EvenRow(rows, loc[q].blk)
        BY <1>0 DEF WriterFit
      <4>2. loc[q].blk # loc[p].blk
        <5>1. loc[p].blk = loc[q].blk => loc[p].red = loc[q].red
          <6>1. /\ loc[p].red = RedundantDisk(Array, call[p].block) /\ loc[p].blk = blkc_num(Array, call[p].block)
                /\ loc[q].red = RedundantDisk(Array, call[q].block) /\ loc[q].blk = blkc_num(Array, call[q].block)
            BY <2>1, <2>2, <2>4, WriterCells
          <6>2. Array \in Superblocks
            BY ArrayServed
          <6> HIDE DEF DataInv, TypeOK
          <6>3. blkc_num(Array, call[p].block) = blkc_num(Array, call[q].block) =>
                    RedundantDisk(Array, call[p].block) = RedundantDisk(Array, call[q].block)
            BY <6>2, SameParityDisk
          <6> QED
            BY <6>1, <6>3
        <5> QED
          BY <3>1, <5>1
      <4> HIDE DEF DataInv, TypeOK
      <4>3. \A e \in Disks : rows'[e][loc[q].blk] = rows[e][loc[q].blk]
        BY <3>4, <4>2, RowWritten
      <4>4. EvenRow(rows', loc[q].blk) <=> EvenRow(rows, loc[q].blk)
        BY <4>3, OtherRow
      <4> QED
        BY <4>1, <4>4
    <3> QED
      BY <1>0, <3>5, <3>6 DEF WriterFit
  <2> QED
    BY <2>3, <2>4
<1> QED
  BY <1>1, <1>2

\* What the readers are about to read may be delivered.
LEMMA OthersReading ==
    ASSUME DataInv, ServiceInv, NEW p \in Procs, NEW d, NEW v, WritesRow(p, d, v),
           NEW q \in Procs, q # p
    PROVE  DeliveryFit(pc[q], call[q], loc[q], rows', expect[q])
<1>0. /\ Fit(pc[q], call[q], loc[q], heap) /\ ServingFit(pc[q], call[q], loc[q], Array)
      /\ DeliveryFit(pc[q], call[q], loc[q], rows, expect[q]) /\ Expects(q)
  BY OneServed DEF ServiceFit
<1>1. CASE pc[q] # "read_row"
  BY <1>0, <1>1 DEF DeliveryFit
<1>2. CASE pc[q] = "read_row"
  <2> DEFINE a == call[p].block
             b == call[q].block
  <2>1. /\ pc[p] \in WriteLabels /\ d \in Disks
        /\ d = loc[p].disk \/ (Array.raid_level # "RAID0" /\ d = loc[p].red)
        /\ v = call[p].value \/ (Array.raid_level \in Parity /\ d = loc[p].red)
    BY DEF WritesRow, RowLabels
  <2>2. /\ call[p].op = "write" /\ a \in Addresses(Array) /\ loc[p].disk = disk_num(Array, a)
        /\ loc[p].blk = blkc_num(Array, a) /\ loc[p].blk \in Rows
        /\ Array.raid_level # "RAID0" => loc[p].red = RedundantDisk(Array, a) /\ loc[p].red # loc[p].disk
    BY <2>1, WriterCells
  <2>3. /\ call[q].op = "read" /\ b \in Addresses(Array) /\ loc[q].blk = blkc_num(Array, b)
        /\ Array.raid_level # "RAID0" => loc[q].red = RedundantDisk(Array, b)
        /\ loc[q].disk = disk_num(Array, b) \/ (Array.raid_level \in Mirrored /\ loc[q].disk = loc[q].red)
    BY <1>0, <1>2 DEF ServingFit
  <2>4. rows[loc[q].disk][loc[q].blk] \in expect[q] /\ loc[q].disk \in Disks
    BY <1>0, <1>2 DEF DeliveryFit, Fit, AddressInv
  <2>5. Array \in Superblocks /\ b \in Blocks
    BY <2>3, ArrayServed, AddressesAreBlocks
  <2>6. loc[q].blk \in Rows
    <3> HIDE DEF DataInv, TypeOK, b
    <3>1. Home(Array, b) \in Disks \X Rows
      BY <2>3, <2>5, LocationInRange
    <3> QED
      BY <2>3, <3>1 DEF Home
  <2>7. ASSUME loc[q].disk = d, loc[q].blk = loc[p].blk PROVE v \in expect[q]
    <3> HIDE DEF DataInv, TypeOK
    <3>1. a = b => call[p].value \in expect[q]
      BY <1>0, <1>2, <2>1, <2>2, <2>3, <2>5 DEF Expects, Writing, a, b
    <3>2. Home(Array, a) = <<loc[p].disk, loc[p].blk>> /\ Home(Array, b) = <<disk_num(Array, b), loc[q].blk>>
      BY <2>2, <2>3 DEF Home
    <3>3. Array.raid_level # "RAID0" => Redundant(Array, a) = <<loc[p].red, loc[p].blk>> /\ Redundant(Array, b) = <<loc[q].red, loc[q].blk>>
      BY <2>2, <2>3 DEF Redundant
    <3> HIDE DEF a, b
    <3>4. CASE d = loc[p].disk
      <4>1. v = call[p].value
        BY <2>1, <2>2, <3>4 DEF Parity
      <4>2. CASE loc[q].disk = disk_num(Array, b)
        <5>1. Home(Array, a) = Home(Array, b)
          BY <2>7, <3>2, <3>4, <4>2
        <5>2. a = b
          BY <2>2, <2>3, <2>5, <5>1, HomeInjective
        <5> QED
          BY <3>1, <4>1, <5>2
      <4>3. CASE Array.raid_level \in Mirrored /\ loc[q].disk = loc[q].red
        <5>1. Redundant(Array, b) = Home(Array, a) /\ Array.raid_level # "RAID0"
          BY <2>7, <3>2, <3>3, <3>4, <4>3 DEF Mirrored
        <5> QED
          BY <2>2, <2>3, <2>5, <5>1, RedundantNotHome
      <4> QED
        BY <2>3, <4>2, <4>3
    <3>5. CASE Array.raid_level # "RAID0" /\ d = loc[p].red
      <4>1. CASE loc[q].disk = disk_num(Array, b)
        <5>1. Redundant(Array, a) = Home(Array, b)
          BY <2>7, <3>2, <3>3, <3>5, <4>1
        <5> QED
          BY <2>2, <2>3, <2>5, <3>5, <5>1, RedundantNotHome
      <4>2. CASE Array.raid_level \in Mirrored /\ loc[q].disk = loc[q].red
        <5>1. Redundant(Array, a) = Redundant(Array, b)
          BY <2>7, <3>3, <3>5, <4>2
        <5>2. a = b
          BY <2>2, <2>3, <2>5, <4>2, <5>1, MirrorInjective
        <5>3. v = call[p].value
          BY <2>1, <4>2 DEF Mirrored, Parity
        <5> QED
          BY <3>1, <5>2, <5>3
      <4> QED
        BY <2>3, <4>1, <4>2
    <3> QED
      BY <2>1, <3>4, <3>5
  <2>8. rows'[loc[q].disk][loc[q].blk] \in expect[q]
    <3> HIDE DEF DataInv, TypeOK
    <3>1. \A e \in Disks, r \in Rows : rows'[e][r] = IF e = d /\ r = loc[p].blk THEN v ELSE rows[e][r]
      BY RowWritten
    <3> QED
      BY <2>4, <2>6, <2>7, <3>1
  <2> QED
    BY <1>2, <2>8 DEF DeliveryFit
<1> QED
  BY <1>1, <1>2

\* A write takes effect: the readers of its block may deliver its value.
LEMMA ExpectsKept ==
    ASSUME DataInv, ServiceInv, NEW p \in Procs, pc[p] \in WriteLabels,
           \A x \in Procs : pc'[x] # "idle" => pc[x] # "idle", UNCHANGED <<call, expect>>,
           latest' = latest \/ latest' = [latest EXCEPT ![call[p].block] = call[p].value],
           NEW q \in Procs
    PROVE  Expects(q)'
<1>1. Expects(q) /\ call[p].op = "write" /\ call[p].block \in Blocks /\ pc[p] # "idle"
  BY OneServed, WriterCells
<1>2. Writing(p, call[p].block)
  BY <1>1 DEF Writing
<1>3. \A b \in Blocks : latest'[b] = latest[b] \/ (b = call[p].block /\ latest'[b] = call[p].value)
  BY <1>1
<1>4. \A x \in Procs, b \in Blocks : Writing(x, b)' => Writing(x, b)
  BY DEF Writing
<1> SUFFICES ASSUME call[q].op = "read", pc'[q] # "idle", call[q].block \in Blocks
             PROVE  /\ latest'[call[q].block] \in expect[q]
                    /\ \A x \in Procs : Writing(x, call[q].block)' => call[x].value \in expect[q]
  BY DEF Expects
<1>5. /\ latest[call[q].block] \in expect[q]
      /\ \A x \in Procs : Writing(x, call[q].block) => call[x].value \in expect[q]
  BY <1>1 DEF Expects
<1> HIDE DEF DataInv, TypeOK
<1> QED
  BY <1>2, <1>3, <1>4, <1>5

\* A write of a row preserves the invariant, if it does so for the array and p.
LEMMA WriteStep ==
    ASSUME DataInv, ServiceInv, WritersApart, NEW p \in Procs, NEW d, NEW v, WritesRow(p, d, v),
           NEW l, l \in {"write_mirror", "write_row", "unlock2", "done"},
           pc' = [pc EXCEPT ![p] = l], UNCHANGED <<sblock, device, call, loc, expect>>,
           latest' = latest \/ latest' = [latest EXCEPT ![call[p].block] = call[p].value],
           PlainCells', MirrorCells', PrimaryCells', ParityRows',
           ServingFit(l, call[p], loc[p], Array),
           WriterFit(l, call[p], loc[p], Array, rows', disk_status)
    PROVE  ServiceInv'
<1>0. pc[p] \in WriteLabels
  BY DEF WritesRow, RowLabels
<1>1. /\ pc'[p] = l /\ loc'[p] = loc[p] /\ OnlyMoves(p) /\ pc[p] # "idle" /\ pc'[p] # "idle"
      /\ \A x \in Procs : pc'[x] # "idle" => pc[x] # "idle"
  BY <1>0
<1>2. Array' = Array /\ UNCHANGED <<is_init, superblock, heap, disk_status>>
  BY DEF device, Array
<1>3. call[p].op = "write" /\ call[p].value \in {0, 1} /\ call[p].block \in Blocks
  BY <1>0, WriterCells
<1>4. ArrayInv'
  <2>1. \A b \in Blocks : latest'[b] = latest[b] \/ latest'[b] = call[p].value
    BY <1>3
  <2> QED
    BY <1>2, <1>3, <2>1 DEF ServiceInv, ArrayInv
<1> HIDE DEF DataInv, TypeOK
<1>5. ASSUME NEW q \in Procs PROVE Expects(q)'
  BY <1>0, <1>1, ExpectsKept
<1>6. DeliveryFit(l, call[p], loc[p], rows', expect[p])
  BY <1>3 DEF DeliveryFit
<1>7. /\ CopyFit(l, call[p], loc[p], Array, rows', disk_status)
      /\ XorFit(l, call[p], loc[p], Array, rows')
  BY NotRepairing
<1>8. ServiceFit(pc'[p], call[p], loc'[p], Array, rows', disk_status', expect'[p])
  BY <1>1, <1>2, <1>6, <1>7 DEF ServiceFit
<1>9. ASSUME NEW q \in Procs \ {p}
      PROVE  /\ WriterFit(pc[q], call[q], loc[q], Array, rows', disk_status')
             /\ DeliveryFit(pc[q], call[q], loc[q], rows', expect'[q])
  BY <1>2, <1>9, OthersWriting, OthersReading
<1> QED
  BY <1>1, <1>2, <1>4, <1>5, <1>8, <1>9, ServiceStep

\* The primary copy of a block is written before its mirror.
LEMMA WritePrimaryServed ==
    ASSUME DataInv, ServiceInv, WritersApart, NEW p \in Procs, WritePrimary(p)
    PROVE  ServiceInv'
<1> DEFINE a == call[p].block
           d == loc[p].disk
           v == call[p].value
<1>1. /\ pc[p] = "write_primary" /\ pc' = [pc EXCEPT ![p] = "write_mirror"]
      /\ rows' = [rows EXCEPT ![d][loc[p].blk] = v] /\ UNCHANGED <<sblock, device, call, loc, latest, expect>>
  BY DEF WritePrimary, PutRow
<1>0. /\ call[p].op = "write" /\ v \in {0, 1} /\ a \in Addresses(Array) /\ d \in Disks /\ loc[p].blk \in Rows
      /\ d = disk_num(Array, a) /\ loc[p].blk = blkc_num(Array, a)
  BY <1>1, WriterCells
<1>2. WritesRow(p, d, v)
  BY <1>0, <1>1 DEF WritesRow, RowLabels
<1>3. ServingFit(pc[p], call[p], loc[p], Array) /\ Array.raid_level \in Mirrored
  BY <1>1, OneServed DEF ServiceFit, ServingFit
<1>4. ServingFit("write_mirror", call[p], loc[p], Array)
  BY <1>1, <1>3 DEF ServingFit
<1>5. Array \in Superblocks /\ Array' = Array /\ disk_status' = disk_status
  BY <1>1, ArrayServed DEF Array, device
<1>6. /\ pc'[p] = "write_mirror" /\ \A x \in Procs : x # p => pc'[x] = pc[x]
  BY <1>1
<1> HIDE DEF DataInv, TypeOK
<1>7. \A e \in Disks, r \in Rows : rows'[e][r] = IF e = d /\ r = loc[p].blk THEN v ELSE rows[e][r]
  BY <1>2, RowWritten
<1> HIDE DEF a, d, v
<1>8. \A b \in Addresses(Array) :
          /\ disk_num(Array, b) \in Disks /\ RedundantDisk(Array, b) \in Disks /\ blkc_num(Array, b) \in Rows
          /\ ~(RedundantDisk(Array, b) = d /\ blkc_num(Array, b) = loc[p].blk)
          /\ disk_num(Array, b) = d /\ blkc_num(Array, b) = loc[p].blk => b = a
  <2>1. Array.raid_level # "RAID0"
    BY <1>3 DEF Mirrored
  <2> TAKE b \in Addresses(Array)
  <2>2. Home(Array, b) \in Disks \X Rows /\ Redundant(Array, b) \in Disks \X Rows
    BY <1>5, <2>1, LocationInRange
  <2>3. Redundant(Array, b) # Home(Array, a)
    BY <1>0, <1>5, <2>1, RedundantNotHome
  <2>4. Home(Array, b) = Home(Array, a) => b = a
    BY <1>0, <1>5, HomeInjective
  <2> QED
    BY <1>0, <2>2, <2>3, <2>4 DEF Home, Redundant
<1>9. PlainCells' /\ ParityRows'
  BY <1>3, <1>5 DEF PlainCells, ParityRows, Mirrored, Parity
<1>10. MirrorCells'
  <2> SUFFICES ASSUME NEW b \in Addresses(Array)
               PROVE  rows'[RedundantDisk(Array, b)][blkc_num(Array, b)] = latest[b]
    BY <1>1, <1>5 DEF MirrorCells
  <2>1. rows[RedundantDisk(Array, b)][blkc_num(Array, b)] = latest[b]
    BY <1>3 DEF ServiceInv, MirrorCells
  <2> QED
    BY <1>7, <1>8, <2>1
<1>11. PrimaryCells'
  <2> SUFFICES ASSUME NEW b \in Addresses(Array), disk_status[disk_num(Array, b)] = "HEALTHY"
               PROVE  \/ rows'[disk_num(Array, b)][blkc_num(Array, b)] = latest[b]
                      \/ \E q \in Procs : pc'[q] = "write_mirror" /\ call[q].block = b
    BY <1>1, <1>5 DEF PrimaryCells
  <2>1. CASE b = a
    BY <1>6, <2>1 DEF a
  <2>2. CASE b # a
    <3>1. \/ rows[disk_num(Array, b)][blkc_num(Array, b)] = latest[b]
          \/ \E q \in Procs : pc[q] = "write_mirror" /\ call[q].block = b
      BY <1>3 DEF ServiceInv, PrimaryCells
    <3>2. rows'[disk_num(Array, b)][blkc_num(Array, b)] = rows[disk_num(Array, b)][blkc_num(Array, b)]
      BY <1>7, <1>8, <2>2
    <3> QED
      BY <1>1, <1>6, <3>1, <3>2
  <2> QED
    BY <2>1, <2>2
<1>12. rows'[d][loc[p].blk] = v
  BY <1>0, <1>7
<1>13. WriterFit("write_mirror", call[p], loc[p], Array, rows', disk_status)
  BY <1>12 DEF WriterFit, d, v
<1> QED
  BY <1>1, <1>2, <1>4, <1>9, <1>10, <1>11, <1>13, WriteStep

\* The write of the mirror takes effect.
LEMMA WriteMirrorServed ==
    ASSUME DataInv, ServiceInv, WritersApart, NEW p \in Procs, WriteMirror(p)
    PROVE  ServiceInv'
<1> DEFINE a == call[p].block
           d == loc[p].red
           v == call[p].value
<1>1. /\ pc[p] = "write_mirror" /\ pc' = [pc EXCEPT ![p] = "unlock2"]
      /\ rows' = [rows EXCEPT ![d][loc[p].blk] = v] /\ UNCHANGED <<sblock, device, call, loc, expect>>
      /\ latest' = [latest EXCEPT ![a] = v]
  BY DEF WriteMirror, PutRow
<1>3. /\ ServingFit(pc[p], call[p], loc[p], Array) /\ Array.raid_level \in Mirrored
      /\ WriterFit(pc[p], call[p], loc[p], Array, rows, disk_status)
  BY <1>1, OneServed DEF ServiceFit, ServingFit
<1>a. Array.raid_level # "RAID0"
  BY <1>3 DEF Mirrored
<1>0. /\ call[p].op = "write" /\ v \in {0, 1} /\ a \in Addresses(Array) /\ d \in Disks /\ loc[p].blk \in Rows
      /\ d = RedundantDisk(Array, a) /\ loc[p].blk = blkc_num(Array, a) /\ loc[p].disk = disk_num(Array, a)
      /\ d # loc[p].disk /\ a \in Blocks
  BY <1>1, <1>a, WriterCells
<1>2. WritesRow(p, d, v)
  BY <1>0, <1>1, <1>a DEF WritesRow, RowLabels
<1>4. ServingFit("unlock2", call[p], loc[p], Array)
  BY <1>1, <1>3 DEF ServingFit
<1>5. Array \in Superblocks /\ Array' = Array /\ disk_status' = disk_status
  BY <1>1, ArrayServed DEF Array, device
<1>6. \A x \in Procs : x # p => pc'[x] = pc[x]
  BY <1>1
<1>b. Addresses(Array) \subseteq Blocks
  BY <1>5, AddressesAreBlocks
<1>c. \A b \in Blocks : latest'[b] = IF b = a THEN v ELSE latest[b]
  BY <1>1
<1> HIDE DEF DataInv, TypeOK
<1>7. \A e \in Disks, r \in Rows : rows'[e][r] = IF e = d /\ r = loc[p].blk THEN v ELSE rows[e][r]
  BY <1>2, RowWritten
<1> HIDE DEF a, d, v
<1>8. \A b \in Addresses(Array) :
          /\ disk_num(Array, b) \in Disks /\ RedundantDisk(Array, b) \in Disks /\ blkc_num(Array, b) \in Rows
          /\ ~(disk_num(Array, b) = d /\ blkc_num(Array, b) = loc[p].blk)
          /\ RedundantDisk(Array, b) = d /\ blkc_num(Array, b) = loc[p].blk => b = a
  <2> TAKE b \in Addresses(Array)
  <2>2. Home(Array, b) \in Disks \X Rows /\ Redundant(Array, b) \in Disks \X Rows
    BY <1>5, <1>a, LocationInRange
  <2>3. Redundant(Array, a) # Home(Array, b)
    BY <1>0, <1>5, <1>a, RedundantNotHome
  <2>4. Redundant(Array, b) = Redundant(Array, a) => b = a
    BY <1>0, <1>3, <1>5, MirrorInjective
  <2> QED
    BY <1>0, <2>2, <2>3, <2>4 DEF Home, Redundant
<1>9. PlainCells' /\ ParityRows'
  BY <1>3, <1>5 DEF PlainCells, ParityRows, Mirrored, Parity
<1>10. MirrorCells'
  <2> SUFFICES ASSUME NEW b \in Addresses(Array)
               PROVE  rows'[RedundantDisk(Array, b)][blkc_num(Array, b)] = latest'[b]
    BY <1>5 DEF MirrorCells
  <2>1. rows[RedundantDisk(Array, b)][blkc_num(Array, b)] = latest[b]
    BY <1>3 DEF ServiceInv, MirrorCells
  <2> QED
    BY <1>0, <1>7, <1>8, <1>b, <1>c, <2>1
<1>11. PrimaryCells'
  <2> SUFFICES ASSUME NEW b \in Addresses(Array), disk_status[disk_num(Array, b)] = "HEALTHY"
               PROVE  \/ rows'[disk_num(Array, b)][blkc_num(Array, b)] = latest'[b]
                      \/ \E q \in Procs : pc'[q] = "write_mirror" /\ call[q].block = b
    BY <1>1, <1>5 DEF PrimaryCells
  <2>0. rows'[disk_num(Array, b)][blkc_num(Array, b)] = rows[disk_num(Array, b)][blkc_num(Array, b)]
    BY <1>7, <1>8
  <2>1. CASE b = a
    <3>1. rows[loc[p].disk][loc[p].blk] = v
      BY <1>0, <1>1, <1>3, <2>1 DEF WriterFit, v
    <3> QED
      BY <1>0, <1>c, <2>0, <2>1, <3>1
  <2>2. CASE b # a
    <3>1. \/ rows[disk_num(Array, b)][blkc_num(Array, b)] = latest[b]
          \/ \E q \in Procs : pc[q] = "write_mirror" /\ call[q].block = b
      BY <1>3 DEF ServiceInv, PrimaryCells
    <3>2. \A q \in Procs : call[q].block = b => q # p
      BY <2>2 DEF a
    <3> QED
      BY <1>6, <1>b, <1>c, <2>0, <2>2, <3>1, <3>2
  <2> QED
    BY <2>1, <2>2
<1>13. WriterFit("unlock2", call[p], loc[p], Array, rows', disk_status)
  BY DEF WriterFit
<1> QED
  BY <1>1, <1>2, <1>4, <1>9, <1>10, <1>11, <1>13, WriteStep DEF a, v

\* newData ^ oldData ^ parity is the other value than the parity, if newData is
\* another value than oldData.
LEMMA ParityFlips ==
    ASSUME NEW new \in {0, 1}, NEW old \in {0, 1}, new # old, NEW parity \in {0, 1}
    PROVE  NewParity(new, old, parity) \in {0, 1} /\ NewParity(new, old, parity) # parity
  BY DEF NewParity, Xor

\* No other writer is between the two writes of p's row.
LEMMA OnlyWriterOfRow ==
    ASSUME DataInv, ServiceInv, WritersApart, NEW p \in Procs, Array.raid_level \in Parity,
           pc[p] \in {"write_parity", "write_row"}, NEW q \in Procs, q # p, pc[q] = "write_row"
    PROVE  loc[q].blk # loc[p].blk
<1>1. Array.raid_level # "RAID0"
  BY DEF Parity
<1>2. /\ loc[p].red = RedundantDisk(Array, call[p].block) /\ loc[p].blk = blkc_num(Array, call[p].block)
      /\ loc[q].red = RedundantDisk(Array, call[q].block) /\ loc[q].blk = blkc_num(Array, call[q].block)
  BY <1>1, WriterCells
<1>3. Array \in Superblocks
  BY ArrayServed
<1> HIDE DEF DataInv, TypeOK
<1>4. {loc[p].disk, loc[p].red} \intersect {loc[q].disk, loc[q].red} = {}
  BY <1>1, OthersApart DEF Critical
<1>5. blkc_num(Array, call[p].block) = blkc_num(Array, call[q].block) =>
          RedundantDisk(Array, call[p].block) = RedundantDisk(Array, call[q].block)
  BY <1>3, SameParityDisk
<1> QED
  BY <1>2, <1>4, <1>5

\* The parity is written before the data.
LEMMA WriteParityServed ==
    ASSUME DataInv, ServiceInv, WritersApart, NEW p \in Procs, WriteParity(p)
    PROVE  ServiceInv'
<1> DEFINE a == call[p].block
           d == loc[p].red
           v == NewParity(call[p].value, loc[p].buf, loc[p].par)
           r == loc[p].blk
<1>1. /\ pc[p] = "write_parity" /\ pc' = [pc EXCEPT ![p] = "write_row"]
      /\ rows' = [rows EXCEPT ![d][r] = v] /\ UNCHANGED <<sblock, device, call, loc, latest, expect>>
  BY DEF WriteParity, PutRow
<1>2. /\ ServingFit(pc[p], call[p], loc[p], Array) /\ Fit(pc[p], call[p], loc[p], heap)
      /\ WriterFit(pc[p], call[p], loc[p], Array, rows, disk_status)
      /\ loc[p].buf \in {0, 1} /\ loc[p].par \in {0, 1} /\ rows \in [Disks -> [Rows -> {0, 1}]]
  BY <1>1, OneServed DEF ServiceFit
<1>3. Array.raid_level \in Parity /\ Array.raid_level # "RAID0" /\ Array.raid_level \notin Mirrored
  BY <1>1, <1>2, WriterCells DEF Fit, AddressInv, Parity, Mirrored
<1>0. /\ call[p].value \in {0, 1} /\ a \in Addresses(Array) /\ d \in Disks /\ r \in Rows
      /\ d = RedundantDisk(Array, a) /\ r = blkc_num(Array, a) /\ d # loc[p].disk /\ loc[p].disk \in Disks
  BY <1>1, <1>3, WriterCells
<1>4. loc[p].buf = rows[loc[p].disk][r] /\ loc[p].buf # call[p].value /\ loc[p].par = rows[d][r]
  BY <1>1, <1>2, <1>3 DEF WriterFit
<1>5. v \in {0, 1} /\ v # rows[d][r]
  BY <1>0, <1>2, <1>4, ParityFlips
<1>6. WritesRow(p, d, v)
  BY <1>0, <1>1, <1>3, <1>5 DEF WritesRow, RowLabels
<1>7. ServingFit("write_row", call[p], loc[p], Array)
  BY <1>1, <1>2, <1>3 DEF ServingFit
<1>8. Array \in Superblocks /\ Array' = Array
  BY <1>1, ArrayServed DEF Array, device
<1>9. pc'[p] = "write_row" /\ \A x \in Procs : x # p => pc'[x] = pc[x]
  BY <1>1
<1> HIDE DEF DataInv, TypeOK
<1>10. \A e \in Disks, k \in Rows : rows'[e][k] = IF e = d /\ k = r THEN v ELSE rows[e][k]
  BY <1>6, RowWritten
<1>11. ASSUME NEW q \in Procs, q # p, pc[q] = "write_row" PROVE loc[q].blk # r
  BY <1>1, <1>3, <1>11, OnlyWriterOfRow
<1> HIDE DEF a, d, v, r
<1>12. EvenRow(rows, r)
  BY <1>0, <1>1, <1>3, <1>11 DEF ServiceInv, ParityRows, r
<1>a. d \in Disks /\ r \in Rows /\ v \in {0, 1} /\ rows \in [Disks -> [Rows -> {0, 1}]]
  BY <1>0, <1>2, <1>5
<1>13. ~EvenRow(rows', r)
  <2>1. EvenRow(rows', r) <=> ~EvenRow(rows, r)
    <3>1. \A e \in Disks : rows'[e][r] = IF e = d THEN v ELSE rows[e][r]
      BY <1>10, <1>a
    <3> QED
      BY <1>5, <1>a, <3>1, FlippedRow
  <2> QED
    BY <1>12, <2>1
<1>14. PlainCells'
  <2> SUFFICES ASSUME NEW b \in Addresses(Array)
               PROVE  rows'[disk_num(Array, b)][blkc_num(Array, b)] = latest[b]
    BY <1>1, <1>8 DEF PlainCells
  <2>1. rows[disk_num(Array, b)][blkc_num(Array, b)] = latest[b]
    BY <1>3 DEF ServiceInv, PlainCells
  <2>2. Home(Array, b) \in Disks \X Rows /\ Redundant(Array, a) # Home(Array, b)
    BY <1>0, <1>3, <1>8, LocationInRange, RedundantNotHome
  <2>3. disk_num(Array, b) \in Disks /\ blkc_num(Array, b) \in Rows /\ ~(disk_num(Array, b) = d /\ blkc_num(Array, b) = r)
    BY <1>0, <2>2 DEF Home, Redundant
  <2> QED
    BY <1>10, <2>1, <2>3
<1>15. MirrorCells' /\ PrimaryCells'
  BY <1>3, <1>8 DEF MirrorCells, PrimaryCells
<1>16. ParityRows'
  <2> SUFFICES ASSUME NEW k \in Rows
               PROVE  EvenRow(rows', k) \/ \E q \in Procs : pc'[q] = "write_row" /\ loc[q].blk = k
    BY <1>1, <1>8 DEF ParityRows
  <2>1. CASE k = r
    BY <1>9, <2>1 DEF r
  <2>2. CASE k # r
    <3>1. EvenRow(rows', k) <=> EvenRow(rows, k)
      <4>1. \A e \in Disks : rows'[e][k] = rows[e][k]
        BY <1>10, <2>2
      <4> QED
        BY <4>1, OtherRow
    <3>2. EvenRow(rows, k) \/ \E q \in Procs : pc[q] = "write_row" /\ loc[q].blk = k
      BY <1>3 DEF ServiceInv, ParityRows
    <3> QED
      BY <1>1, <1>9, <3>1, <3>2
  <2> QED
    BY <2>1, <2>2
<1>17. rows'[loc[p].disk][r] = rows[loc[p].disk][r]
  BY <1>0, <1>10
<1>18. WriterFit("write_row", call[p], loc[p], Array, rows', disk_status)
  BY <1>4, <1>13, <1>17 DEF WriterFit, r
<1> QED
  BY <1>1, <1>6, <1>7, <1>14, <1>15, <1>16, <1>18, WriteStep

\* The data of RAID0, RAID4 and RAID5.
LEMMA WriteRowServed ==
    ASSUME DataInv, ServiceInv, WritersApart, NEW p \in Procs, WriteRow(p)
    PROVE  ServiceInv'
<1> DEFINE a == call[p].block
           d == loc[p].disk
           v == call[p].value
           r == loc[p].blk
           l == IF loc[p].sb.raid_level = "RAID0" THEN "done" ELSE "unlock2"
<1>1. /\ pc[p] = "write_row" /\ pc' = [pc EXCEPT ![p] = l]
      /\ rows' = [rows EXCEPT ![d][r] = v] /\ UNCHANGED <<sblock, device, call, loc, expect>>
      /\ latest' = [latest EXCEPT ![a] = v]
  BY DEF WriteRow, PutRow
<1>2. /\ ServingFit(pc[p], call[p], loc[p], Array)
      /\ WriterFit(pc[p], call[p], loc[p], Array, rows, disk_status)
      /\ rows \in [Disks -> [Rows -> {0, 1}]]
  BY <1>1, OneServed DEF ServiceFit
<1>3. Array.raid_level \notin Mirrored
  BY <1>1, <1>2 DEF ServingFit
<1>0. /\ v \in {0, 1} /\ a \in Addresses(Array) /\ a \in Blocks /\ d \in Disks /\ r \in Rows
      /\ d = disk_num(Array, a) /\ r = blkc_num(Array, a) /\ loc[p].sb = Array
  BY <1>1, WriterCells
<1>4. WritesRow(p, d, v)
  BY <1>0, <1>1 DEF WritesRow, RowLabels
<1>5. ServingFit(l, call[p], loc[p], Array)
  BY <1>1, <1>2 DEF ServingFit
<1>6. l \in {"done", "unlock2"}
  OBVIOUS
<1>8. Array \in Superblocks /\ Array' = Array
  BY <1>1, ArrayServed DEF Array, device
<1>9. \A x \in Procs : x # p => pc'[x] = pc[x]
  BY <1>1
<1>b. Addresses(Array) \subseteq Blocks
  BY <1>8, AddressesAreBlocks
<1>c. \A b \in Blocks : latest'[b] = IF b = a THEN v ELSE latest[b]
  BY <1>1
<1> HIDE DEF DataInv, TypeOK
<1>10. \A e \in Disks, k \in Rows : rows'[e][k] = IF e = d /\ k = r THEN v ELSE rows[e][k]
  BY <1>4, RowWritten
<1> HIDE DEF a, d, v, r, l
<1>d. d \in Disks /\ r \in Rows /\ v \in {0, 1} /\ rows \in [Disks -> [Rows -> {0, 1}]]
  BY <1>0, <1>2
<1>14. PlainCells'
  <2> SUFFICES ASSUME NEW b \in Addresses(Array)
               PROVE  rows'[disk_num(Array, b)][blkc_num(Array, b)] = latest'[b]
    BY <1>8 DEF PlainCells
  <2>1. rows[disk_num(Array, b)][blkc_num(Array, b)] = latest[b]
    BY <1>3 DEF ServiceInv, PlainCells
  <2>2. Home(Array, b) \in Disks \X Rows
    BY <1>8, LocationInRange
  <2>a. Home(Array, a) = Home(Array, b) => a = b
    BY <1>0, <1>8, HomeInjective
  <2>3. /\ disk_num(Array, b) \in Disks /\ blkc_num(Array, b) \in Rows
        /\ disk_num(Array, b) = d /\ blkc_num(Array, b) = r => a = b
    BY <1>0, <2>2, <2>a DEF Home
  <2> QED
    BY <1>0, <1>10, <1>b, <1>c, <2>1, <2>3
<1>15. MirrorCells' /\ PrimaryCells'
  BY <1>3, <1>8 DEF MirrorCells, PrimaryCells
<1>16. ParityRows'
  <2> SUFFICES ASSUME Array.raid_level \in Parity, NEW k \in Rows
               PROVE  EvenRow(rows', k) \/ \E q \in Procs : pc'[q] = "write_row" /\ loc[q].blk = k
    BY <1>1, <1>8 DEF ParityRows
  <2>1. CASE k = r
    <3>1. rows[d][r] # v /\ ~EvenRow(rows, r)
      BY <1>1, <1>2 DEF WriterFit, d, v, r
    <3>2. EvenRow(rows', r) <=> ~EvenRow(rows, r)
      <4>1. \A e \in Disks : rows'[e][r] = IF e = d THEN v ELSE rows[e][r]
        BY <1>10, <1>d
      <4> QED
        BY <1>d, <3>1, <4>1, FlippedRow
    <3> QED
      BY <2>1, <3>1, <3>2
  <2>2. CASE k # r
    <3>1. EvenRow(rows', k) <=> EvenRow(rows, k)
      <4>1. \A e \in Disks : rows'[e][k] = rows[e][k]
        BY <1>10, <2>2
      <4> QED
        BY <4>1, OtherRow
    <3>2. EvenRow(rows, k) \/ \E q \in Procs : pc[q] = "write_row" /\ loc[q].blk = k
      BY DEF ServiceInv, ParityRows
    <3> QED
      BY <1>9, <2>2, <3>1, <3>2 DEF r
  <2> QED
    BY <2>1, <2>2
<1>17. WriterFit(l, call[p], loc[p], Array, rows', disk_status)
  BY <1>6 DEF WriterFit
<1>18. l \in {"write_mirror", "write_row", "unlock2", "done"} /\ pc' = [pc EXCEPT ![p] = l]
  BY <1>1, <1>6
<1>19. latest' = [latest EXCEPT ![call[p].block] = call[p].value] /\ UNCHANGED <<sblock, device, call, loc, expect>>
  BY <1>1 DEF a, v
<1> QED
  BY <1>4, <1>5, <1>14, <1>15, <1>16, <1>17, <1>18, <1>19, WriteStep

-----------------------------------------------------------------------------
(* What does not happen, and the begin and the end of a call.               *)

\* A step that changes nothing but the panic flag.
LEMMA PanicServed ==
    ASSUME ServiceInv, UNCHANGED <<stored, device, pc, call, loc, latest, expect>>
    PROVE  ServiceInv'
<1>1. /\ UNCHANGED <<rows, sblock, is_init, superblock, heap, disk_status, pc, call, loc, latest, expect>>
      /\ Array' = Array
  BY DEF stored, device, Array
<1>2. /\ ArrayInv' /\ RepairAlone' /\ PlainCells' /\ MirrorCells' /\ PrimaryCells' /\ ParityRows'
  BY <1>1 DEF ServiceInv, ArrayInv, RepairAlone, PlainCells, MirrorCells, PrimaryCells, ParityRows
<1>3. \A p \in Procs : Expects(p)'
  BY <1>1 DEF ServiceInv, Expects, Writing
<1>4. \A p \in Procs : ServiceFit(pc[p], call[p], loc[p], Array, rows, disk_status, expect[p])'
  BY <1>1 DEF ServiceInv
<1> QED
  BY <1>2, <1>3, <1>4 DEF ServiceInv

\* The mirror of a block of the array is on a disk.
LEMMA LockOutsideNot ==
    ASSUME DataInv, ServiceInv, NEW p \in Procs
    PROVE  ~LockOutside(p)
<1> SUFFICES ASSUME LockOutside(p) PROVE FALSE
  OBVIOUS
<1>1. pc[p] = "lock2" /\ second(p) \notin Disks
  BY DEF LockOutside
<1>2. Fit(pc[p], call[p], loc[p], heap)
  BY OneServed
<1>3. loc[p].sb.raid_level # "RAID0"
  BY <1>1, <1>2 DEF Fit, AddressInv
<1>4. loc[p].disk \in Disks /\ loc[p].red \in Disks
  BY <1>1, <1>2, <1>3, WriterCells DEF Fit, AddressInv
<1> QED
  BY <1>1, <1>4 DEF second, LockOrder

\* The page of the array is not freed.
LEMMA UseAfterFreeNot ==
    ASSUME DataInv, ServiceInv, NEW p \in Procs
    PROVE  ~UseAfterFree(p)
<1>1. ServingFit(pc[p], call[p], loc[p], Array)
  BY OneServed DEF ServiceFit
<1>2. superblock = 1 /\ heap[1] # Freed
  BY ArrayServed, FreedAssumption
<1>3. Dereferenced(p) \in {1, Null}
  BY <1>1, <1>2 DEF Dereferenced, ServingFit
<1> QED
  BY <1>2, <1>3 DEF UseAfterFree, Valid

\* The array is neither made nor destroyed.
LEMMA LifecycleNot ==
    ASSUME DataInv, ServiceInv, NEW p \in Procs
    PROVE  ~raid_system_init(p) /\ ~raid_system_destroy(p)
<1>1. pc[p] \in ServiceLabels
  BY OneServed DEF ServiceFit, ServingFit
<1> QED
  BY <1>1 DEF raid_system_init, raid_system_destroy, InitCheck, InitWrite, InitPublish, InitFlag,
              DestroyWrite, DestroyFree, DestroyFlag, DestroyNull

\* A call begins or ends.
LEMMA EdgeStep ==
    ASSUME DataInv, ServiceInv, NEW p \in Procs, pc[p] \in {"idle", "done"},
           NEW l \in {"idle", "lm_fast", "fail", "repair"}, NEW c, NEW r,
           pc' = [pc EXCEPT ![p] = l], call' = [call EXCEPT ![p] = c], loc' = [loc EXCEPT ![p] = r],
           UNCHANGED <<stored, device, latest>>, RepairAlone', \A q \in Procs : Expects(q)',
           \A q \in Procs : q # p => expect[q] \subseteq expect'[q],
           ServingFit(l, c, r, Array)
    PROVE  ServiceInv'
<1>1. UNCHANGED <<rows, sblock, is_init, superblock, heap, disk_status, latest>> /\ Array' = Array
  BY DEF stored, device, Array
<1>2. /\ pc'[p] = l /\ call'[p] = c /\ loc'[p] = r
      /\ \A q \in Procs : q # p => pc'[q] = pc[q] /\ call'[q] = call[q] /\ loc'[q] = loc[q]
  OBVIOUS
<1> HIDE DEF DataInv, TypeOK
<1>3. ArrayInv' /\ PlainCells' /\ MirrorCells'
  BY <1>1 DEF ServiceInv, ArrayInv, PlainCells, MirrorCells
<1>4. PrimaryCells'
  <2> SUFFICES ASSUME Array.raid_level \in Mirrored, NEW b \in Addresses(Array),
                      disk_status[disk_num(Array, b)] = "HEALTHY"
               PROVE  \/ rows[disk_num(Array, b)][blkc_num(Array, b)] = latest[b]
                      \/ \E q \in Procs : pc'[q] = "write_mirror" /\ call'[q].block = b
    BY <1>1 DEF PrimaryCells
  <2>1. \/ rows[disk_num(Array, b)][blkc_num(Array, b)] = latest[b]
        \/ \E q \in Procs : pc[q] = "write_mirror" /\ call[q].block = b
    BY DEF ServiceInv, PrimaryCells
  <2> QED
    BY <1>2, <2>1
<1>5. ParityRows'
  <2> SUFFICES ASSUME Array.raid_level \in Parity, NEW k \in Rows
               PROVE  EvenRow(rows, k) \/ \E q \in Procs : pc'[q] = "write_row" /\ loc'[q].blk = k
    BY <1>1 DEF ParityRows
  <2>1. EvenRow(rows, k) \/ \E q \in Procs : pc[q] = "write_row" /\ loc[q].blk = k
    BY DEF ServiceInv, ParityRows
  <2> QED
    BY <1>2, <2>1
<1>6. ASSUME NEW q \in Procs
      PROVE  ServiceFit(pc'[q], call'[q], loc'[q], Array', rows', disk_status', expect'[q])
  <2>1. CASE q = p
    <3>1. /\ WriterFit(l, c, r, Array, rows, disk_status) /\ DeliveryFit(l, c, r, rows, expect'[p])
          /\ CopyFit(l, c, r, Array, rows, disk_status) /\ XorFit(l, c, r, Array, rows)
      BY Unconcerned, NotRepairing
    <3> QED
      BY <1>1, <1>2, <2>1, <3>1 DEF ServiceFit
  <2>2. CASE q # p
    <3>1. ServiceFit(pc[q], call[q], loc[q], Array, rows, disk_status, expect[q])
      BY OneServed
    <3>2. DeliveryFit(pc[q], call[q], loc[q], rows, expect'[q])
      BY <2>2, <3>1 DEF ServiceFit, DeliveryFit
    <3> QED
      BY <1>1, <1>2, <2>2, <3>1, <3>2 DEF ServiceFit
  <2> QED
    BY <2>1, <2>2
<1> QED
  BY <1>3, <1>4, <1>5, <1>6 DEF ServiceInv

\* A call ends.
LEMMA FinishServed ==
    ASSUME DataInv, ServiceInv, NEW p \in Procs, Finish(p)
    PROVE  ServiceInv'
<1>1. /\ pc[p] = "done" /\ pc' = [pc EXCEPT ![p] = "idle"] /\ call' = [call EXCEPT ![p] = NoCall]
      /\ loc' = [loc EXCEPT ![p] = Locals] /\ expect' = [expect EXCEPT ![p] = {}]
      /\ UNCHANGED <<stored, device, latest>>
  BY DEF Finish
<1>2. /\ pc'[p] = "idle"
      /\ \A q \in Procs : q # p => pc'[q] = pc[q] /\ call'[q] = call[q] /\ expect'[q] = expect[q]
  BY <1>1
<1> HIDE DEF DataInv, TypeOK
<1>3. RepairAlone'
  BY <1>2 DEF ServiceInv, RepairAlone
<1>4. ASSUME NEW q \in Procs PROVE Expects(q)'
  <2>1. CASE q = p
    BY <1>2, <2>1 DEF Expects
  <2>2. CASE q # p
    <3>1. Expects(q)
      BY OneServed
    <3>2. \A x \in Procs : \A b : Writing(x, b)' => Writing(x, b) /\ call'[x] = call[x]
      BY <1>2 DEF Writing
    <3> QED
      BY <1>1, <1>2, <2>2, <3>1, <3>2 DEF Expects
  <2> QED
    BY <2>1, <2>2
<1>5. ServingFit("idle", NoCall, Locals, Array)
  BY DEF ServingFit, NoCall, Locals
<1> QED
  BY <1>1, <1>2, <1>3, <1>4, <1>5, EdgeStep

\* A call begins: a repair only if nothing else runs, and nothing else while a
\* repair runs.
LEMMA InvokeServed ==
    ASSUME DataInv, ServiceInv, Disciplined, NEW p \in Procs, Invoke(p)
    PROVE  ServiceInv'
<1>1. PICK c \in Calls :
          /\ Admitted(p, c) /\ call' = [call EXCEPT ![p] = c] /\ pc' = [pc EXCEPT ![p] = Entry(c)]
          /\ loc' = [loc EXCEPT ![p].i = 1]
          /\ expect' = CASE c.op = "read" /\ c.block \in Blocks ->
                     [expect EXCEPT ![p] = {latest[c.block]} \union
                         {call[q].value : q \in {q \in Procs : Writing(q, c.block)}}]
              [] c.op = "write" ->
                     [q \in Procs |-> IF Reading(q, c.block)
                                      THEN expect[q] \union {c.value} ELSE expect[q]]
              [] OTHER -> expect
  BY DEF Invoke
<1>2. pc[p] = "idle" /\ UNCHANGED <<stored, device, latest>>
  BY DEF Invoke
<1>3. c.op \in {"read", "write", "info", "fail", "repair"}
  BY CallsAssumption DEF Disciplined
<1>4. /\ Entry(c) \in {"lm_fast", "fail", "repair"}
      /\ Entry(c) = "fail" => c.op = "fail"
  BY <1>3 DEF Entry
<1>5. /\ loc[p] \in LocalTypes /\ ServingFit(pc[p], call[p], loc[p], Array)
  BY OneServed DEF ServiceFit
<1> DEFINE r == [loc[p] EXCEPT !.i = 1]
<1>6. r.health = loc[p].health /\ loc' = [loc EXCEPT ![p] = r]
  BY <1>1, <1>5
<1>7. ServingFit(Entry(c), c, r, Array)
  BY <1>3, <1>4, <1>5, <1>6 DEF ServingFit
<1>8. /\ pc'[p] = Entry(c) /\ call'[p] = c
      /\ \A q \in Procs : q # p => pc'[q] = pc[q] /\ call'[q] = call[q]
  BY <1>1
<1>a. expect \in [Procs -> SUBSET {0, 1, Undef}]
  OBVIOUS
<1> HIDE DEF DataInv, TypeOK, r
<1>9. RepairAlone'
  <2>1. ASSUME NEW x \in Procs, pc'[x] # "idle", call'[x].op = "repair", NEW y \in Procs, pc'[y] # "idle" PROVE x = y
    <3>1. CASE x = p
      <4>1. c.op \in QuietOps
        BY <1>8, <2>1, <3>1 DEF Disciplined
      <4>2. \A q \in Procs : pc[q] = "idle"
        BY <1>1, <4>1 DEF Admitted
      <4> QED
        BY <1>8, <2>1, <3>1, <4>2
    <3>2. CASE x # p
      <4>1. pc[x] # "idle" /\ call[x].op \in QuietOps
        BY <1>8, <2>1, <3>2 DEF Disciplined
      <4> QED
        BY <1>1, <4>1 DEF Admitted
    <3> QED
      BY <3>1, <3>2
  <2> QED
    BY <2>1 DEF RepairAlone
<1>10. \A q \in Procs : q # p => expect[q] \subseteq expect'[q]
  <2>1. CASE c.op = "read" /\ c.block \in Blocks
    BY <1>1, <1>a, <2>1
  <2>2. CASE c.op = "write"
    BY <1>1, <1>a, <2>2
  <2>3. CASE c.op # "write" /\ ~(c.op = "read" /\ c.block \in Blocks)
    BY <1>1, <1>a, <2>3
  <2> QED
    BY <2>1, <2>2, <2>3
<1>11. ASSUME NEW q \in Procs PROVE Expects(q)'
  <2>1. CASE q = p /\ c.op = "read" /\ c.block \in Blocks
    <3>1. expect'[p] = {latest[c.block]} \union {call[x].value : x \in {x \in Procs : Writing(x, c.block)}}
      BY <1>1, <1>a, <2>1
    <3>2. ASSUME NEW x \in Procs, Writing(x, c.block)' PROVE call'[x].value \in expect'[p]
      <4>1. x # p
        BY <1>8, <2>1, <3>2 DEF Writing
      <4>2. Writing(x, c.block) /\ call'[x] = call[x]
        BY <1>8, <3>2, <4>1 DEF Writing
      <4> QED
        BY <3>1, <4>2
    <3> QED
      BY <1>2, <1>8, <2>1, <3>1, <3>2 DEF Expects
  <2>2. CASE q = p /\ ~(c.op = "read" /\ c.block \in Blocks)
    BY <1>8, <2>2 DEF Expects
  <2>3. CASE q # p
    <3> SUFFICES ASSUME call[q].op = "read", pc[q] # "idle", call[q].block \in Blocks
                 PROVE  /\ latest[call[q].block] \in expect'[q]
                        /\ \A x \in Procs : Writing(x, call[q].block)' => call'[x].value \in expect'[q]
      BY <1>2, <1>8, <2>3 DEF Expects
    <3>1. /\ latest[call[q].block] \in expect[q]
          /\ \A x \in Procs : Writing(x, call[q].block) => call[x].value \in expect[q]
      BY OneServed DEF Expects
    <3>2. ASSUME NEW x \in Procs, Writing(x, call[q].block)' PROVE call'[x].value \in expect'[q]
      <4>1. CASE x = p
        <5>1. c.op = "write" /\ c.block = call[q].block /\ call'[x] = c
          BY <1>8, <2>3, <3>2, <4>1 DEF Writing
        <5>2. Reading(q, c.block)
          BY <5>1 DEF Reading
        <5>3. expect'[q] = expect[q] \union {c.value}
          BY <1>1, <5>1, <5>2
        <5> QED
          BY <5>1, <5>3
      <4>2. CASE x # p
        <5>1. Writing(x, call[q].block) /\ call'[x] = call[x]
          BY <1>8, <2>3, <3>2, <4>2 DEF Writing
        <5> QED
          BY <1>10, <2>3, <3>1, <5>1
      <4> QED
        BY <4>1, <4>2
    <3> QED
      BY <1>10, <2>3, <3>1, <3>2
  <2> QED
    BY <2>1, <2>2, <2>3
<1>12. /\ pc[p] \in {"idle", "done"} /\ pc' = [pc EXCEPT ![p] = Entry(c)] /\ call' = [call EXCEPT ![p] = c]
       /\ Entry(c) \in {"idle", "lm_fast", "fail", "repair"}
  BY <1>1, <1>2, <1>4
<1> QED
  BY <1>2, <1>6, <1>7, <1>9, <1>10, <1>11, <1>12, EdgeStep

-----------------------------------------------------------------------------
(* The invariant, and what follows from it.                                 *)

\* It holds of an array on zeroed disks.
LEMMA ReadyServed == ReadyArray => ServiceInv
<1> SUFFICES ASSUME ReadyArray PROVE ServiceInv
  OBVIOUS
<1>1. PICK l \in Levels : /\ sblock = [d \in Disks |-> Superblock(l)]
                          /\ heap = [g \in 1 .. Pages |-> IF g = 1 THEN Superblock(l) ELSE Unused]
  BY DEF ReadyArray
<1>2. /\ rows = [d \in Disks |-> [r \in Rows |-> 0]] /\ is_init = 1 /\ superblock = 1
      /\ disk_status = [d \in 0 .. DISKS |-> IF d = 0 THEN "UNITIALIZED" ELSE "HEALTHY"]
      /\ pc = [p \in Procs |-> "idle"] /\ call = [p \in Procs |-> NoCall] /\ loc = [p \in Procs |-> Locals]
      /\ latest = [b \in Blocks |-> 0]
  BY DEF ReadyArray
<1>3. Array = Superblock(l)
  BY <1>1, <1>2, PagesAssumption DEF Array
<1>4. Array \in Superblocks
  BY <1>3, BootSuperblock
<1>5. ArrayInv
  BY <1>1, <1>2, <1>3, DisksAssumption DEF ArrayInv, Disks
<1>6. \A b \in Addresses(Array) :
          /\ latest[b] = 0 /\ disk_num(Array, b) \in Disks /\ blkc_num(Array, b) \in Rows
          /\ Array.raid_level # "RAID0" => RedundantDisk(Array, b) \in Disks
  BY <1>2, <1>4, AddressesAreBlocks, LocationInRange DEF Home, Redundant
<1>7. PlainCells /\ PrimaryCells
  BY <1>2, <1>6 DEF PlainCells, PrimaryCells
<1>8. MirrorCells
  BY <1>2, <1>6 DEF MirrorCells, Mirrored
<1>9. ASSUME NEW r \in Rows PROVE EvenRow(rows, r)
  <2>1. {d \in Disks : rows[d][r] = 1} = {}
    BY <1>2
  <2>2. Cardinality({}) % 2 = 0
    BY FS_EmptySet
  <2> QED
    BY <2>1, <2>2 DEF EvenRow
<1>10. RepairAlone /\ ParityRows
  BY <1>2, <1>9 DEF RepairAlone, ParityRows
<1>11. ASSUME NEW p \in Procs
       PROVE  Expects(p) /\ ServiceFit(pc[p], call[p], loc[p], Array, rows, disk_status, expect[p])
  <2>1. pc[p] = "idle" /\ call[p] = NoCall /\ loc[p] = Locals
    BY <1>2
  <2>2. ServingFit("idle", NoCall, Locals, Array)
    BY DEF ServingFit, NoCall, Locals
  <2>3. /\ WriterFit("idle", NoCall, Locals, Array, rows, disk_status)
        /\ DeliveryFit("idle", NoCall, Locals, rows, expect[p])
        /\ CopyFit("idle", NoCall, Locals, Array, rows, disk_status) /\ XorFit("idle", NoCall, Locals, Array, rows)
    BY Unconcerned, NotRepairing
  <2> QED
    BY <2>1, <2>2, <2>3 DEF Expects, ServiceFit
<1> QED
  BY <1>5, <1>7, <1>8, <1>10, <1>11 DEF ServiceInv

HIDE DEF At, Goto, OnlyMoves, LocalTypes, ServiceLabels, Addressed, WriteLabels, LoadLabels,
         RepairLabels, DataInv, TypeOK

\* Every step keeps the invariant.
LEMMA NextServed ==
    ASSUME DataInv, WritersApart, ServiceInv, Disciplined, [Next]_vars
    PROVE  ServiceInv'
<1>1. CASE UNCHANGED vars
  BY <1>1, PanicServed DEF vars
<1>2. CASE Next
  <2> PICK p \in Procs : Invoke(p) \/ Step(p)
    BY <1>2 DEF Next
  <2>0. Panic(p) => ServiceInv'
    BY PanicServed DEF Panic
  <2>1. CASE load_metadata(p)
    BY <2>1, load_metadataMove, ServiceMoveStep
  <2>2. CASE get_disk_health(p)
    BY <2>2, get_disk_healthNot
  <2>3. CASE Transfer(p)
    <3>1. CASE \/ rw_block(p) \/ DataHealth(p) \/ ReadRow(p) \/ PrimaryHealth(p) \/ MirrorHealth(p)
               \/ WritePrimaryHealth(p) \/ WriteMirrorHealth(p) \/ ReadOld(p) \/ ReadParity(p)
               \/ LockFirst(p) \/ LockSecond(p) \/ UnlockSecond(p) \/ UnlockFirst(p)
      <4>1. ServiceMove(p)
        BY <3>1, rw_blockMove, DataHealthMove, ReadRowMove, PrimaryHealthMove, MirrorHealthMove,
           WritePrimaryHealthMove, WriteMirrorHealthMove, ReadOldMove, ReadParityMove, LockMove
      <4> QED
        BY <4>1, ServiceMoveStep
    <3>2. CASE OffDisk(p)
      BY <2>0, <3>2 DEF OffDisk
    <3>3. CASE LockOutside(p)
      BY <3>3, LockOutsideNot
    <3>4. CASE WritePrimary(p) \/ WriteMirror(p) \/ WriteParity(p) \/ WriteRow(p)
      BY <3>4, WritePrimaryServed, WriteMirrorServed, WriteParityServed, WriteRowServed
    <3> QED
      BY <2>3, <3>1, <3>2, <3>3, <3>4 DEF Transfer, handle_rw_raid01, write_parrity_block
  <2>4. CASE raid_fail_disk(p)
    BY <2>4, raid_fail_diskMove, ServiceMoveStep
  <2>5. CASE raid_repair_disk(p)
    <3>1. CASE \/ RepairHealth(p) \/ RepairCount(p) \/ RepairSuperblock(p) \/ handle_recovery(p)
               \/ PartnerHealth(p) \/ CopyRead(p) \/ XorWrite(p)
      <4>1. ServiceMove(p)
        BY <3>1, RepairHealthMove, RepairCountMove, RepairSuperblockMove, handle_recoveryMove,
           PartnerHealthMove, CopyReadMove, XorWriteMove
      <4> QED
        BY <4>1, ServiceMoveStep
    <3>2. CASE XorRead(p)
      BY <2>0, <3>2, XorReadMove, ServiceMoveStep
    <3>3. CASE CopyWrite(p) \/ RepairDone(p)
      BY <3>3, CopyWriteServed, RepairDoneServed
    <3> QED
      BY <2>5, <3>1, <3>2, <3>3 DEF raid_repair_disk, mirrorRecovery, raid4_and_5_recovery
  <2>6. CASE raid_system_info(p)
    BY <2>6, InfoMove, ServiceMoveStep
  <2>7. CASE raid_system_init(p) \/ raid_system_destroy(p)
    BY <2>7, LifecycleNot
  <2>8. CASE UseAfterFree(p)
    BY <2>8, UseAfterFreeNot
  <2>9. CASE Finish(p)
    BY <2>9, FinishServed
  <2>10. CASE Invoke(p)
    BY <2>10, InvokeServed
  <2> QED
    BY <2>1, <2>2, <2>3, <2>4, <2>5, <2>6, <2>7, <2>8, <2>9, <2>10 DEF Step
<1> QED
  BY <1>1, <1>2

-----------------------------------------------------------------------------
(* What the invariant means for the users of the array.                     *)

\* A read that has returned delivers a value that it may deliver.
LEMMA ReadsFromInv == DataInv /\ ServiceInv => ReadsCurrent
<1> SUFFICES ASSUME DataInv, ServiceInv, NEW p \in Procs, At(p, "done"), call[p].op = "read",
                    loc[p].ret = 0
             PROVE  loc[p].buf \in expect[p]
  BY DEF ReadsCurrent
<1> QED
  BY OneServed DEF ServiceFit, DeliveryFit, At

\* The disks in service hold the data.
LEMMA HealthyFromInv == ServiceInv => HealthyDiskCurrent
BY DEF ServiceInv, PlainCells, PrimaryCells, HealthyDiskCurrent

\* And so do the mirrors and the parity.
LEMMA RedundancyFromInv == ServiceInv => RedundancyCurrent
<1>1. ServiceInv => MirrorCurrent
  BY DEF ServiceInv, MirrorCells, MirrorCurrent
<1>2. ServiceInv => ParityConsistent
  BY DEF ServiceInv, ParityRows, EvenRow, ParityConsistent
<1> QED
  BY <1>1, <1>2 DEF RedundancyCurrent

\* From an array in service, the invariants of raid.c always hold: for any number
\* of disks, rows and processes and any mixture of disciplined calls.
THEOREM ServiceInvariant ==
    ASSUME Disciplined
    PROVE  ReadySpec => [](DataInv /\ ServiceInv)
<1>1. ReadyArray => DataInv /\ LockInv /\ ServiceInv
  BY ReadyArrayInv, NoLocksAtBoot, ReadyServed
<1>2. DataInv /\ LockInv /\ ServiceInv /\ [Next]_vars
          => (DataInv /\ LockInv /\ ServiceInv)'
  <2> SUFFICES ASSUME DataInv, LockInv, ServiceInv, [Next]_vars
               PROVE  DataInv' /\ LockInv' /\ ServiceInv'
    OBVIOUS
  <2>1. [Next \/ Reboot]_vars
    OBVIOUS
  <2>2. DataInv'
    BY <2>1, NextStep
  <2>3. LockInv'
    BY <2>1, LockStep
  <2>4. ServiceInv'
    BY ApartFromInv, NextServed
  <2> QED
    BY <2>2, <2>3, <2>4
<1> QED
  BY <1>1, <1>2, PTL DEF ReadySpec

\* A read_raid that returns 0 delivers the last value written before it began or
\* one written while it ran, while disks fail, are bypassed and are repaired.
THEOREM ReadsAlwaysCurrent ==
    ASSUME Disciplined
    PROVE  ReadySpec => []ReadsCurrent
BY ServiceInvariant, ReadsFromInv, PTL

\* A disk that raid.c takes for healthy is never behind the writes.
THEOREM HealthyDisksAlwaysCurrent ==
    ASSUME Disciplined
    PROVE  ReadySpec => []HealthyDiskCurrent
BY ServiceInvariant, HealthyFromInv, PTL

\* Mirrors are never behind the data and parity rows always XOR to 0, but for a
\* writer between its two writes: a failed disk can be rebuilt at any time.
THEOREM RedundancyAlwaysCurrent ==
    ASSUME Disciplined
    PROVE  ReadySpec => []RedundancyCurrent
BY ServiceInvariant, RedundancyFromInv, PTL
=============================================================================
