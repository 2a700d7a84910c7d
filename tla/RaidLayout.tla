----------------------------- MODULE RaidLayout -----------------------------
(***************************************************************************)
(* The address arithmetic of kernel/raid.c: what raid_system_init puts in  *)
(* the superblock for a RAID level, and where rw_block and the recovery    *)
(* code find a logical block, its mirror and its parity on the disks.      *)
(*                                                                         *)
(* Row 0 of every disk holds the superblock; rows 1 .. BlocksPerDisk - 1   *)
(* hold data and parity.                                                   *)
(*                                                                         *)
(* A definition whose name ends in _Xyz is the definition of the same name *)
(* with a plausible slip in it; it is there to show that some property     *)
(* notices the slip, and nothing else refers to it.                        *)
(***************************************************************************)
EXTENDS Integers, FiniteSets

CONSTANTS DISKS,          \* VIRTIO_RAID_DISK_END: the RAID disks are 1 .. DISKS
          BlocksPerDisk   \* blockPerDisk = DISK_SIZE * 1024 * 1024 / BSIZE

ASSUME DisksAssumption  == DISKS \in Nat /\ DISKS >= 2
ASSUME BlocksAssumption == BlocksPerDisk \in Nat /\ BlocksPerDisk >= 2

Disks == 1 .. DISKS
Rows  == 1 .. (BlocksPerDisk - 1)

RAID_TYPE == {"RAID0", "RAID1", "RAID0_1", "RAID4", "RAID5"}
Mirrored  == {"RAID1", "RAID0_1"}
Parity    == {"RAID4", "RAID5"}

-----------------------------------------------------------------------------
(* raid_system_init: the superblock of a level.  blk_size is a constant and *)
(* swap_disk is never read, so neither is kept.                             *)

DISK_HEALTH == {"HEALTHY", "UNHEALTY", "RECOVERY", "UNITIALIZED"}

\* The levels for which raid_system_init does not return -2.
Supported(level) == level \in Parity => DISKS # 2

num_of_disks(level) ==
    CASE level = "RAID0"      -> DISKS
      [] level \in Mirrored   -> DISKS \div 2
      [] level \in Parity     -> DISKS - 1

max_blknum(level) ==
    CASE level = "RAID0"      -> BlocksPerDisk * DISKS - DISKS
      [] level \in Mirrored   -> BlocksPerDisk * num_of_disks(level) - num_of_disks(level)
      [] level \in Parity     -> BlocksPerDisk * (DISKS - 1) - DISKS

parrity_disk(level) == IF level = "RAID4" THEN DISKS ELSE -1

Superblock(level) ==
    [raid_level   |-> level,
     disk_status  |-> "HEALTHY",
     parrity_disk |-> parrity_disk(level),
     max_blknum   |-> max_blknum(level),
     num_of_disks |-> num_of_disks(level)]

Superblocks == {Superblock(level) : level \in {l \in RAID_TYPE : Supported(l)}}

\* The validity check of raid_read_block and raid_write_block; block_num is
\* unsigned, so only the upper bound can fail.
Accepts(sb, block_num) == block_num <= sb.max_blknum

-----------------------------------------------------------------------------
(* rw_block: the disk and the row of a logical block.                       *)

stripe_index(sb, block_num)  == (block_num \div sb.num_of_disks) + 1
stripe_offset(sb, block_num) == (block_num % sb.num_of_disks) + 1

\* The disk of a RAID5 stripe that holds its parity.
parrity_index(sb, stripe) ==
    (sb.num_of_disks + 1) - ((stripe - 1) % (sb.num_of_disks + 1))

\* "if (disk_num > n + 1) disk_num = disk_num % (n + 1)"
WrapDisk(sb, d) == IF d > sb.num_of_disks + 1 THEN d % (sb.num_of_disks + 1) ELSE d

disk_num_WholeDisk(sb, block_num) ==
    IF sb.raid_level = "RAID1" THEN (block_num \div BlocksPerDisk) + 1
                               ELSE (block_num % sb.num_of_disks) + 1

disk_num(sb, block_num) ==
    CASE sb.raid_level \in {"RAID0", "RAID0_1", "RAID4"} ->
             (block_num % sb.num_of_disks) + 1
      [] sb.raid_level = "RAID1" -> (block_num \div (BlocksPerDisk - 1)) + 1
      [] sb.raid_level = "RAID5" ->
             WrapDisk(sb, parrity_index(sb, stripe_index(sb, block_num))
                            + stripe_offset(sb, block_num))

blkc_num(sb, block_num) ==
    CASE sb.raid_level \in {"RAID0", "RAID4"} -> (block_num \div sb.num_of_disks) + 1
      [] sb.raid_level = "RAID1"   -> (block_num % (BlocksPerDisk - 1)) + 1
      [] sb.raid_level = "RAID0_1" -> (block_num + sb.num_of_disks) \div sb.num_of_disks
      [] sb.raid_level = "RAID5"   -> stripe_index(sb, block_num)

\* The disk that a write of the block also updates: the mirror
\* (handle_rw_raid01) or the parity disk of its row; RAID0 has none.
RedundantDisk(sb, block_num) ==
    CASE sb.raid_level \in Mirrored -> disk_num(sb, block_num) + sb.num_of_disks
      [] sb.raid_level = "RAID4"    -> sb.parrity_disk
      [] sb.raid_level = "RAID5"    -> parrity_index(sb, blkc_num(sb, block_num))

Home(sb, block_num)      == <<disk_num(sb, block_num), blkc_num(sb, block_num)>>
Redundant(sb, block_num) == <<RedundantDisk(sb, block_num), blkc_num(sb, block_num)>>

-----------------------------------------------------------------------------
(* The recovery code: which disks are read to rebuild a disk.               *)

\* handle_recovery, mirrored levels: the disk copied onto disk d.
RecoveryPartner(sb, d) ==
    IF d >= sb.num_of_disks THEN d - sb.num_of_disks ELSE d + sb.num_of_disks

RecoverySource_ModDisks(r, j) == (r + 1 + j) % DISKS

\* raid4_and_5_recovery: the disk read in round j, 0 <= j < DISKS - 1, when
\* disk r is rebuilt (round 0 is dataDisk, round j > 0 is currDisk).
RecoverySource(r, j) ==
    IF j = 0 THEN (r + 1) % (DISKS + 1)
             ELSE (((r + 1) % (DISKS + 1)) + j) % (DISKS + 1)

-----------------------------------------------------------------------------
(* The reference the layout is measured against: one block for every data   *)
(* row of every data disk.                                                  *)

Capacity(sb)  == sb.num_of_disks * (BlocksPerDisk - 1)
Addresses(sb) == 0 .. (Capacity(sb) - 1)
DataDisks(sb) == 1 .. (sb.num_of_disks + (IF sb.raid_level = "RAID5" THEN 1 ELSE 0))
=============================================================================
