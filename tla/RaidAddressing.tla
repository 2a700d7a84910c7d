--------------------------- MODULE RaidAddressing ---------------------------
(***************************************************************************)
(* Requests against the layout of RaidLayout: a level is initialised, and  *)
(* any block number that raid_read_block and raid_write_block accept is    *)
(* looked up.  The properties say that the layout loses no data.           *)
(***************************************************************************)
EXTENDS RaidLayout

VARIABLES sblk,     \* the superblock in use
          request   \* the logical block of the current request

vars == <<sblk, request>>

Init == sblk \in Superblocks /\ request = 0

\* raid_system_init, for any level it supports.
Initialise == /\ sblk' \in Superblocks
              /\ request' = 0

\* raid_read_block or raid_write_block: a block number past the validity check.
Request == /\ request' \in {b \in 0 .. sblk.max_blknum + 1 : Accepts(sblk, b)}
           /\ UNCHANGED sblk

Next == Initialise \/ Request

Spec == Init /\ [][Next]_vars

-----------------------------------------------------------------------------
TypeOK == sblk \in Superblocks /\ request \in Nat

\* rw_block never maps a block of the device to the superblock row or off a
\* disk, neither for its data nor for its mirror or parity.
InRange ==
    request \in Addresses(sblk) =>
        /\ Home(sblk, request) \in Disks \X Rows
        /\ sblk.raid_level # "RAID0" => Redundant(sblk, request) \in Disks \X Rows

\* Two blocks of the device never share a cell: no write_raid of one block
\* changes what read_raid of another returns.
NoAlias ==
    request \in Addresses(sblk) =>
        \A other \in Addresses(sblk) :
            Home(sblk, other) = Home(sblk, request) => other = request

\* The mirror or parity copy that a write maintains is never written over
\* by the data of any block.
RedundancyApart ==
    (request \in Addresses(sblk) /\ sblk.raid_level # "RAID0") =>
        \A other \in Addresses(sblk) :
            Redundant(sblk, request) # Home(sblk, other)

\* rw_block gives each block of the device a cell of its own for its data, which
\* exists and which no other block and no mirror or parity shares.
OwnCell == InRange /\ NoAlias /\ RedundancyApart

\* RAID4 and RAID5: the blocks of one row and their parity lie on different
\* disks and take up all of them, which is what makes the loss of any one
\* disk recoverable from the others.
StripeSpansDisks ==
    (request \in Addresses(sblk) /\ sblk.raid_level \in Parity) =>
        LET row == {b \in Addresses(sblk) : blkc_num(sblk, b) = blkc_num(sblk, request)}
        IN  {disk_num(sblk, b) : b \in row} = Disks \ {RedundantDisk(sblk, request)}

\* raid4_and_5_recovery of disk 1 reads every other disk exactly once.
RecoveryOfDisk1Complete ==
    sblk.raid_level \in Parity =>
        {RecoverySource(1, j) : j \in 0 .. (DISKS - 2)} = Disks \ {1}

\* A lost disk of a parity array can be rebuilt: a row has all its blocks and its
\* parity on different disks, and the rebuild of disk 1 reads all the others.
Rebuildable == StripeSpansDisks /\ RecoveryOfDisk1Complete
=============================================================================
