-------------------------- MODULE RaidLayoutProofs --------------------------
(***************************************************************************)
(* Facts about the layout of kernel/raid.c that hold for every number of   *)
(* disks and every disk size: where rw_block puts the blocks of the device *)
(* and their redundancy, and what the recovery code reads.                 *)
(***************************************************************************)
EXTENDS RaidLayout, TLAPS

-----------------------------------------------------------------------------
(* Arithmetic of \div and %.                                                *)

\* Quotient and remainder of a block number.
LEMMA DivMod ==
    ASSUME NEW a \in Nat, NEW n \in Nat, n > 0
    PROVE  /\ a \div n \in Nat
           /\ a % n \in 0 .. (n - 1)
           /\ a = n * (a \div n) + (a % n)
  OBVIOUS

\* A block below n * q lies in one of the first q stripes.
LEMMA DivBound ==
    ASSUME NEW a \in Nat, NEW n \in Nat, n > 0, NEW q \in Nat, a < n * q
    PROVE  a \div n < q
  OBVIOUS

\* RAID0_1 computes its row as (b + n) / n.
LEMMA DivShift ==
    ASSUME NEW a \in Nat, NEW n \in Nat, n > 0
    PROVE  (a + n) \div n = (a \div n) + 1
  OBVIOUS

\* Quotient and remainder determine the block.
LEMMA DivModInjective ==
    ASSUME NEW a \in Nat, NEW b \in Nat, NEW n \in Nat, n > 0,
           a \div n = b \div n, a % n = b % n
    PROVE  a = b
  OBVIOUS

\* The block with a given quotient and remainder.
LEMMA DivModCompose ==
    ASSUME NEW q \in Nat, NEW n \in Nat, NEW r \in Nat, r < n
    PROVE  /\ (n * q + r) \div n = q
           /\ (n * q + r) % n = r
  OBVIOUS

\* The wrap-around of the RAID5 data disk.
LEMMA ModOnce ==
    ASSUME NEW n \in Nat, NEW x \in Nat, n < x, x < 2 * n
    PROVE  x % n = x - n
  OBVIOUS

-----------------------------------------------------------------------------
(* What a superblock in use looks like.                                     *)

\* The fields raid_system_init computes, level by level.
LEMMA SuperblockFields ==
    ASSUME NEW sb \in Superblocks
    PROVE  /\ sb.raid_level \in RAID_TYPE
           /\ sb.num_of_disks \in Nat
           /\ sb.num_of_disks >= 1
           /\ sb.raid_level = "RAID0" => sb.num_of_disks = DISKS
           /\ sb.raid_level \in Mirrored => 2 * sb.num_of_disks <= DISKS
           /\ sb.raid_level \in Parity => sb.num_of_disks = DISKS - 1
           /\ sb.raid_level = "RAID4" => sb.parrity_disk = DISKS
<1> PICK level \in RAID_TYPE : Supported(level) /\ sb = Superblock(level)
  BY DEF Superblocks
<1>1. /\ sb.raid_level = level
      /\ sb.num_of_disks = num_of_disks(level)
      /\ sb.parrity_disk = parrity_disk(level)
  BY DEF Superblock
<1>2. CASE level = "RAID0"
  BY <1>1, <1>2, DisksAssumption DEF num_of_disks, parrity_disk, Mirrored, Parity, RAID_TYPE
<1>3. CASE level \in Mirrored
  <2>1. num_of_disks(level) = DISKS \div 2
    BY <1>3 DEF num_of_disks, Mirrored, Parity
  <2>2. DISKS \div 2 \in Nat /\ DISKS \div 2 >= 1 /\ 2 * (DISKS \div 2) <= DISKS
    BY DisksAssumption
  <2> QED
    BY <1>1, <1>3, <2>1, <2>2 DEF parrity_disk, Mirrored, Parity, RAID_TYPE
<1>4. CASE level \in Parity
  BY <1>1, <1>4, DisksAssumption DEF num_of_disks, parrity_disk, Mirrored, Parity, RAID_TYPE
<1> QED
  BY <1>2, <1>3, <1>4 DEF RAID_TYPE, Mirrored, Parity

-----------------------------------------------------------------------------
(* The location of a block, level by level.                                 *)

\* RAID0, RAID0_1 and RAID4 stripe: the remainder picks the disk, the
\* quotient the row.
LEMMA StripedLocation ==
    ASSUME NEW sb \in Superblocks, sb.raid_level \in {"RAID0", "RAID0_1", "RAID4"},
           NEW b \in Addresses(sb)
    PROVE  /\ disk_num(sb, b) = (b % sb.num_of_disks) + 1
           /\ blkc_num(sb, b) = (b \div sb.num_of_disks) + 1
           /\ disk_num(sb, b) \in 1 .. sb.num_of_disks
           /\ blkc_num(sb, b) \in Rows
<1> DEFINE n == sb.num_of_disks
<1>1. n \in Nat /\ n > 0
  BY SuperblockFields
<1>2. b \in Nat /\ b < n * (BlocksPerDisk - 1) /\ BlocksPerDisk - 1 \in Nat
  BY <1>1, BlocksAssumption DEF Addresses, Capacity
<1>3. b \div n \in Nat /\ b % n \in 0 .. (n - 1) /\ b \div n < BlocksPerDisk - 1
  BY <1>1, <1>2, DivMod, DivBound
<1>4. disk_num(sb, b) = (b % n) + 1
  BY DEF disk_num
<1>5. blkc_num(sb, b) = (b \div n) + 1
  <2>1. CASE sb.raid_level \in {"RAID0", "RAID4"}
    BY <2>1 DEF blkc_num
  <2>2. CASE sb.raid_level = "RAID0_1"
    <3>1. blkc_num(sb, b) = (b + n) \div n
      BY <2>2 DEF blkc_num
    <3> QED
      BY <3>1, <1>1, <1>2, DivShift
  <2> QED
    BY <2>1, <2>2
<1>6. disk_num(sb, b) \in 1 .. n
  BY <1>1, <1>3, <1>4
<1>7. blkc_num(sb, b) \in Rows
  BY <1>2, <1>3, <1>5 DEF Rows
<1> QED
  BY <1>4, <1>5, <1>6, <1>7

\* RAID1 fills one disk after the other.
LEMMA Raid1Location ==
    ASSUME NEW sb \in Superblocks, sb.raid_level = "RAID1", NEW b \in Addresses(sb)
    PROVE  /\ disk_num(sb, b) = (b \div (BlocksPerDisk - 1)) + 1
           /\ blkc_num(sb, b) = (b % (BlocksPerDisk - 1)) + 1
           /\ disk_num(sb, b) \in 1 .. sb.num_of_disks
           /\ blkc_num(sb, b) \in Rows
<1> DEFINE n == sb.num_of_disks
           m == BlocksPerDisk - 1
<1>1. n \in Nat /\ n > 0 /\ m \in Nat /\ m > 0
  BY SuperblockFields, BlocksAssumption
<1>2. b \in Nat /\ b < m * n
  BY <1>1 DEF Addresses, Capacity
<1>3. b \div m \in Nat /\ b % m \in 0 .. (m - 1) /\ b \div m < n
  BY <1>1, <1>2, DivMod, DivBound
<1>4. disk_num(sb, b) = (b \div m) + 1 /\ blkc_num(sb, b) = (b % m) + 1
  BY DEF disk_num, blkc_num
<1> HIDE DEF n, m
<1>5. disk_num(sb, b) \in 1 .. n /\ blkc_num(sb, b) \in 1 .. m
  BY <1>1, <1>3, <1>4
<1> QED
  BY <1>4, <1>5 DEF n, m, Rows

\* RAID5: the data disk is the offset's distance past the parity disk, going
\* round the n + 1 disks, so it is never the parity disk.
LEMMA Raid5Location ==
    ASSUME NEW sb \in Superblocks, sb.raid_level = "RAID5", NEW b \in Addresses(sb)
    PROVE  LET n == sb.num_of_disks
               o == b % n
               q == b \div n
               par == (n + 1) - (q % (n + 1))
           IN  /\ q \in Nat /\ o \in 0 .. (n - 1)
               /\ par \in 1 .. (n + 1)
               /\ blkc_num(sb, b) = q + 1
               /\ blkc_num(sb, b) \in Rows
               /\ RedundantDisk(sb, b) = par
               /\ disk_num(sb, b) = IF par + o + 1 > n + 1 THEN par + o - n ELSE par + o + 1
               /\ disk_num(sb, b) \in 1 .. (n + 1)
               /\ disk_num(sb, b) # par
<1> DEFINE n == sb.num_of_disks
           o == b % n
           q == b \div n
           par == (n + 1) - (q % (n + 1))
<1>1. n \in Nat /\ n > 0
  BY SuperblockFields
<1>2. b \in Nat /\ b < n * (BlocksPerDisk - 1) /\ BlocksPerDisk - 1 \in Nat
  BY <1>1, BlocksAssumption DEF Addresses, Capacity
<1>3. q \in Nat /\ o \in 0 .. (n - 1) /\ q < BlocksPerDisk - 1
  BY <1>1, <1>2, DivMod, DivBound
<1>4. q % (n + 1) \in 0 .. n
  BY <1>1, <1>3, DivMod
<1>5. par \in 1 .. (n + 1)
  BY <1>1, <1>4
<1>6. blkc_num(sb, b) = q + 1
  BY DEF blkc_num, stripe_index
<1>7. blkc_num(sb, b) \in Rows
  BY <1>2, <1>3, <1>6 DEF Rows
<1>8. parrity_index(sb, q + 1) = par
  BY <1>3 DEF parrity_index
<1>9. RedundantDisk(sb, b) = par
  BY <1>6, <1>8 DEF RedundantDisk, Mirrored
<1>10. disk_num(sb, b) = WrapDisk(sb, par + (o + 1))
  BY <1>8 DEF disk_num, stripe_index, stripe_offset
<1> HIDE DEF par, o, q, n
<1>11. par + (o + 1) > n + 1 => (par + (o + 1)) % (n + 1) = par + o - n
  <2> SUFFICES ASSUME par + (o + 1) > n + 1
               PROVE  (par + (o + 1)) % (n + 1) = par + o - n
    OBVIOUS
  <2>1. n + 1 \in Nat /\ par + (o + 1) \in Nat /\ par + (o + 1) < 2 * (n + 1)
    BY <1>1, <1>3, <1>5
  <2>2. (par + (o + 1)) % (n + 1) = (par + (o + 1)) - (n + 1)
    BY <2>1, ModOnce
  <2> QED
    BY <2>2, <1>1, <1>3, <1>5
<1>12. disk_num(sb, b) = IF par + o + 1 > n + 1 THEN par + o - n ELSE par + o + 1
  BY <1>1, <1>3, <1>5, <1>10, <1>11 DEF WrapDisk, n
<1>13. disk_num(sb, b) \in 1 .. (n + 1) /\ disk_num(sb, b) # par
  BY <1>1, <1>3, <1>5, <1>12
<1> QED
  BY <1>3, <1>5, <1>6, <1>7, <1>9, <1>12, <1>13 DEF par, o, q, n

-----------------------------------------------------------------------------
(* Facts about one superblock and its addresses.                            *)

\* Data and redundancy of a block lie on data rows of existing disks.
LEMMA LocationInRange ==
    ASSUME NEW sb \in Superblocks, NEW b \in Addresses(sb)
    PROVE  /\ Home(sb, b) \in Disks \X Rows
           /\ sb.raid_level # "RAID0" => Redundant(sb, b) \in Disks \X Rows
<1>0. sb.num_of_disks \in Nat /\ DISKS \in Nat
  BY SuperblockFields, DisksAssumption
<1>1. CASE sb.raid_level = "RAID0"
  BY <1>0, <1>1, SuperblockFields, StripedLocation DEF Home, Disks
<1>2. CASE sb.raid_level = "RAID4"
  <2>1. RedundantDisk(sb, b) = DISKS
    BY <1>2, SuperblockFields DEF RedundantDisk, Mirrored
  <2>2. sb.num_of_disks = DISKS - 1
    BY <1>2, SuperblockFields DEF Parity
  <2> QED
    BY <1>0, <1>2, <2>1, <2>2, StripedLocation, DisksAssumption DEF Home, Redundant, Disks
<1>3. CASE sb.raid_level \in Mirrored
  <2>1. disk_num(sb, b) \in 1 .. sb.num_of_disks /\ blkc_num(sb, b) \in Rows
    BY <1>3, StripedLocation, Raid1Location DEF Mirrored
  <2>2. RedundantDisk(sb, b) = disk_num(sb, b) + sb.num_of_disks
    BY <1>3 DEF RedundantDisk, Mirrored
  <2>3. 2 * sb.num_of_disks <= DISKS
    BY <1>3, SuperblockFields
  <2> QED
    BY <1>0, <2>1, <2>2, <2>3 DEF Home, Redundant, Disks
<1>4. CASE sb.raid_level = "RAID5"
  <2>1. sb.num_of_disks + 1 = DISKS
    BY <1>0, <1>4, SuperblockFields DEF Parity
  <2>2. /\ disk_num(sb, b) \in Disks
        /\ RedundantDisk(sb, b) \in Disks
        /\ blkc_num(sb, b) \in Rows
    BY <1>4, <2>1, Raid5Location DEF Disks
  <2> QED
    BY <2>2 DEF Home, Redundant
<1> QED
  BY <1>1, <1>2, <1>3, <1>4, SuperblockFields DEF RAID_TYPE, Mirrored

\* Two blocks with the same home are the same block.
LEMMA HomeInjective ==
    ASSUME NEW sb \in Superblocks, NEW a \in Addresses(sb), NEW b \in Addresses(sb),
           Home(sb, a) = Home(sb, b)
    PROVE  a = b
<1> DEFINE n == sb.num_of_disks
<1>1. n \in Nat /\ n > 0 /\ a \in Nat /\ b \in Nat
  BY SuperblockFields DEF Addresses
<1>2. disk_num(sb, a) = disk_num(sb, b) /\ blkc_num(sb, a) = blkc_num(sb, b)
  BY DEF Home
<1>3. CASE sb.raid_level \in {"RAID0", "RAID0_1", "RAID4"}
  <2>1. /\ (a % n) + 1 = (b % n) + 1
        /\ (a \div n) + 1 = (b \div n) + 1
    BY <1>2, <1>3, StripedLocation
  <2>2. a % n = b % n /\ a \div n = b \div n
    BY <1>1, <2>1, DivMod
  <2> QED
    BY <1>1, <2>2, DivModInjective
<1>4. CASE sb.raid_level = "RAID1"
  <2> DEFINE m == BlocksPerDisk - 1
  <2>0. m \in Nat /\ m > 0
    BY BlocksAssumption
  <2>1. /\ (a % m) + 1 = (b % m) + 1
        /\ (a \div m) + 1 = (b \div m) + 1
    BY <1>2, <1>4, Raid1Location
  <2>2. a % m = b % m /\ a \div m = b \div m
    BY <1>1, <2>0, <2>1, DivMod
  <2> QED
    BY <1>1, <2>0, <2>2, DivModInjective
<1>5. CASE sb.raid_level = "RAID5"
  <2> DEFINE par(x) == (n + 1) - ((x \div n) % (n + 1))
  <2>1. \A x \in {a, b} :
            /\ x \div n \in Nat /\ x % n \in 0 .. (n - 1)
            /\ par(x) \in 1 .. (n + 1)
            /\ blkc_num(sb, x) = (x \div n) + 1
            /\ disk_num(sb, x) = IF par(x) + (x % n) + 1 > n + 1
                                 THEN par(x) + (x % n) - n ELSE par(x) + (x % n) + 1
    BY <1>5, Raid5Location
  <2>2. a \div n = b \div n
    BY <1>2, <2>1
  <2>3. par(a) = par(b)
    BY <2>2
  <2> HIDE DEF par
  <2>4. a % n = b % n
    BY <1>1, <1>2, <2>1, <2>3
  <2> QED
    BY <1>1, <2>2, <2>4, DivModInjective
<1> QED
  BY <1>3, <1>4, <1>5, SuperblockFields DEF RAID_TYPE

\* The redundancy of a block is never the home of a block.
LEMMA RedundantNotHome ==
    ASSUME NEW sb \in Superblocks, sb.raid_level # "RAID0",
           NEW a \in Addresses(sb), NEW b \in Addresses(sb)
    PROVE  Redundant(sb, a) # Home(sb, b)
<1>0. sb.num_of_disks \in Nat /\ DISKS \in Nat
  BY SuperblockFields, DisksAssumption
<1>1. CASE sb.raid_level = "RAID4"
  <2>1. RedundantDisk(sb, a) = DISKS /\ sb.num_of_disks = DISKS - 1
    BY <1>1, SuperblockFields DEF RedundantDisk, Mirrored, Parity
  <2>2. disk_num(sb, b) \in 1 .. sb.num_of_disks
    BY <1>1, StripedLocation
  <2> QED
    BY <1>0, <2>1, <2>2 DEF Redundant, Home
<1>2. CASE sb.raid_level \in Mirrored
  <2>1. /\ disk_num(sb, a) \in 1 .. sb.num_of_disks
        /\ disk_num(sb, b) \in 1 .. sb.num_of_disks
    BY <1>2, StripedLocation, Raid1Location DEF Mirrored
  <2>2. RedundantDisk(sb, a) = disk_num(sb, a) + sb.num_of_disks
    BY <1>2 DEF RedundantDisk, Mirrored
  <2> QED
    BY <1>0, <2>1, <2>2 DEF Redundant, Home
<1>3. CASE sb.raid_level = "RAID5"
  <2> SUFFICES ASSUME blkc_num(sb, a) = blkc_num(sb, b)
               PROVE  RedundantDisk(sb, a) # disk_num(sb, b)
    BY DEF Redundant, Home
  <2>1. RedundantDisk(sb, a) = RedundantDisk(sb, b)
    BY <1>3 DEF RedundantDisk, Mirrored
  <2>2. disk_num(sb, b) # RedundantDisk(sb, b)
    BY <1>3, Raid5Location
  <2> QED
    BY <2>1, <2>2
<1> QED
  BY <1>1, <1>2, <1>3, SuperblockFields DEF RAID_TYPE, Mirrored

\* On a row of a parity array, every disk but the row's parity disk is the
\* home of some block.
LEMMA RowCoversDisks ==
    ASSUME NEW sb \in Superblocks, sb.raid_level \in Parity, NEW a \in Addresses(sb),
           NEW d \in Disks \ {RedundantDisk(sb, a)}
    PROVE  \E b \in Addresses(sb) : blkc_num(sb, b) = blkc_num(sb, a) /\ disk_num(sb, b) = d
<1> DEFINE n == sb.num_of_disks
           m == BlocksPerDisk - 1
           q == a \div n
           par == (n + 1) - (q % (n + 1))
           o == IF sb.raid_level = "RAID4" THEN d - 1
                ELSE IF d > par THEN d - par - 1 ELSE d - par + n
           b == n * q + o
<1>1. n \in Nat /\ n > 0 /\ n + 1 = DISKS /\ m \in Nat /\ m > 0
  BY SuperblockFields, BlocksAssumption, DisksAssumption
<1>2. a \in Nat /\ a < n * m
  BY <1>1 DEF Addresses, Capacity
<1>3. q \in Nat /\ q < m
  BY <1>1, <1>2, DivMod, DivBound
<1>4. d \in 1 .. (n + 1) /\ d # RedundantDisk(sb, a)
  BY <1>1 DEF Disks
<1>5. sb.raid_level = "RAID4" => RedundantDisk(sb, a) = n + 1
  BY <1>1, SuperblockFields DEF RedundantDisk, Mirrored
<1>6. sb.raid_level = "RAID5" => RedundantDisk(sb, a) = par /\ par \in 1 .. (n + 1)
  BY Raid5Location
<1>7. sb.raid_level \in {"RAID4", "RAID5"}
  BY DEF Parity
<1>8. o \in Nat /\ o < n
  <2> HIDE DEF par, q, n
  <2> QED
    BY <1>1, <1>4, <1>5, <1>6, <1>7
<1>9. b \in Addresses(sb)
  <2> HIDE DEF o, q, n, m
  <2>1. n * (q + 1) <= n * m
    BY <1>1, <1>3
  <2>2. b \in Nat /\ b < n * m
    BY <1>1, <1>3, <1>8, <2>1
  <2> QED
    BY <1>1, <2>2 DEF Addresses, Capacity, n, m
<1>10. b \div n = q /\ b % n = o
  <2> HIDE DEF o, q, n
  <2> QED
    BY <1>1, <1>3, <1>8, DivModCompose
<1>11. CASE sb.raid_level = "RAID4"
  <2>1. blkc_num(sb, b) = q + 1 /\ blkc_num(sb, a) = q + 1 /\ disk_num(sb, b) = o + 1
    BY <1>9, <1>10, <1>11, StripedLocation
  <2>2. o + 1 = d
    BY <1>4, <1>1, <1>11
  <2> QED
    BY <1>9, <2>1, <2>2
<1>12. CASE sb.raid_level = "RAID5"
  <2>1. blkc_num(sb, b) = q + 1 /\ blkc_num(sb, a) = q + 1
    BY <1>9, <1>10, <1>12, Raid5Location
  <2>2. disk_num(sb, b) = IF par + o + 1 > n + 1 THEN par + o - n ELSE par + o + 1
    BY <1>9, <1>10, <1>12, Raid5Location
  <2>3. disk_num(sb, b) = d
    <3>1. o = IF d > par THEN d - par - 1 ELSE d - par + n
      BY <1>12
    <3>2. par \in 1 .. (n + 1) /\ d # par
      BY <1>4, <1>6, <1>12
    <3> HIDE DEF par, o, q, n, b
    <3> QED
      BY <1>1, <1>4, <2>2, <3>1, <3>2
  <2> QED
    BY <1>9, <2>1, <2>3
<1> QED
  BY <1>7, <1>11, <1>12

-----------------------------------------------------------------------------
(* What the validity check lets through.                                    *)

\* An accepted block number is a block of the device or, for the levels without
\* parity, the block just behind the last one.
LEMMA AcceptedBlocks ==
    ASSUME NEW sb \in Superblocks, NEW b \in Nat, Accepts(sb, b)
    PROVE  \/ b \in Addresses(sb)
           \/ sb.raid_level \notin Parity /\ b = Capacity(sb)
<1>1. sb.max_blknum = IF sb.raid_level \in Parity THEN Capacity(sb) - 1 ELSE Capacity(sb)
  BY DisksAssumption, BlocksAssumption
     DEF Superblocks, Superblock, Capacity, max_blknum, num_of_disks, RAID_TYPE, Mirrored, Parity
<1>2. Capacity(sb) \in Nat
  BY SuperblockFields, BlocksAssumption DEF Capacity
<1> QED
  BY <1>1, <1>2 DEF Accepts, Addresses

\* Wherever an accepted block lands, its data disk exists, its row is at most
\* one past the disk, and its redundancy is on another disk; for the parity
\* levels everything is in range.
LEMMA AcceptedLocation ==
    ASSUME NEW sb \in Superblocks, NEW b \in Nat, Accepts(sb, b)
    PROVE  /\ disk_num(sb, b) \in Disks
           /\ blkc_num(sb, b) \in 1 .. BlocksPerDisk
           /\ sb.raid_level # "RAID0" => /\ RedundantDisk(sb, b) \in 1 .. (2 * DISKS)
                                         /\ RedundantDisk(sb, b) # disk_num(sb, b)
           /\ sb.raid_level \in Parity => /\ RedundantDisk(sb, b) \in Disks
                                          /\ blkc_num(sb, b) \in Rows
<1>0. DISKS \in Nat /\ DISKS >= 2 /\ BlocksPerDisk \in Nat /\ BlocksPerDisk >= 2
  BY DisksAssumption, BlocksAssumption
<1>1. CASE b \in Addresses(sb)
  <2>1. Home(sb, b) \in Disks \X Rows
    BY <1>1, LocationInRange
  <2>2. ASSUME sb.raid_level # "RAID0"
        PROVE  Redundant(sb, b) \in Disks \X Rows /\ Redundant(sb, b) # Home(sb, b)
    BY <1>1, <2>2, LocationInRange, RedundantNotHome
  <2> QED
    BY <1>0, <2>1, <2>2 DEF Home, Redundant, Disks, Rows, Parity
<1>2. CASE sb.raid_level \notin Parity /\ b = Capacity(sb)
  <2> DEFINE n == sb.num_of_disks
             m == BlocksPerDisk - 1
  <2>0. /\ n \in Nat /\ n >= 1 /\ m \in Nat /\ m >= 1 /\ b = n * m
        /\ sb.raid_level = "RAID0" => n = DISKS
        /\ sb.raid_level \in Mirrored => 2 * n <= DISKS
        /\ sb.raid_level \in {"RAID0", "RAID1", "RAID0_1"}
    BY <1>0, <1>2, SuperblockFields DEF Capacity, RAID_TYPE, Parity
  <2>1. b % n = 0 /\ b \div n = m
    BY <2>0, DivModCompose
  <2>2. (b + n) \div n = m + 1
    BY <2>0, <2>1, DivShift
  <2>3. b % m = 0 /\ b \div m = n
    <3>1. b = m * n + 0
      BY <2>0
    <3> QED
      BY <2>0, <3>1, DivModCompose
  <2>4. CASE sb.raid_level \in {"RAID0", "RAID0_1"}
    <3>1. disk_num(sb, b) = 1
      BY <2>1, <2>4 DEF disk_num
    <3>2. blkc_num(sb, b) = BlocksPerDisk
      BY <1>0, <2>1, <2>2, <2>4 DEF blkc_num
    <3>3. sb.raid_level = "RAID0_1" => RedundantDisk(sb, b) = 1 + n
      BY <3>1 DEF RedundantDisk, Mirrored
    <3> QED
      BY <1>0, <1>2, <2>0, <2>4, <3>1, <3>2, <3>3 DEF Disks, Mirrored
  <2>5. CASE sb.raid_level = "RAID1"
    <3>1. disk_num(sb, b) = n + 1
      BY <2>3, <2>5 DEF disk_num
    <3>2. blkc_num(sb, b) = 1
      BY <2>3, <2>5 DEF blkc_num
    <3>3. RedundantDisk(sb, b) = n + 1 + n
      BY <2>5, <3>1 DEF RedundantDisk, Mirrored
    <3> QED
      BY <1>0, <1>2, <2>0, <2>5, <3>1, <3>2, <3>3 DEF Disks, Mirrored
  <2> QED
    BY <2>0, <2>4, <2>5
<1> QED
  BY <1>1, <1>2, AcceptedBlocks

-----------------------------------------------------------------------------
(* The disks that raid4_and_5_recovery reads.                               *)

\* The disk read in a round is a disk of the array or the missing disk 0.
LEMMA SourceRange ==
    ASSUME NEW r \in Disks, NEW j \in Nat
    PROVE  RecoverySource(r, j) \in 0 .. DISKS
BY DisksAssumption DEF RecoverySource, Disks

\* Rebuilding disk 1, round j reads disk j + 2.
LEMMA SourceOfDisk1 ==
    ASSUME NEW j \in 0 .. (DISKS - 2)
    PROVE  RecoverySource(1, j) = j + 2
BY DisksAssumption DEF RecoverySource
=============================================================================
