------------------------------- MODULE MCRaid -------------------------------
(* Workloads for model checking Raid.                                       *)
EXTENDS Raid, TLC

Reads(blocks)  == {[op |-> "read", block |-> b] : b \in blocks}
Writes(blocks) == {[op |-> "write", block |-> b, value |-> v] : b \in blocks, v \in {0, 1}}
Fails(disks)   == {[op |-> "fail", disk |-> d] : d \in disks}
Repairs(disks) == {[op |-> "repair", disk |-> d] : d \in disks}
Inits(levels)  == {[op |-> "init", level |-> l] : l \in levels}
Info           == {[op |-> "info"]}
Destroy        == {[op |-> "destroy"]}

\* Arrays with redundancy on four disks of two data rows: disks 1 and 2 are
\* mirrored by 3 and 4, or blocks 0 and 1 share a row and its parity.  Block 4
\* is one past the end of the mirrored arrays, which the code lets through.  Both
\* sides of a mirror may fail.
RedundantCalls ==
    Reads({0, 3}) \union Writes({0, 1, 3, 4}) \union Fails({1, 3}) \union Repairs({1})

\* The whole life of an array on two disks, where RAID4 is refused; disk 3 and
\* block 3 do not exist.
LifecycleCalls ==
    Inits({"RAID0", "RAID1", "RAID4", "invalid"}) \union Reads({0, 3}) \union Writes({0})
        \union Fails({1, 3}) \union Repairs({1, 2, 3}) \union Info \union Destroy

\* The machine may restart in the middle of reads and writes while no disk is
\* out of service: a restart forgets which disks had failed, and one during
\* init leaves the superblocks of two arrays on the disks.
ServiceReboot ==
    /\ \A d \in Disks : disk_status[d] \notin {"UNHEALTY", "RECOVERY"}
    /\ \A p \in Procs : pc[p] # "idle" => call[p].op \in {"read", "write", "info"}
    /\ Reboot

\* A disk is failed while calls run, but never between the read of its
\* superblock and the store of the health found there: that store would take
\* the mark off again.
FailureApart(p) == \A q \in Procs : loc[q].health # "none" => HealthDisk(q) # call[p].disk

LifecycleStep(p) ==
    \/ load_metadata(p) \/ get_disk_health(p) \/ Transfer(p)
    \/ At(p, "fail") /\ FailureApart(p) /\ raid_fail_disk(p)
    \/ raid_repair_disk(p) \/ raid_system_info(p)
    \/ raid_system_init(p) \/ raid_system_destroy(p)
    \/ UseAfterFree(p) \/ Finish(p)

LifecycleNext == (\E p \in Procs : Invoke(p) \/ LifecycleStep(p)) \/ ServiceReboot
LifecycleSpec == ColdBoot /\ [][LifecycleNext]_vars

\* No discipline at all on four disks: in a RAID5 array block 2 has its data on
\* disk 3 and its parity on disk 4, block 3 the other way round.  Block 4 of a
\* RAID1 and block 8 of a RAID0 array are one past the end, and the array may
\* be destroyed under the others.
StormCalls ==
    Reads({8}) \union {c \in Writes({2, 3, 4}) : c.value = 1} \union Fails({2})
        \union Repairs({2}) \union Destroy

\* One block of a mirrored array, one administrator's disk.
OneBlockCalls == Reads({0}) \union Writes({0}) \union Fails({1}) \union Repairs({1})

\* The second disk of a parity array.
SecondDiskCalls == Writes({0}) \union Fails({2}) \union Repairs({2})

ProcSymmetry == Permutations(Procs)
=============================================================================
