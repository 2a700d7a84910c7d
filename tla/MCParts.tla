------------------------------ MODULE MCParts ------------------------------
(* Parts that stand alone, one at a time: the addresses of the RAID device,  *)
(* copies to and from user memory, the allocator of user programs, spin      *)
(* locks with interrupts, and the console.  A run explores the parts in      *)
(* Parts; the variables of the others keep one initial value.                *)
EXTENDS RaidAddressing, UserCopy, UserHeap, Interrupts, Console

CONSTANTS Parts, p1, p2
VARIABLE part

partVars == <<part, vars, copyVars, heapVars, intrVars, consVars>>

TwoThreads == <<p1, p2>>

PartInit ==
    /\ part \in Parts
    /\ CopyInit /\ HeapInit /\ IntrInit /\ ConsInit
    /\ IF part = "addressing" THEN Init
       ELSE sblk = Superblock("RAID1") /\ request = sblk.max_blknum
    /\ part # "copy" => /\ copy = [fn |-> "copyin", va |-> MaxVa, left |-> 0, out |-> <<>>, result |-> "entered"]
                        /\ \A i \in DOMAIN ptes : ptes[i] = "user"

PartNext ==
    \/ part = "addressing" /\ Next /\ UNCHANGED <<part, copyVars, heapVars, intrVars, consVars>>
    \/ part = "copy" /\ CopyNext /\ UNCHANGED <<part, vars, heapVars, intrVars, consVars>>
    \/ part = "heap" /\ HeapNext /\ UNCHANGED <<part, vars, copyVars, intrVars, consVars>>
    \/ part = "locks" /\ IntrNext /\ UNCHANGED <<part, vars, copyVars, heapVars, consVars>>
    \/ part = "console" /\ ConsNext /\ UNCHANGED <<part, vars, copyVars, heapVars, intrVars>>

PartSpec == PartInit /\ [][PartNext]_partVars
=============================================================================
