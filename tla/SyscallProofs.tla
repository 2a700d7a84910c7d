--------------------------- MODULE SyscallProofs ---------------------------
(* Proofs about what system calls rest on.  The process table: for any       *)
(* number of slots and CPUs, no process is on two CPUs, no entry is reused   *)
(* while a CPU is on its stack, and no zombie is forgotten.  Copies between  *)
(* the kernel and user memory: for any page size and address space, a copy   *)
(* moves exactly the bytes asked for or fails.  Physical memory: for any     *)
(* number of pages and processes, every page is free or held in one place,   *)
(* and every process finds in its image what it put there.                   *)
EXTENDS ProcLife, UserCopy, Memory, FiniteSetTheorems, SequenceTheorems, WellFoundedInduction, TLAPS

-----------------------------------------------------------------------------
(* The inductive invariant.                                                  *)

States   == {"UNUSED", "USED", "SLEEPING", "RUNNABLE", "RUNNING", "ZOMBIE"}
Alive    == {"SLEEPING", "RUNNABLE", "RUNNING"}
Forking  == {"fork", "fork_parent", "fork_ready"}
\* Where a process is only while it runs.
Inside   == Forking \union {"user", "exit", "wait", "scan", "doze", "sleep"}
Places   == Inside \union {"forkret", "sched", "slept", "zombie"}
Somebody == Slots \union {Nobody}

ProcType ==
    /\ pstate \in [Slots -> States] /\ parent \in [Slots -> Somebody]
    /\ killedFlag \in [Slots -> BOOLEAN] /\ chan \in [Slots -> Somebody]
    /\ plk \in [Slots -> Somebody] /\ waitLock \in Somebody /\ cpu \in [CPUs -> Somebody]
    /\ kpc \in [Slots -> Places] /\ child \in [Slots -> Somebody]
    /\ wakes \in [Slots -> SUBSET Somebody] /\ scan \in [Slots -> SUBSET Slots]

\* A CPU is on the stack of a process that runs, or that holds its own lock
\* until the CPU has left it.
CpuInv ==
    /\ \A c, d \in CPUs : cpu[c] = cpu[d] /\ cpu[c] # Nobody => c = d
    /\ \A p \in Slots : pstate[p] = "RUNNING" => Running(p)
    /\ \A c \in CPUs : cpu[c] # Nobody => /\ pstate[cpu[c]] \notin {"UNUSED", "USED"}
                                          /\ pstate[cpu[c]] # "RUNNING" => plk[cpu[c]] = cpu[c]

\* What the place of a process in the kernel says of its entry.
PlaceInv ==
    \A p \in Slots :
        /\ kpc[p] \in Inside => pstate[p] = "RUNNING"
        /\ kpc[p] = "sleep" => plk[p] = p
        /\ pstate[p] = "SLEEPING" => chan[p] = p
        /\ kpc[p] \in {"exit", "scan", "doze"} => waitLock = p

\* The child of a fork belongs to one forking process.
ForkInv ==
    /\ \A p \in Slots : kpc[p] \in Forking => child[p] \in Slots /\ pstate[child[p]] = "USED"
    /\ \A p, q \in Slots : kpc[p] \in Forking /\ kpc[q] \in Forking /\ child[p] = child[q] => p = q
    /\ \A p \in Slots : kpc[p] = "fork_ready" => parent[child[p]] = p

\* Whoever has a child can still call wait for it; only init has no parent.
TreeInv ==
    /\ \A q \in Slots : parent[q] # Nobody =>
            pstate[parent[q]] \in Alive /\ kpc[parent[q]] # "exit" /\ parent[q] # q
    /\ \A q \in Slots \ {Init1} : pstate[q] \in Alive \union {"ZOMBIE"} => parent[q] # Nobody
    /\ parent[Init1] = Nobody /\ pstate[Init1] \in Alive /\ kpc[Init1] # "exit"

\* A parent that sleeps, or has looked for zombies and is about to.
Dozing(p) == kpc[p] \in {"doze", "sleep"} \/ pstate[p] = "SLEEPING"
\* A process that is exiting has still to wake p.
Due(r, p) == kpc[r] = "exit" /\ p \in wakes[r] /\ p \in scan[r]

\* The parent of an exiting process, and the parent of a zombie, is awake or
\* is going to be woken.
WakeInv ==
    /\ \A p, q \in Slots : Dozing(p) /\ parent[q] = p /\ kpc[q] = "exit" => Due(q, p)
    /\ \A p, q \in Slots : Dozing(p) /\ parent[q] = p /\ pstate[q] = "ZOMBIE" => \E r \in Slots : Due(r, p)

LifeInv == ProcType /\ CpuInv /\ PlaceInv /\ ForkInv /\ TreeInv /\ WakeInv

-----------------------------------------------------------------------------
(* Every step preserves the invariant.                                      *)

\* Resume preserves the invariant.
LEMMA ResumeStep ==
    ASSUME LifeInv, NEW p \in Slots, Resume(p)
    PROVE  LifeInv'
<1>1. ProcType /\ CpuInv /\ PlaceInv /\ ForkInv /\ TreeInv /\ WakeInv
  BY DEF LifeInv
<1>2. ProcType'
  BY <1>1 DEF Resume, KGoto, ProcType, Places, Inside, Somebody
<1>3. CpuInv'
  BY <1>1 DEF Resume, CpuInv, Running
<1>4. PlaceInv'
  BY <1>1 DEF Resume, KGoto, PlaceInv
<1>5. ForkInv'
  BY <1>1 DEF Resume, KGoto, ForkInv, Forking
<1>6. TreeInv'
  BY <1>1 DEF Resume, KGoto, TreeInv
<1>7. WakeInv'
  BY <1>1 DEF Resume, KGoto, WakeInv, Dozing, Due
<1> QED
  BY <1>2, <1>3, <1>4, <1>5, <1>6, <1>7 DEF LifeInv

\* Yield preserves the invariant.
LEMMA YieldStep ==
    ASSUME LifeInv, NEW p \in Slots, Yield(p)
    PROVE  LifeInv'
<1>1. ProcType /\ CpuInv /\ PlaceInv /\ ForkInv /\ TreeInv /\ WakeInv
  BY DEF LifeInv
<1>2. ProcType'
  BY <1>1 DEF Yield, KGoto, ProcType, States, Places, Somebody
<1>3. CpuInv'
  BY <1>1 DEF Yield, ProcType, CpuInv, Running
<1>4. PlaceInv'
  BY <1>1 DEF Yield, KGoto, ProcType, PlaceInv, Inside, Forking
<1>5. ForkInv'
  BY <1>1 DEF Yield, KAt, KGoto, ForkInv, PlaceInv, Inside, Forking
<1>6. TreeInv'
  BY <1>1 DEF Yield, KAt, KGoto, TreeInv, PlaceInv, Inside, Alive
<1>7. WakeInv'
  BY <1>1 DEF Yield, KAt, KGoto, WakeInv, Dozing, Due
<1> QED
  BY <1>2, <1>3, <1>4, <1>5, <1>6, <1>7 DEF LifeInv

\* AllocProc preserves the invariant.
LEMMA AllocProcStep ==
    ASSUME LifeInv, NEW p \in Slots, NEW q \in Slots, AllocProc(p, q)
    PROVE  LifeInv'
<1>1. ProcType /\ CpuInv /\ PlaceInv /\ ForkInv /\ TreeInv /\ WakeInv
  BY DEF LifeInv
<1>2. ProcType'
  BY <1>1 DEF AllocProc, KGoto, ProcType, States, Places, Inside, Forking, Somebody
<1>3. CpuInv'
  BY <1>1 DEF AllocProc, CpuInv, Running
<1>4. PlaceInv'
  BY <1>1 DEF AllocProc, MaySyscall, KAt, KGoto, PlaceInv, Inside
<1>5. ForkInv'
  BY <1>1 DEF AllocProc, KGoto, ProcType, ForkInv
<1>6. TreeInv'
  BY <1>1 DEF AllocProc, KGoto, TreeInv, Alive
<1>7. WakeInv'
  BY <1>1 DEF AllocProc, MaySyscall, KAt, KGoto, WakeInv, Dozing, Due
<1> QED
  BY <1>2, <1>3, <1>4, <1>5, <1>6, <1>7 DEF LifeInv

\* ForkFails preserves the invariant.
LEMMA ForkFailsStep ==
    ASSUME LifeInv, NEW p \in Slots, ForkFails(p)
    PROVE  LifeInv'
<1>1. ProcType /\ CpuInv /\ PlaceInv /\ ForkInv /\ TreeInv /\ WakeInv
  BY DEF LifeInv
<1>2. ProcType'
  BY <1>1 DEF ForkFails, Freed, KGoto, ProcType, States, Places, Inside, Somebody
<1>3. CpuInv'
  BY <1>1 DEF ForkFails, Freed, KAt, CpuInv, Running, Forking, ForkInv
<1>4. PlaceInv'
  BY <1>1 DEF ForkFails, Freed, KAt, KGoto, PlaceInv, Inside, Forking, ForkInv
<1>5. ForkInv'
  BY <1>1 DEF ForkFails, Freed, KAt, KGoto, ProcType, ForkInv, Forking
<1>6. TreeInv'
  BY <1>1 DEF ForkFails, Freed, KAt, KGoto, TreeInv, Forking, ForkInv, Alive
<1>7. WakeInv'
  BY <1>1, ProcAssumption DEF ForkFails, Freed, KAt, KGoto, WakeInv, Dozing, Due
<1> QED
  BY <1>2, <1>3, <1>4, <1>5, <1>6, <1>7 DEF LifeInv

\* ForkCopied preserves the invariant.
LEMMA ForkCopiedStep ==
    ASSUME LifeInv, NEW p \in Slots, ForkCopied(p)
    PROVE  LifeInv'
<1>1. ProcType /\ CpuInv /\ PlaceInv /\ ForkInv /\ TreeInv /\ WakeInv
  BY DEF LifeInv
<1>2. ProcType'
  BY <1>1 DEF ForkCopied, KGoto, tableVars, ProcType, Places, Inside, Forking, Somebody
<1>3. CpuInv'
  BY <1>1 DEF ForkCopied, KAt, tableVars, CpuInv, Running, Forking, ForkInv
<1>4. PlaceInv'
  BY <1>1 DEF ForkCopied, KAt, KGoto, tableVars, PlaceInv, Inside, Forking, ForkInv
<1>5. ForkInv'
  BY <1>1 DEF ForkCopied, KAt, KGoto, tableVars, ForkInv, Forking
<1>6. TreeInv'
  BY <1>1 DEF ForkCopied, KGoto, tableVars, TreeInv
<1>7. WakeInv'
  BY <1>1 DEF ForkCopied, KAt, KGoto, tableVars, WakeInv, Dozing, Due
<1> QED
  BY <1>2, <1>3, <1>4, <1>5, <1>6, <1>7 DEF LifeInv

\* ForkParent preserves the invariant.
LEMMA ForkParentStep ==
    ASSUME LifeInv, NEW p \in Slots, ForkParent(p)
    PROVE  LifeInv'
<1>1. ProcType /\ CpuInv /\ PlaceInv /\ ForkInv /\ TreeInv /\ WakeInv
  BY DEF LifeInv
<1>2. ProcType'
  BY <1>1 DEF ForkParent, KGoto, ProcType, Places, Inside, Forking, Somebody
<1>3. CpuInv'
  BY <1>1 DEF ForkParent, CpuInv, Running
<1>4. PlaceInv'
  BY <1>1 DEF ForkParent, KAt, KGoto, PlaceInv, Inside, Forking
<1>5. ForkInv'
  BY <1>1 DEF ForkParent, KAt, KGoto, ProcType, ForkInv, Forking
<1>6. TreeInv'
  BY <1>1 DEF ForkParent, KAt, KGoto, TreeInv, PlaceInv, Inside, Forking, ForkInv, Alive
<1>7. WakeInv'
  BY <1>1, ProcAssumption DEF ForkParent, KAt, KGoto, WakeInv, Dozing, Due, PlaceInv, Forking, ForkInv
<1> QED
  BY <1>2, <1>3, <1>4, <1>5, <1>6, <1>7 DEF LifeInv

\* ForkReady preserves the invariant.
LEMMA ForkReadyStep ==
    ASSUME LifeInv, NEW p \in Slots, ForkReady(p)
    PROVE  LifeInv'
<1>1. ProcType /\ CpuInv /\ PlaceInv /\ ForkInv /\ TreeInv /\ WakeInv
  BY DEF LifeInv
<1>2. ProcType'
  BY <1>1 DEF ForkReady, ProcType, States, Places, Inside, Somebody
<1>3. CpuInv'
  BY <1>1 DEF ForkReady, KAt, CpuInv, Running, Forking, ForkInv
<1>4. PlaceInv'
  BY <1>1 DEF ForkReady, KAt, ProcType, PlaceInv, Inside, Forking
<1>5. ForkInv'
  BY <1>1 DEF ForkReady, KAt, ProcType, ForkInv, Forking
<1>6. TreeInv'
  BY <1>1, ProcAssumption DEF ForkReady, KAt, ProcType, Somebody, TreeInv, ForkInv, Alive
<1>7. WakeInv'
  BY <1>1 DEF ForkReady, KAt, ProcType, WakeInv, Dozing, Due, PlaceInv, Inside, Forking, ForkInv
<1> QED
  BY <1>2, <1>3, <1>4, <1>5, <1>6, <1>7 DEF LifeInv

\* ExitProc preserves the invariant.
LEMMA ExitProcStep ==
    ASSUME LifeInv, NEW p \in Slots, ExitProc(p)
    PROVE  LifeInv'
<1>1. ProcType /\ CpuInv /\ PlaceInv /\ ForkInv /\ TreeInv /\ WakeInv
  BY DEF LifeInv
<1>2. ProcType'
  BY <1>1, ProcAssumption DEF ExitProc, Adopted, WakesOfExit, KGoto, ProcType, Places, Inside, Somebody
<1>3. CpuInv'
  BY <1>1 DEF ExitProc, CpuInv, Running
<1>4. PlaceInv'
  BY <1>1, ProcAssumption DEF ExitProc, KAt, KGoto, PlaceInv, Inside
<1>5. ForkInv'
  BY <1>1 DEF ExitProc, Adopted, KGoto, ProcType, ForkInv, Forking
<1>6. TreeInv'
  BY <1>1, ProcAssumption DEF ExitProc, Adopted, KGoto, TreeInv
<1>7. WakeInv'
  BY <1>1, ProcAssumption DEF ExitProc, Adopted, WakesOfExit, Children, KGoto, ProcType, WakeInv, Dozing, Due, PlaceInv
<1> QED
  BY <1>2, <1>3, <1>4, <1>5, <1>6, <1>7 DEF LifeInv

\* Wakeup preserves the invariant.
LEMMA WakeupStep ==
    ASSUME LifeInv, NEW p \in Slots, NEW q \in Slots, Wakeup(p, q)
    PROVE  LifeInv'
<1>1. ProcType /\ CpuInv /\ PlaceInv /\ ForkInv /\ TreeInv /\ WakeInv
  BY DEF LifeInv
<1>2. ProcType'
  BY <1>1 DEF Wakeup, ProcType, States
<1>3. CpuInv'
  BY <1>1 DEF Wakeup, CpuInv, Running
<1>4. PlaceInv'
  BY <1>1 DEF Wakeup, PlaceInv
<1>5. ForkInv'
  BY <1>1 DEF Wakeup, ForkInv
<1>6. TreeInv'
  BY <1>1 DEF Wakeup, TreeInv, Alive
<1>7. WakeInv'
  BY <1>1, ProcAssumption DEF Wakeup, ProcType, WakeInv, Dozing, Due, PlaceInv
<1> QED
  BY <1>2, <1>3, <1>4, <1>5, <1>6, <1>7 DEF LifeInv

\* Zombie preserves the invariant.
LEMMA ZombieStep ==
    ASSUME LifeInv, NEW p \in Slots, Zombie(p)
    PROVE  LifeInv'
<1>1. ProcType /\ CpuInv /\ PlaceInv /\ ForkInv /\ TreeInv /\ WakeInv
  BY DEF LifeInv
<1>2. ProcType'
  BY <1>1 DEF Zombie, KGoto, ProcType, States, Places, Somebody
<1>3. CpuInv'
  BY <1>1 DEF Zombie, ProcType, CpuInv, Running
<1>4. PlaceInv'
  BY <1>1 DEF Zombie, KAt, KGoto, ProcType, PlaceInv, Inside, Forking
<1>5. ForkInv'
  BY <1>1 DEF Zombie, KAt, KGoto, ForkInv, PlaceInv, Inside, Forking
<1>6. TreeInv'
  BY <1>1 DEF Zombie, KAt, KGoto, TreeInv, PlaceInv, Inside, Alive
<1>7. WakeInv'
  BY <1>1 DEF Zombie, KAt, KGoto, WakeInv, Dozing, Due
<1> QED
  BY <1>2, <1>3, <1>4, <1>5, <1>6, <1>7 DEF LifeInv

\* WaitCall preserves the invariant.
LEMMA WaitCallStep ==
    ASSUME LifeInv, NEW p \in Slots, WaitCall(p)
    PROVE  LifeInv'
<1>1. ProcType /\ CpuInv /\ PlaceInv /\ ForkInv /\ TreeInv /\ WakeInv
  BY DEF LifeInv
<1>2. ProcType'
  BY <1>1 DEF WaitCall, KGoto, tableVars, ProcType, Places, Inside
<1>3. CpuInv'
  BY <1>1 DEF WaitCall, tableVars, CpuInv, Running
<1>4. PlaceInv'
  BY <1>1 DEF WaitCall, MaySyscall, KAt, KGoto, tableVars, PlaceInv, Inside
<1>5. ForkInv'
  BY <1>1 DEF WaitCall, KGoto, tableVars, ForkInv, Forking
<1>6. TreeInv'
  BY <1>1 DEF WaitCall, KGoto, tableVars, TreeInv
<1>7. WakeInv'
  BY <1>1 DEF WaitCall, MaySyscall, KAt, KGoto, tableVars, WakeInv, Dozing, Due
<1> QED
  BY <1>2, <1>3, <1>4, <1>5, <1>6, <1>7 DEF LifeInv

\* WaitScan preserves the invariant.
LEMMA WaitScanStep ==
    ASSUME LifeInv, NEW p \in Slots, WaitScan(p)
    PROVE  LifeInv'
<1>1. ProcType /\ CpuInv /\ PlaceInv /\ ForkInv /\ TreeInv /\ WakeInv
  BY DEF LifeInv
<1>2. ProcType'
  BY <1>1 DEF WaitScan, KGoto, tableVars, ProcType, Places, Inside, Somebody
<1>3. CpuInv'
  BY <1>1 DEF WaitScan, tableVars, CpuInv, Running
<1>4. PlaceInv'
  BY <1>1, ProcAssumption DEF WaitScan, KAt, KGoto, tableVars, PlaceInv, Inside
<1>5. ForkInv'
  BY <1>1 DEF WaitScan, KGoto, tableVars, ForkInv, Forking
<1>6. TreeInv'
  BY <1>1 DEF WaitScan, KGoto, tableVars, TreeInv
<1>7. WakeInv'
  BY <1>1, ProcAssumption DEF WaitScan, KGoto, tableVars, WakeInv, Dozing, Due, PlaceInv
<1> QED
  BY <1>2, <1>3, <1>4, <1>5, <1>6, <1>7 DEF LifeInv

\* WaitReaps preserves the invariant.
LEMMA WaitReapsStep ==
    ASSUME LifeInv, NEW p \in Slots, NEW q \in Slots, WaitReaps(p, q)
    PROVE  LifeInv'
<1>1. ProcType /\ CpuInv /\ PlaceInv /\ ForkInv /\ TreeInv /\ WakeInv
  BY DEF LifeInv
<1>2. ProcType'
  BY <1>1 DEF WaitReaps, Freed, KGoto, ProcType, States, Places, Inside, Somebody
<1>3. CpuInv'
  BY <1>1 DEF WaitReaps, Freed, Reapable, CpuInv, Running
<1>4. PlaceInv'
  BY <1>1 DEF WaitReaps, Freed, Reapable, KAt, KGoto, ProcType, PlaceInv, Inside
<1>5. ForkInv'
  BY <1>1 DEF WaitReaps, Freed, Reapable, KGoto, ForkInv, Forking
<1>6. TreeInv'
  BY <1>1 DEF WaitReaps, Freed, Reapable, KGoto, ProcType, TreeInv, Alive
<1>7. WakeInv'
  BY <1>1, ProcAssumption DEF WaitReaps, Freed, KGoto, WakeInv, Dozing, Due, TreeInv
<1> QED
  BY <1>2, <1>3, <1>4, <1>5, <1>6, <1>7 DEF LifeInv

\* WaitBadAddress preserves the invariant.
LEMMA WaitBadAddressStep ==
    ASSUME LifeInv, NEW p \in Slots, NEW q \in Slots, WaitBadAddress(p, q)
    PROVE  LifeInv'
<1>1. ProcType /\ CpuInv /\ PlaceInv /\ ForkInv /\ TreeInv /\ WakeInv
  BY DEF LifeInv
<1>2. ProcType'
  BY <1>1 DEF WaitBadAddress, KGoto, tableVars, ProcType, Places, Inside, Somebody
<1>3. CpuInv'
  BY <1>1 DEF WaitBadAddress, tableVars, CpuInv, Running
<1>4. PlaceInv'
  BY <1>1 DEF WaitBadAddress, KAt, KGoto, tableVars, ProcType, PlaceInv, Inside
<1>5. ForkInv'
  BY <1>1 DEF WaitBadAddress, KGoto, tableVars, ForkInv, Forking
<1>6. TreeInv'
  BY <1>1 DEF WaitBadAddress, KGoto, tableVars, TreeInv
<1>7. WakeInv'
  BY <1>1, ProcAssumption DEF WaitBadAddress, KGoto, tableVars, WakeInv, Dozing, Due, TreeInv
<1> QED
  BY <1>2, <1>3, <1>4, <1>5, <1>6, <1>7 DEF LifeInv

\* WaitFails preserves the invariant.
LEMMA WaitFailsStep ==
    ASSUME LifeInv, NEW p \in Slots, WaitFails(p)
    PROVE  LifeInv'
<1>1. ProcType /\ CpuInv /\ PlaceInv /\ ForkInv /\ TreeInv /\ WakeInv
  BY DEF LifeInv
<1>2. ProcType'
  BY <1>1 DEF WaitFails, KGoto, tableVars, ProcType, Places, Inside, Somebody
<1>3. CpuInv'
  BY <1>1 DEF WaitFails, tableVars, CpuInv, Running
<1>4. PlaceInv'
  BY <1>1 DEF WaitFails, KAt, KGoto, tableVars, ProcType, PlaceInv, Inside
<1>5. ForkInv'
  BY <1>1 DEF WaitFails, KGoto, tableVars, ForkInv, Forking
<1>6. TreeInv'
  BY <1>1 DEF WaitFails, KGoto, tableVars, TreeInv
<1>7. WakeInv'
  BY <1>1 DEF WaitFails, KAt, KGoto, tableVars, WakeInv, Dozing, Due
<1> QED
  BY <1>2, <1>3, <1>4, <1>5, <1>6, <1>7 DEF LifeInv

\* WaitStays preserves the invariant.
LEMMA WaitStaysStep ==
    ASSUME LifeInv, NEW p \in Slots, WaitStays(p)
    PROVE  LifeInv'
<1>1. ProcType /\ CpuInv /\ PlaceInv /\ ForkInv /\ TreeInv /\ WakeInv
  BY DEF LifeInv
<1>2. ProcType'
  BY <1>1 DEF WaitStays, KGoto, tableVars, ProcType, Places, Inside
<1>3. CpuInv'
  BY <1>1 DEF WaitStays, tableVars, CpuInv, Running
<1>4. PlaceInv'
  BY <1>1 DEF WaitStays, KAt, KGoto, tableVars, ProcType, PlaceInv, Inside
<1>5. ForkInv'
  BY <1>1 DEF WaitStays, KGoto, tableVars, ForkInv, Forking
<1>6. TreeInv'
  BY <1>1 DEF WaitStays, KGoto, tableVars, TreeInv
<1>7. WakeInv'
  BY <1>1 DEF WaitStays, NoZombie, Children, KAt, KGoto, tableVars, WakeInv, Dozing, Due, PlaceInv
<1> QED
  BY <1>2, <1>3, <1>4, <1>5, <1>6, <1>7 DEF LifeInv

\* SleepLock preserves the invariant.
LEMMA SleepLockStep ==
    ASSUME LifeInv, NEW p \in Slots, SleepLock(p)
    PROVE  LifeInv'
<1>1. ProcType /\ CpuInv /\ PlaceInv /\ ForkInv /\ TreeInv /\ WakeInv
  BY DEF LifeInv
<1>2. ProcType'
  BY <1>1 DEF SleepLock, KGoto, tableVars, ProcType, Places, Inside, Somebody
<1>3. CpuInv'
  BY <1>1 DEF SleepLock, tableVars, CpuInv, Running
<1>4. PlaceInv'
  BY <1>1, ProcAssumption DEF SleepLock, KAt, KGoto, tableVars, ProcType, PlaceInv, CpuInv, Running
<1>5. ForkInv'
  BY <1>1 DEF SleepLock, KGoto, tableVars, ForkInv, Forking
<1>6. TreeInv'
  BY <1>1 DEF SleepLock, KGoto, tableVars, TreeInv
<1>7. WakeInv'
  BY <1>1 DEF SleepLock, NoZombie, Children, KAt, KGoto, tableVars, WakeInv, Dozing, Due, PlaceInv
<1> QED
  BY <1>2, <1>3, <1>4, <1>5, <1>6, <1>7 DEF LifeInv

\* Sleep preserves the invariant.
LEMMA SleepStep ==
    ASSUME LifeInv, NEW p \in Slots, Sleep(p)
    PROVE  LifeInv'
<1>1. ProcType /\ CpuInv /\ PlaceInv /\ ForkInv /\ TreeInv /\ WakeInv
  BY DEF LifeInv
<1>2. ProcType'
  BY <1>1 DEF Sleep, KGoto, ProcType, States, Places, Somebody
<1>3. CpuInv'
  BY <1>1 DEF Sleep, ProcType, CpuInv, Running
<1>4. PlaceInv'
  BY <1>1 DEF Sleep, KGoto, ProcType, PlaceInv, Inside, Forking
<1>5. ForkInv'
  BY <1>1 DEF Sleep, KAt, KGoto, ForkInv, PlaceInv, Inside, Forking
<1>6. TreeInv'
  BY <1>1 DEF Sleep, KAt, KGoto, TreeInv, PlaceInv, Inside, Alive
<1>7. WakeInv'
  BY <1>1 DEF Sleep, KAt, KGoto, WakeInv, Dozing, Due
<1> QED
  BY <1>2, <1>3, <1>4, <1>5, <1>6, <1>7 DEF LifeInv

\* KillProcess preserves the invariant.
LEMMA KillProcessStep ==
    ASSUME LifeInv, NEW p \in Slots, NEW q \in Slots, KillProcess(p, q)
    PROVE  LifeInv'
<1>1. ProcType /\ CpuInv /\ PlaceInv /\ ForkInv /\ TreeInv /\ WakeInv
  BY DEF LifeInv
<1>2. ProcType'
  BY <1>1 DEF KillProcess, ProcType, States
<1>3. CpuInv'
  BY <1>1 DEF KillProcess, CpuInv, Running
<1>4. PlaceInv'
  BY <1>1 DEF KillProcess, PlaceInv
<1>5. ForkInv'
  BY <1>1 DEF KillProcess, ForkInv
<1>6. TreeInv'
  BY <1>1 DEF KillProcess, TreeInv, Alive
<1>7. WakeInv'
  BY <1>1 DEF KillProcess, WakeInv, Dozing, Due
<1> QED
  BY <1>2, <1>3, <1>4, <1>5, <1>6, <1>7 DEF LifeInv

\* Sched preserves the invariant.
LEMMA SchedStep ==
    ASSUME LifeInv, NEW c \in CPUs, Sched(c)
    PROVE  LifeInv'
<1>1. ProcType /\ CpuInv /\ PlaceInv /\ ForkInv /\ TreeInv /\ WakeInv
  BY DEF LifeInv
<1>2. ProcType'
  BY <1>1 DEF Sched, tableVars, ProcType, Somebody
<1>3. CpuInv'
  BY <1>1 DEF Sched, tableVars, ProcType, CpuInv, Running
<1>4. PlaceInv'
  BY <1>1 DEF Sched, tableVars, PlaceInv
<1>5. ForkInv'
  BY <1>1 DEF Sched, tableVars, ForkInv
<1>6. TreeInv'
  BY <1>1 DEF Sched, tableVars, TreeInv
<1>7. WakeInv'
  BY <1>1 DEF Sched, tableVars, WakeInv, Dozing, Due
<1> QED
  BY <1>2, <1>3, <1>4, <1>5, <1>6, <1>7 DEF LifeInv

\* Schedule preserves the invariant.
LEMMA ScheduleStep ==
    ASSUME LifeInv, NEW c \in CPUs, NEW p \in Slots, Schedule(c, p)
    PROVE  LifeInv'
<1>1. ProcType /\ CpuInv /\ PlaceInv /\ ForkInv /\ TreeInv /\ WakeInv
  BY DEF LifeInv
<1>2. ProcType'
  BY <1>1 DEF Schedule, ProcType, States, Somebody
<1>3. CpuInv'
  BY <1>1, ProcAssumption DEF Schedule, ProcType, CpuInv, Running
<1>4. PlaceInv'
  BY <1>1 DEF Schedule, PlaceInv
<1>5. ForkInv'
  BY <1>1 DEF Schedule, ForkInv
<1>6. TreeInv'
  BY <1>1 DEF Schedule, TreeInv, Alive
<1>7. WakeInv'
  BY <1>1 DEF Schedule, WakeInv, Dozing, Due
<1> QED
  BY <1>2, <1>3, <1>4, <1>5, <1>6, <1>7 DEF LifeInv

-----------------------------------------------------------------------------
(* The theorems.                                                             *)

\* The initial state satisfies the invariant.
LEMMA LifeInitHolds == ProcInit => LifeInv
<1> SUFFICES ASSUME ProcInit PROVE LifeInv
  OBVIOUS
<1>1. ProcType
  BY ProcAssumption DEF ProcInit, ProcType, States, Places, Inside, Somebody
<1>2. CpuInv /\ PlaceInv /\ ForkInv
  BY ProcAssumption DEF ProcInit, CpuInv, PlaceInv, ForkInv, Inside, Forking
<1>3. TreeInv /\ WakeInv
  BY ProcAssumption DEF ProcInit, TreeInv, WakeInv, Alive, Dozing
<1> QED
  BY <1>1, <1>2, <1>3 DEF LifeInv

\* Every step preserves the invariant.
LEMMA LifeNextKeeps == LifeInv /\ [ProcNext]_lifeVars => LifeInv'
<1> SUFFICES ASSUME LifeInv, [ProcNext]_lifeVars PROVE LifeInv'
  OBVIOUS
<1>1. CASE UNCHANGED lifeVars
  BY <1>1 DEF LifeInv, ProcType, CpuInv, PlaceInv, ForkInv, TreeInv, WakeInv, Dozing, Due, Running, lifeVars, tableVars
<1>2. ASSUME NEW p \in Slots, KernelStep(p) PROVE LifeInv'
  BY <1>2, ResumeStep, ForkFailsStep, ForkCopiedStep, ForkParentStep, ForkReadyStep, ZombieStep, WaitScanStep,
     WaitFailsStep, WaitStaysStep, SleepLockStep, SleepStep, WakeupStep, WaitReapsStep, WaitBadAddressStep DEF KernelStep
<1>3. ASSUME NEW p \in Slots, UserStep(p) PROVE LifeInv'
  BY <1>3, YieldStep, ExitProcStep, WaitCallStep, AllocProcStep, KillProcessStep DEF UserStep
<1>4. ASSUME NEW c \in CPUs, Sched(c) PROVE LifeInv'
  BY <1>4, SchedStep
<1>5. ASSUME NEW c \in CPUs, NEW p \in Slots, Schedule(c, p) PROVE LifeInv'
  BY <1>5, ScheduleStep
<1> QED
  BY <1>1, <1>2, <1>3, <1>4, <1>5 DEF ProcNext

\* The invariant holds in every reachable state of the process table.
THEOREM ProcInvariant == ProcSpec => []LifeInv
<1>1. ProcInit => LifeInv
  BY LifeInitHolds
<1>2. LifeInv /\ [ProcNext]_lifeVars => LifeInv'
  BY LifeNextKeeps
<1> QED
  BY <1>1, <1>2, PTL DEF ProcSpec

\* scheduler and sched: with any number of CPUs and processes, a process is on
\* at most one CPU, and its entry is neither rescheduled nor freed before that
\* CPU has left its kernel stack.
THEOREM OneProcessOneCpu == ProcSpec => []OneCpuEach
<1>1. LifeInv => OneCpuEach
  BY DEF LifeInv, CpuInv, OneCpuEach
<1> QED
  BY <1>1, ProcInvariant, PTL

\* fork, exit, wait and reparent: every process that lives or waits to be
\* reaped has a parent that can still call wait, and no parent sleeps in wait
\* beside a zombie of its own unless somebody is about to wake it.
THEOREM NoZombieForgotten == ProcSpec => []ZombiesNoticed
<1>1. ASSUME LifeInv PROVE ZombiesNoticed
  <2>1. ProcType /\ CpuInv /\ PlaceInv /\ TreeInv /\ WakeInv
    BY <1>1 DEF LifeInv
  <2>2. ASSUME NEW q \in Slots \ {Init1}, pstate[q] \in {"RUNNABLE", "RUNNING", "SLEEPING", "ZOMBIE"}
        PROVE  parent[q] # Nobody /\ pstate[parent[q]] \in {"RUNNABLE", "RUNNING", "SLEEPING"}
    BY <2>1, <2>2 DEF TreeInv, Alive
  <2>3. ASSUME NEW p \in Slots, NEW q \in Slots, pstate[p] = "SLEEPING", parent[q] = p, pstate[q] = "ZOMBIE"
        PROVE  \E r \in Slots : KAt(r, "exit") /\ p \in wakes[r] /\ p \in scan[r]
    <3>1. PICK r \in Slots : Due(r, p)
      BY <2>1, <2>3 DEF WakeInv, Dozing
    <3>2. Running(r)
      BY <2>1, <3>1 DEF Due, PlaceInv, Inside, CpuInv
    <3> QED
      BY <3>1, <3>2 DEF Due, KAt
  <2> QED
    BY <2>2, <2>3 DEF ZombiesNoticed
<1> QED
  BY <1>1, ProcInvariant, PTL

-----------------------------------------------------------------------------
(* Copies between the kernel and user memory.                                *)

CopyFns == {"copyin", "copyout", "copyinstr", "fetchaddr"}
Start == asked.copy.va
Wanted == IF copy.fn = "fetchaddr" THEN WordBytes ELSE asked.copy.left
Mine(k) == \A i \in 0 .. k - 1 : WalkAddr(Start + i)
Moved == Len(copy.out)

CopyType ==
    /\ ptes \in [0 .. UserPages - 1 -> {"user", "kernel", "invalid"}] /\ usize \in 0 .. MaxVa
    /\ umem \in [0 .. MaxVa - 1 -> Nat] /\ asked.umem \in [0 .. MaxVa - 1 -> Nat]
    /\ copy \in [fn : CopyFns, va : Nat, left : Nat, out : Seq(Nat), result : {"entered", "running", "copied", "failed"}]
    /\ asked.copy \in CopyCalls /\ copy.fn = asked.copy.fn

\* What was moved so far is the beginning of the range, in the user's pages.
MovedInv ==
    /\ Mine(Moved) /\ Moved <= Wanted
    /\ copy.fn # "copyout" => umem = asked.umem /\ \A i \in 1 .. Moved : copy.out[i] = umem[Start + i - 1]
    /\ copy.fn = "copyout" => \A a \in 0 .. MaxVa - 1 :
           umem[a] = IF Start <= a /\ a < Start + Moved THEN MaxVa + (a - Start + 1) ELSE asked.umem[a]

\* Where the loops are; a string that goes on had no NUL byte so far.
Fetchable == copy.fn = "fetchaddr" => (Start + WordBytes) % AddrMod <= usize
TurnInv ==
    /\ copy.result = "entered" => copy = asked.copy
    /\ copy.result = "running" => /\ Moved + copy.left = Wanted /\ (copy.left > 0 => copy.va = Start + Moved) /\ Fetchable
                                  /\ copy.fn = "copyinstr" => \A i \in 1 .. Moved : copy.out[i] # NulByte

\* How they end.
EndInv ==
    /\ copy.result = "copied" => IF copy.fn = "copyinstr" THEN Moved >= 1 /\ copy.out[Moved] = NulByte
                                 ELSE Moved = Wanted /\ Fetchable
    /\ copy.result = "failed" =>
        IF copy.fn = "copyinstr" THEN \A k \in 1 .. Wanted : Mine(k) => umem[Start + k - 1] # NulByte
        ELSE ~Mine(Wanted) \/ (copy.fn = "fetchaddr" /\ Start + Wanted > usize)

CopyInv == CopyType /\ MovedInv /\ TurnInv /\ EndInv

\* Division with remainder.
LEMMA PageDivMod ==
    ASSUME NEW a \in Nat
    PROVE  /\ a \div PageBytes \in Nat /\ a % PageBytes \in Nat /\ a % PageBytes < PageBytes
           /\ a = PageBytes * (a \div PageBytes) + (a % PageBytes)
BY CopyAssumption

\* A page and an offset in it are recovered from their address.
LEMMA PageCompose ==
    ASSUME NEW q \in Nat, NEW r \in Nat, r < PageBytes
    PROVE  (PageBytes * q + r) \div PageBytes = q
<1>1. PageBytes \in Nat \ {0}
  BY CopyAssumption
<1>2. \A m \in Nat : (m < PageBytes /\ PageBytes * q + r = PageBytes * q + m) => m = r
  BY <1>1
<1> QED
  BY <1>1, <1>2

\* Addresses below MAXVA are in a page below UserPages.
LEMMA PageBelow ==
    ASSUME NEW q \in Nat, NEW r \in Nat, PageBytes * q + r < MaxVa
    PROVE  q < UserPages /\ PageBytes * q + PageBytes <= MaxVa /\ MaxVa < AddrMod /\ MaxVa \in Nat /\ AddrMod \in Nat
<1>1. PageBytes \in Nat \ {0} /\ UserPages \in Nat /\ MaxVa = UserPages * PageBytes /\ MaxVa < AddrMod /\ AddrMod \in Nat
  BY CopyAssumption DEF MaxVa
<1>2. q < UserPages
  <2> SUFFICES ASSUME UserPages <= q
               PROVE  FALSE
    BY <1>1
  <2>1. PICK d \in Nat : q = UserPages + d
    <3>1. q - UserPages \in Nat /\ q = UserPages + (q - UserPages)
      BY <1>1
    <3> QED
      BY <3>1
  <2>2. PageBytes * q = PageBytes * UserPages + PageBytes * d /\ PageBytes * d \in Nat
    BY <1>1, <2>1
  <2> QED
    BY <1>1, <2>2
<1>3. PageBytes * q + PageBytes <= MaxVa
  <2>1. PICK d \in Nat : UserPages = q + 1 + d
    <3>1. UserPages - q - 1 \in Nat /\ UserPages = q + 1 + (UserPages - q - 1)
      BY <1>1, <1>2
    <3> QED
      BY <3>1
  <2>2. UserPages * PageBytes = PageBytes * q + PageBytes + PageBytes * d /\ PageBytes * d \in Nat
    BY <1>1, <2>1
  <2> QED
    BY <1>1, <2>2
<1> QED
  BY <1>1, <1>2, <1>3

\* One turn of a loop: the bytes up to the end of the page, or of the copy.
LEMMA TurnStretch ==
    ASSUME NEW va \in Nat, WalkAddr(va), NEW left \in Nat, left > 0
    PROVE  /\ Stretch(va, left) \in 1 .. left /\ va + Stretch(va, left) <= MaxVa /\ MaxVa \in Nat
           /\ \A i \in 0 .. Stretch(va, left) - 1 : WalkAddr(va + i)
           /\ Stretch(va, left) < left => NextVa(va) = va + Stretch(va, left)
           /\ NextVa(va) \in Nat
<1> DEFINE q == va \div PageBytes
           r == va % PageBytes
           n == Stretch(va, left)
           b == PageBytes
<1>1. b \in Nat \ {0} /\ AddrMod \in Nat
  BY CopyAssumption
<1>2. q \in Nat /\ r \in Nat /\ r < b /\ va = b * q + r
  BY PageDivMod
<1>3. PageDown(va) = q * b
  BY DEF PageDown
<1>4. va < MaxVa /\ ptes[q] = "user"
  BY DEF WalkAddr
<1>5. n = IF b - (va - PageDown(va)) > left THEN left ELSE b - (va - PageDown(va))
  BY DEF Stretch
<1>6. NextVa(va) = (PageDown(va) + b) % AddrMod
  BY DEF NextVa
<1> HIDE DEF q, r, n, b
<1>7. q < UserPages /\ b * q + b <= MaxVa /\ MaxVa < AddrMod /\ MaxVa \in Nat
  BY <1>2, <1>4, PageBelow DEF b
<1>8. PageDown(va) \in Nat /\ PageDown(va) = b * q /\ va - PageDown(va) = r /\ b * q \in Nat
  BY <1>1, <1>2, <1>3
<1>9. n \in Nat /\ n >= 1 /\ n <= left /\ n <= b - r /\ (n < left => n = b - r)
  BY <1>1, <1>2, <1>5, <1>8
<1>10. va + n <= MaxVa
  BY <1>1, <1>2, <1>7, <1>8, <1>9
<1>11. NextVa(va) = b * q + b
  <2> DEFINE x == b * q + b
  <2>1. x \in Nat /\ x < AddrMod
    BY <1>1, <1>7, <1>8
  <2>2. NextVa(va) = x % AddrMod
    BY <1>6, <1>8
  <2> HIDE DEF x
  <2>3. x % AddrMod = x
    BY <2>1, <1>1
  <2> QED
    BY <2>2, <2>3 DEF x
<1>12. ASSUME NEW i \in 0 .. n - 1 PROVE WalkAddr(va + i)
  <2>1. r + i \in Nat /\ r + i < b /\ va + i = b * q + (r + i) /\ i \in Nat
    BY <1>1, <1>2, <1>8, <1>9
  <2>2. (b * q + (r + i)) \div b = q
    BY <1>2, <2>1, PageCompose DEF b
  <2>3. (va + i) \div b = q
    BY <2>1, <2>2
  <2>4. va + i < MaxVa
    BY <1>7, <1>9, <1>10, <2>1
  <2> QED
    BY <1>4, <2>3, <2>4 DEF WalkAddr, b
<1>13. n < left => NextVa(va) = va + n
  BY <1>1, <1>2, <1>8, <1>9, <1>11
<1>14. NextVa(va) \in Nat
  BY <1>1, <1>8, <1>11
<1> QED
  BY <1>7, <1>9, <1>10, <1>12, <1>13, <1>14 DEF n

\* A set of naturals has a least element.
LEMMA LeastOf ==
    ASSUME NEW S \in SUBSET Nat, S # {}
    PROVE  \E x \in S : \A y \in S : x <= y
<1>1. PICK x \in S : \A y \in S : ~(<<y, x>> \in OpToRel(<, Nat))
  BY NatLessThanWellFounded, WFMin
<1>2. ASSUME NEW y \in S PROVE x <= y
  <2>1. <<y, x>> \notin OpToRel(<, Nat)
    BY <1>1
  <2>2. y \in Nat /\ x \in Nat
    OBVIOUS
  <2>3. ~(y < x)
    BY <2>1, <2>2 DEF OpToRel
  <2> QED
    BY <2>2, <2>3
<1> QED
  BY <1>2

\* Reach is the number of bytes from va on that are in the user's pages.
LEMMA ReachExact ==
    ASSUME NEW va \in Nat, NEW len \in Nat
    PROVE  Reach(va) \in Nat /\ (len <= Reach(va) <=> \A i \in 0 .. len - 1 : WalkAddr(va + i))
<1> DEFINE Good(k) == (\A i \in 0 .. k - 1 : WalkAddr(va + i)) /\ ~WalkAddr(va + k)
           S == {k \in Nat : ~WalkAddr(va + k)}
<1>1. MaxVa \in Nat
  BY CopyAssumption DEF MaxVa
<1>2. MaxVa \in S
  <2>1. ~(va + MaxVa < MaxVa)
    BY <1>1
  <2> QED
    BY <1>1, <2>1 DEF WalkAddr
<1>3. \E k \in S : \A y \in S : k <= y
  BY <1>2, LeastOf
<1>4. PICK k \in S : \A y \in S : k <= y
  BY <1>3
<1>5. k \in 0 .. MaxVa /\ Good(k)
  <2>1. k \in Nat /\ k <= MaxVa /\ ~WalkAddr(va + k)
    BY <1>2, <1>4
  <2>2. ASSUME NEW i \in 0 .. k - 1 PROVE WalkAddr(va + i)
    <3>1. i \in Nat /\ ~(k <= i)
      BY <2>1
    <3> QED
      BY <3>1, <1>4
  <2> QED
    BY <1>1, <2>1, <2>2
<1> HIDE DEF S
<1>6. Reach(va) = CHOOSE j \in 0 .. MaxVa : Good(j)
  BY DEF Reach
<1> HIDE DEF Good
<1>7. Reach(va) \in 0 .. MaxVa /\ Good(Reach(va))
  BY <1>5, <1>6
<1> DEFINE m == Reach(va)
<1> HIDE DEF m
<1>8. m \in Nat /\ (\A i \in 0 .. m - 1 : WalkAddr(va + i)) /\ ~WalkAddr(va + m)
  BY <1>1, <1>7 DEF Good, m
<1>9. len <= m => \A i \in 0 .. len - 1 : WalkAddr(va + i)
  BY <1>8
<1>10. ~(len <= m) => m \in 0 .. len - 1
  BY <1>8
<1>11. len <= m <=> \A i \in 0 .. len - 1 : WalkAddr(va + i)
  BY <1>8, <1>9, <1>10
<1> QED
  BY <1>8, <1>11 DEF m

\* A call as it is made.
LEMMA CallMade ==
    ASSUME NEW c \in CopyCalls
    PROVE  c.fn \in CopyFns /\ c.va \in Nat /\ c.left \in Nat /\ c.out = <<>> /\ c.result = "entered"
<1>1. c.fn \in CopyFns /\ c.va \in 0 .. AddrMod - 1 /\ c.left \in Lengths
  BY DEF CopyCalls, CopyFns
<1>2. c.out = <<>> /\ c.result = "entered"
  BY DEF CopyCalls
<1>3. c.left \in Nat
  BY <1>1, CopyAssumption
<1>4. c.va \in Nat
  <2>1. AddrMod \in Nat
    BY CopyAssumption
  <2> QED
    BY <1>1, <2>1
<1> QED
  BY <1>1, <1>2, <1>3, <1>4

\* What the invariant says of the constants of a call.
LEMMA CallTyped ==
    ASSUME CopyInv
    PROVE  /\ Start \in Nat /\ Wanted \in Nat /\ Moved \in Nat /\ MaxVa \in Nat /\ copy.out \in Seq(Nat)
           /\ copy.va \in Nat /\ copy.left \in Nat
<1>1. CopyType
  BY DEF CopyInv
<1>2. Start \in Nat /\ asked.copy.left \in Nat
  BY <1>1, CallMade DEF CopyType, Start
<1>3. copy.out \in Seq(Nat) /\ copy.va \in Nat /\ copy.left \in Nat
  BY <1>1 DEF CopyType
<1> QED
  BY <1>2, <1>3, CopyAssumption DEF Wanted, Moved, MaxVa

\* The invariant holds initially.
LEMMA CopyInitInv == CopyInit => CopyInv
<1> SUFFICES ASSUME CopyInit
             PROVE  CopyInv
  OBVIOUS
<1>1. MaxVa \in Nat /\ AddrMod \in Nat
  BY CopyAssumption DEF MaxVa
<1>2. PICK nul \in 0 .. MaxVa : umem = UserBytes(nul)
  BY DEF CopyInit
<1>3. umem \in [0 .. MaxVa - 1 -> Nat]
  BY <1>1, <1>2 DEF UserBytes, NulByte
<1>4. asked.copy = copy /\ asked.umem = umem /\ copy \in CopyCalls
  BY DEF CopyInit
<1>5. copy.fn \in CopyFns /\ copy.va \in Nat /\ copy.left \in Nat /\ copy.out = <<>> /\ copy.result = "entered"
  BY <1>4, CallMade
<1>6. copy \in [fn : CopyFns, va : Nat, left : Nat, out : Seq(Nat), result : {"entered", "running", "copied", "failed"}]
  <2>1. <<>> \in Seq(Nat)
    OBVIOUS
  <2>2. copy = [fn |-> copy.fn, va |-> copy.va, left |-> copy.left, out |-> copy.out, result |-> copy.result]
    BY <1>4 DEF CopyCalls
  <2>3. copy.out \in Seq(Nat) /\ copy.result \in {"entered", "running", "copied", "failed"}
    BY <1>5, <2>1
  <2> QED
    BY <1>5, <2>2, <2>3
<1>7. CopyType
  BY <1>3, <1>4, <1>6 DEF CopyType, CopyInit
<1>8. Moved = 0
  BY <1>5 DEF Moved
<1>9. MovedInv
  <2>1. Mine(Moved)
    BY <1>8 DEF Mine
  <2>2. Wanted \in Nat
    BY <1>4, <1>5, CopyAssumption DEF Wanted
  <2>3. Start \in Nat
    BY <1>4, <1>5 DEF Start
  <2>4. \A a \in 0 .. MaxVa - 1 : ~(Start <= a /\ a < Start + Moved)
    BY <1>8, <2>3
  <2> QED
    BY <1>4, <1>8, <2>1, <2>2, <2>4 DEF MovedInv
<1>10. TurnInv /\ EndInv
  BY <1>4, <1>5 DEF TurnInv, EndInv
<1> QED
  BY <1>7, <1>9, <1>10 DEF CopyInv

\* Only the result of the call changes, and it does not succeed yet or it does
\* with all that was asked for.
Ending(res) ==
    /\ copy' = [copy EXCEPT !.result = res] /\ UNCHANGED <<ptes, umem, usize, asked>>

LEMMA EndingFacts ==
    ASSUME CopyInv, NEW res \in {"running", "copied", "failed"}, Ending(res)
    PROVE  /\ CopyType' /\ MovedInv' /\ copy'.result = res /\ copy'.fn = copy.fn /\ copy'.left = copy.left /\ copy'.va = copy.va
           /\ copy'.out = copy.out /\ Moved' = Moved /\ Start' = Start /\ Wanted' = Wanted /\ (Fetchable' <=> Fetchable)
           /\ \A k : Mine(k)' <=> Mine(k)
<1>1. CopyType /\ MovedInv
  BY DEF CopyInv
<1>2. copy' = [copy EXCEPT !.result = res] /\ UNCHANGED <<ptes, umem, usize, asked>>
  BY DEF Ending
<1>3. copy \in [fn : CopyFns, va : Nat, left : Nat, out : Seq(Nat), result : {"entered", "running", "copied", "failed"}]
  BY <1>1 DEF CopyType
<1>4. /\ copy'.result = res /\ copy'.fn = copy.fn /\ copy'.left = copy.left /\ copy'.va = copy.va /\ copy'.out = copy.out
      /\ copy' \in [fn : CopyFns, va : Nat, left : Nat, out : Seq(Nat), result : {"entered", "running", "copied", "failed"}]
  BY <1>2, <1>3
<1>5. CopyType'
  BY <1>1, <1>2, <1>4 DEF CopyType
<1>6. Moved' = Moved /\ Start' = Start /\ Wanted' = Wanted /\ (Fetchable' <=> Fetchable)
  BY <1>2, <1>4 DEF Moved, Start, Wanted, Fetchable
<1>7. \A k : Mine(k)' <=> Mine(k)
  BY <1>2, <1>6 DEF Mine, WalkAddr
<1>8. MovedInv'
  BY <1>1, <1>2, <1>4, <1>6, <1>7 DEF MovedInv
<1> QED
  BY <1>4, <1>5, <1>6, <1>7, <1>8

\* The tests of fetchaddr: modulo 2^64 they say that the word is below p->sz.
LEMMA FetchBound ==
    ASSUME NEW va \in Nat, NEW sz \in 0 .. MaxVa, va >= sz \/ (va + WordBytes) % AddrMod > sz
    PROVE  va + WordBytes > sz
<1>1. WordBytes \in Nat \ {0} /\ AddrMod \in Nat /\ AddrMod > MaxVa /\ MaxVa \in Nat
  BY CopyAssumption DEF MaxVa
<1>2. CASE va >= sz
  BY <1>1, <1>2
<1>3. CASE (va + WordBytes) % AddrMod > sz
  <2> DEFINE x == va + WordBytes
  <2>1. x \in Nat
    BY <1>1
  <2>2. CASE x < AddrMod
    <3> HIDE DEF x
    <3>1. x % AddrMod = x
      BY <1>1, <2>1, <2>2
    <3> QED
      BY <1>3, <3>1 DEF x
  <2>3. CASE x >= AddrMod
    BY <1>1, <2>1, <2>3
  <2> QED
    BY <1>1, <2>1, <2>2, <2>3
<1> QED
  BY <1>2, <1>3

\* The entry of a call keeps the invariant.
LEMMA EnterInv ==
    ASSUME CopyInv, Enter
    PROVE  CopyInv'
<1>1. CopyType /\ MovedInv /\ TurnInv /\ EndInv
  BY DEF CopyInv
<1>2. copy.result = "entered" /\ copy = asked.copy /\ copy \in CopyCalls /\ UNCHANGED <<ptes, umem, usize, asked>>
  BY <1>1 DEF Enter, TurnInv, CopyType
<1>3. copy.out = <<>> /\ copy.va = Start /\ Moved = 0 /\ Start \in Nat /\ Wanted \in Nat
  BY <1>2, CallTyped DEF CopyCalls, Start, Moved
<1>4. CASE copy.fn # "fetchaddr"
  <2>1. Ending("running")
    BY <1>2, <1>4 DEF Enter, Ends, Ending
  <2>2. /\ CopyType' /\ MovedInv' /\ copy'.result = "running" /\ copy'.fn = copy.fn /\ copy'.left = copy.left /\ copy'.va = copy.va
        /\ copy'.out = copy.out /\ Moved' = Moved /\ Start' = Start /\ Wanted' = Wanted /\ (Fetchable' <=> Fetchable)
    BY <2>1, EndingFacts
  <2>3. Wanted = copy.left /\ Fetchable
    BY <1>2, <1>4 DEF Wanted, Fetchable
  <2>4. TurnInv'
    BY <1>3, <2>2, <2>3 DEF TurnInv
  <2>5. EndInv'
    BY <2>2 DEF EndInv
  <2> QED
    BY <2>2, <2>4, <2>5 DEF CopyInv
<1>5. CASE copy.fn = "fetchaddr" /\ (copy.va >= usize \/ (copy.va + WordBytes) % AddrMod > usize)
  <2>1. Ending("failed")
    BY <1>2, <1>5 DEF Enter, Ends, Ending
  <2>2. /\ CopyType' /\ MovedInv' /\ copy'.result = "failed" /\ copy'.fn = copy.fn
        /\ Start' = Start /\ Wanted' = Wanted
    BY <2>1, EndingFacts
  <2>3. Wanted = WordBytes /\ usize \in 0 .. MaxVa
    BY <1>1, <1>5 DEF Wanted, CopyType
  <2>4. Start + Wanted > usize
    BY <1>3, <1>5, <2>3, FetchBound
  <2>5. TurnInv' /\ EndInv'
    BY <1>2, <1>5, <2>2, <2>4 DEF TurnInv, EndInv
  <2> QED
    BY <2>2, <2>5 DEF CopyInv
<1>6. CASE copy.fn = "fetchaddr" /\ ~(copy.va >= usize \/ (copy.va + WordBytes) % AddrMod > usize)
  <2>1. copy' = [copy EXCEPT !.left = WordBytes, !.result = "running"]
    BY <1>6 DEF Enter
  <2>2. copy \in [fn : CopyFns, va : Nat, left : Nat, out : Seq(Nat), result : {"entered", "running", "copied", "failed"}]
    BY <1>1 DEF CopyType
  <2>3. WordBytes \in Nat
    BY CopyAssumption
  <2>4. /\ copy' \in [fn : CopyFns, va : Nat, left : Nat, out : Seq(Nat), result : {"entered", "running", "copied", "failed"}]
        /\ copy'.fn = copy.fn /\ copy'.left = WordBytes /\ copy'.result = "running" /\ copy'.va = copy.va /\ copy'.out = copy.out
    BY <2>1, <2>2, <2>3
  <2>5. CopyType'
    BY <1>1, <1>2, <2>4 DEF CopyType
  <2>6. Moved' = 0 /\ Moved' = Moved /\ Start' = Start /\ Wanted' = Wanted /\ Wanted = WordBytes
    BY <1>2, <1>3, <1>6, <2>4 DEF Moved, Start, Wanted
  <2>7. MovedInv'
    <3>1. Mine(Moved)'
      BY <2>6 DEF Mine
    <3> QED
      BY <1>1, <1>2, <1>6, <2>4, <2>6, <3>1 DEF MovedInv
  <2>8. Fetchable'
    <3> DEFINE x == (copy.va + WordBytes) % AddrMod
    <3>1. AddrMod \in Nat \ {0} /\ copy.va + WordBytes \in Nat /\ usize \in Nat
      BY <1>1, <1>3, CopyAssumption DEF CopyType, MaxVa
    <3>2. x \in Nat
      BY <3>1
    <3>3. ~(x > usize)
      BY <1>6
    <3> HIDE DEF x
    <3>4. x <= usize
      BY <3>1, <3>2, <3>3
    <3> QED
      BY <1>2, <1>3, <2>6, <3>4 DEF Fetchable, x
  <2>9. TurnInv'
    BY <1>3, <1>6, <2>3, <2>4, <2>6, <2>8 DEF TurnInv
  <2>10. EndInv'
    BY <2>4 DEF EndInv
  <2> QED
    BY <2>5, <2>7, <2>9, <2>10 DEF CopyInv
<1> QED
  BY <1>4, <1>5, <1>6

\* walkaddr fails: the range leaves the user's pages.
LEMMA NotMappedInv ==
    ASSUME CopyInv, NotMapped
    PROVE  CopyInv'
<1>1. CopyType /\ MovedInv /\ TurnInv /\ EndInv
  BY DEF CopyInv
<1>2. copy.result = "running" /\ copy.left > 0 /\ ~WalkAddr(copy.va) /\ Ending("failed")
  BY DEF NotMapped, Ends, Ending
<1>3. /\ CopyType' /\ MovedInv' /\ copy'.result = "failed" /\ copy'.fn = copy.fn
      /\ copy'.out = copy.out /\ Start' = Start /\ Wanted' = Wanted /\ (\A k : Mine(k)' <=> Mine(k))
  BY <1>2, EndingFacts
<1>4. /\ Start \in Nat /\ Wanted \in Nat /\ Moved \in Nat /\ copy.left \in Nat
      /\ Moved + copy.left = Wanted /\ copy.va = Start + Moved /\ umem' = umem
  BY <1>1, <1>2, CallTyped DEF TurnInv, Ending
<1>5. \A k \in Nat : k > Moved => ~Mine(k)
  <2> SUFFICES ASSUME NEW k \in Nat, k > Moved
               PROVE  ~Mine(k)
    OBVIOUS
  <2>1. Moved \in 0 .. k - 1
    BY <1>4
  <2> QED
    BY <1>2, <1>4, <2>1 DEF Mine
<1>6. CASE copy.fn = "copyinstr"
  <2> SUFFICES ASSUME NEW k \in 1 .. Wanted, Mine(k)
               PROVE  umem[Start + k - 1] # NulByte
    BY <1>3, <1>4, <1>6 DEF CopyInv, TurnInv, EndInv
  <2>1. k \in 1 .. Moved
    BY <1>4, <1>5
  <2> QED
    BY <1>1, <1>2, <1>6, <2>1 DEF MovedInv, TurnInv
<1>7. CASE copy.fn # "copyinstr"
  <2>1. ~Mine(Wanted)
    BY <1>2, <1>4, <1>5
  <2> QED
    BY <1>3, <1>7, <2>1 DEF CopyInv, TurnInv, EndInv
<1> QED
  BY <1>6, <1>7

\* The end of a loop keeps the invariant.
LEMMA LoopEndsInv ==
    ASSUME CopyInv, LoopEnds
    PROVE  CopyInv'
<1>1. CopyType /\ MovedInv /\ TurnInv /\ EndInv
  BY DEF CopyInv
<1>2. copy.result = "running" /\ copy.left = 0
  BY DEF LoopEnds
<1>3. Start \in Nat /\ Wanted \in Nat /\ Moved \in Nat /\ Moved = Wanted /\ Fetchable
  BY <1>1, <1>2, CallTyped DEF TurnInv
<1>4. CASE copy.fn = "copyinstr"
  <2>1. Ending("failed")
    BY <1>4 DEF LoopEnds, Ends, Ending
  <2>2. /\ CopyType' /\ MovedInv' /\ copy'.result = "failed" /\ copy'.fn = copy.fn
        /\ Start' = Start /\ Wanted' = Wanted /\ umem' = umem
    BY <2>1, EndingFacts DEF Ending
  <2>3. \A k \in 1 .. Wanted : umem[Start + k - 1] # NulByte
    BY <1>1, <1>2, <1>3, <1>4 DEF MovedInv, TurnInv
  <2> QED
    BY <1>4, <2>2, <2>3 DEF CopyInv, TurnInv, EndInv
<1>5. CASE copy.fn # "copyinstr"
  <2>1. Ending("copied")
    BY <1>5 DEF LoopEnds, Ends, Ending
  <2>2. /\ CopyType' /\ MovedInv' /\ copy'.result = "copied" /\ copy'.fn = copy.fn
        /\ Moved' = Moved /\ Wanted' = Wanted /\ (Fetchable' <=> Fetchable)
    BY <2>1, EndingFacts
  <2> QED
    BY <1>3, <1>5, <2>2 DEF CopyInv, TurnInv, EndInv
<1> QED
  BY <1>4, <1>5

\* What a turn starts from: the bytes to move are in the user's pages.
LEMMA TurnStart ==
    ASSUME CopyInv, copy.result = "running", copy.left > 0, WalkAddr(copy.va), NEW n, n = Stretch(copy.va, copy.left)
    PROVE  /\ n \in 1 .. copy.left /\ n \in Nat /\ copy.va = Start + Moved /\ Moved + copy.left = Wanted
           /\ copy.va + n <= MaxVa /\ NextVa(copy.va) \in Nat
           /\ n < copy.left => NextVa(copy.va) = Start + (Moved + n)
           /\ \A k \in 0 .. n : Mine(Moved + k)
<1>1. TurnInv /\ MovedInv
  BY DEF CopyInv
<1>2. /\ Start \in Nat /\ Wanted \in Nat /\ Moved \in Nat /\ MaxVa \in Nat /\ copy.va \in Nat /\ copy.left \in Nat
  BY CallTyped
<1>3. copy.va = Start + Moved /\ Moved + copy.left = Wanted
  BY <1>1 DEF TurnInv
<1>4. /\ n \in 1 .. copy.left /\ copy.va + n <= MaxVa /\ NextVa(copy.va) \in Nat
      /\ n < copy.left => NextVa(copy.va) = copy.va + n
      /\ \A i \in 0 .. n - 1 : WalkAddr(copy.va + i)
  BY <1>2, TurnStretch
<1>5. n \in Nat
  BY <1>2, <1>4
<1>7. ASSUME NEW k \in 0 .. n PROVE Mine(Moved + k)
  <2> SUFFICES ASSUME NEW i \in 0 .. (Moved + k) - 1
               PROVE  WalkAddr(Start + i)
    BY DEF Mine
  <2>0. k \in Nat /\ k <= n /\ i \in Nat /\ i < Moved + k
    BY <1>2, <1>5
  <2>1. CASE i < Moved
    <3>1. i \in 0 .. Moved - 1
      BY <1>2, <2>0, <2>1
    <3> QED
      BY <1>1, <3>1 DEF MovedInv, Mine
  <2>2. CASE i >= Moved
    <3>1. i - Moved \in 0 .. n - 1 /\ copy.va + (i - Moved) = Start + i
      BY <1>2, <1>3, <1>5, <2>0, <2>2
    <3> QED
      BY <1>4, <3>1
  <2> QED
    BY <1>2, <2>0, <2>1, <2>2
<1>8. n < copy.left => NextVa(copy.va) = Start + (Moved + n)
  BY <1>2, <1>3, <1>4, <1>5
<1> QED
  BY <1>3, <1>4, <1>5, <1>7, <1>8

\* A turn moves the bytes b and leaves l bytes at v.
Turned(b, l, v, res) ==
    /\ b \in Seq(Nat) /\ l \in Nat /\ v \in Nat /\ res \in {"running", "copied"}
    /\ copy' = [copy EXCEPT !.out = @ \o b, !.left = l, !.va = v, !.result = res] /\ UNCHANGED <<ptes, usize, asked>>

\* The record of the call after a turn.
LEMMA TurnRecord ==
    ASSUME CopyInv, NEW b, NEW l, NEW v, NEW res, Turned(b, l, v, res), umem' \in [0 .. MaxVa - 1 -> Nat]
    PROVE  /\ CopyType' /\ copy'.fn = copy.fn /\ copy'.left = l /\ copy'.va = v /\ copy'.result = res /\ copy'.out = copy.out \o b
           /\ Moved' = Moved + Len(b) /\ Start' = Start /\ Wanted' = Wanted /\ (Fetchable' <=> Fetchable)
           /\ \A k : Mine(k)' <=> Mine(k)
           /\ \A i \in 1 .. Moved + Len(b) : copy'.out[i] = IF i <= Moved THEN copy.out[i] ELSE b[i - Moved]
<1>0. /\ b \in Seq(Nat) /\ l \in Nat /\ v \in Nat /\ res \in {"running", "copied"} /\ UNCHANGED <<ptes, usize, asked>>
      /\ copy' = [copy EXCEPT !.out = @ \o b, !.left = l, !.va = v, !.result = res]
  BY DEF Turned
<1>1. CopyType
  BY DEF CopyInv
<1>2. copy \in [fn : CopyFns, va : Nat, left : Nat, out : Seq(Nat), result : {"entered", "running", "copied", "failed"}]
  BY <1>1 DEF CopyType
<1> DEFINE o == copy.out \o b
<1>3. o \in Seq(Nat) /\ Len(o) = Len(copy.out) + Len(b)
  BY <1>0, <1>2
<1>4. \A i \in 1 .. Len(copy.out) + Len(b) : o[i] = IF i <= Len(copy.out) THEN copy.out[i] ELSE b[i - Len(copy.out)]
  BY <1>0, <1>2
<1> HIDE DEF o
<1>5. copy' = [copy EXCEPT !.out = o, !.left = l, !.va = v, !.result = res]
  BY <1>0 DEF o
<1>6. /\ copy' \in [fn : CopyFns, va : Nat, left : Nat, out : Seq(Nat), result : {"entered", "running", "copied", "failed"}]
      /\ copy'.fn = copy.fn /\ copy'.left = l /\ copy'.va = v /\ copy'.result = res /\ copy'.out = o
  BY <1>0, <1>2, <1>3, <1>5
<1>7. CopyType'
  BY <1>0, <1>1, <1>6 DEF CopyType
<1>8. Moved' = Moved + Len(b) /\ Start' = Start /\ Wanted' = Wanted /\ (Fetchable' <=> Fetchable)
  BY <1>0, <1>3, <1>6 DEF Moved, Start, Wanted, Fetchable
<1>9. \A k : Mine(k)' <=> Mine(k)
  BY <1>0, <1>8 DEF Mine, WalkAddr
<1>10. \A i \in 1 .. Moved + Len(b) : copy'.out[i] = IF i <= Moved THEN copy.out[i] ELSE b[i - Moved]
  BY <1>4, <1>6 DEF Moved
<1> QED
  BY <1>6, <1>7, <1>8, <1>9, <1>10 DEF o

\* The bytes of user memory.
LEMMA BytesOf ==
    ASSUME CopyType, NEW va \in Nat, NEW n \in Nat, va + n <= MaxVa
    PROVE  Bytes(va, n) \in Seq(Nat) /\ Len(Bytes(va, n)) = n /\ \A i \in 1 .. n : Bytes(va, n)[i] = umem[va + i - 1]
<1>1. MaxVa \in Nat /\ umem \in [0 .. MaxVa - 1 -> Nat]
  BY CopyAssumption DEF CopyType, MaxVa
<1>2. \A i \in 1 .. n : umem[va + i - 1] \in Nat
  BY <1>1
<1>3. Bytes(va, n) = [i \in 1 .. n |-> umem[va + i - 1]]
  BY DEF Bytes
<1> QED
  BY <1>2, <1>3

\* A turn that reads k bytes from user memory.
LEMMA ReadTurn ==
    ASSUME CopyInv, copy.result = "running", copy.left > 0, WalkAddr(copy.va), copy.fn # "copyout",
           NEW k \in 0 .. Stretch(copy.va, copy.left), NEW b, Len(b) = k,
           \A i \in 1 .. k : b[i] = umem[copy.va + i - 1],
           NEW l, NEW v, NEW res, Turned(b, l, v, res), umem' = umem
    PROVE  MovedInv'
<1> DEFINE n == Stretch(copy.va, copy.left)
<1>1. CopyType /\ MovedInv
  BY DEF CopyInv
<1>2. /\ n \in 1 .. copy.left /\ n \in Nat /\ copy.va = Start + Moved /\ Moved + copy.left = Wanted
      /\ \A j \in 0 .. n : Mine(Moved + j)
  BY TurnStart
<1>3. Start \in Nat /\ Wanted \in Nat /\ Moved \in Nat /\ copy.left \in Nat
  BY CallTyped
<1>4. umem' \in [0 .. MaxVa - 1 -> Nat] /\ asked' = asked
  BY <1>1 DEF CopyType, Turned
<1>5. /\ copy'.fn = copy.fn /\ Moved' = Moved + k /\ Start' = Start /\ Wanted' = Wanted
      /\ (\A j : Mine(j)' <=> Mine(j))
      /\ \A i \in 1 .. Moved + k : copy'.out[i] = IF i <= Moved THEN copy.out[i] ELSE b[i - Moved]
  BY <1>4, TurnRecord
<1> HIDE DEF n
<1>6. Mine(Moved + k) /\ Moved + k <= Wanted /\ k \in Nat
  BY <1>2, <1>3 DEF n
<1>7. ASSUME NEW i \in 1 .. Moved + k PROVE copy'.out[i] = umem[Start + i - 1]
  <2>0. i \in Int /\ i >= 1 /\ i <= Moved + k
    BY <1>3, <1>6
  <2>1. CASE i <= Moved
    <3>1. i \in 1 .. Moved
      BY <1>3, <2>0, <2>1
    <3>2. copy'.out[i] = copy.out[i]
      BY <1>5, <2>1
    <3>3. copy.out[i] = umem[Start + i - 1]
      BY <1>1, <3>1 DEF MovedInv
    <3> QED
      BY <3>2, <3>3
  <2>2. CASE ~(i <= Moved)
    <3>1. i - Moved \in 1 .. k /\ copy.va + (i - Moved) - 1 = Start + i - 1
      BY <1>2, <1>3, <1>6, <2>0, <2>2
    <3>3. copy'.out[i] = b[i - Moved]
      BY <1>5, <2>2
    <3>4. b[i - Moved] = umem[copy.va + (i - Moved) - 1]
      BY <3>1
    <3> QED
      BY <3>1, <3>3, <3>4
  <2> QED
    BY <2>1, <2>2
<1> QED
  BY <1>1, <1>4, <1>5, <1>6, <1>7 DEF MovedInv

\* After a turn that goes on, the loop stands at the next byte to move.
LEMMA GoesOn ==
    ASSUME CopyInv, copy.result = "running", copy.left > 0, WalkAddr(copy.va),
           NEW n, n = Stretch(copy.va, copy.left), NEW b \in Seq(Nat), Len(b) = n,
           copy.fn = "copyinstr" => \A i \in 1 .. n : b[i] # NulByte,
           copy' = [copy EXCEPT !.out = @ \o b, !.left = @ - n, !.va = NextVa(@)], UNCHANGED <<ptes, usize, asked>>,
           umem' \in [0 .. MaxVa - 1 -> Nat]
    PROVE  /\ CopyType' /\ TurnInv' /\ EndInv'
           /\ Turned(b, copy.left - n, NextVa(copy.va), "running")
<1>1. CopyType /\ TurnInv
  BY DEF CopyInv
<1>2. copy \in [fn : CopyFns, va : Nat, left : Nat, out : Seq(Nat), result : {"entered", "running", "copied", "failed"}]
  BY <1>1 DEF CopyType
<1>3. /\ n \in 1 .. copy.left /\ n \in Nat /\ copy.va = Start + Moved /\ Moved + copy.left = Wanted
      /\ NextVa(copy.va) \in Nat
      /\ n < copy.left => NextVa(copy.va) = Start + (Moved + n)
  BY TurnStart
<1>4. Start \in Nat /\ Wanted \in Nat /\ Moved \in Nat /\ copy.left \in Nat
  BY CallTyped
<1>5. copy.left - n \in Nat
  BY <1>3, <1>4
<1>6. Turned(b, copy.left - n, NextVa(copy.va), "running")
  BY <1>2, <1>3, <1>5 DEF Turned
<1> DEFINE l == copy.left - n
           v == NextVa(copy.va)
<1>7. /\ CopyType' /\ copy'.fn = copy.fn /\ copy'.left = l /\ copy'.va = v /\ copy'.result = "running"
      /\ Moved' = Moved + Len(b) /\ Start' = Start /\ Wanted' = Wanted /\ (Fetchable' <=> Fetchable)
      /\ \A i \in 1 .. Moved + Len(b) : copy'.out[i] = IF i <= Moved THEN copy.out[i] ELSE b[i - Moved]
  BY <1>6, TurnRecord
<1>8. Moved' + copy'.left = Wanted' /\ (copy'.left > 0 => copy'.va = Start' + Moved') /\ Fetchable'
  BY <1>1, <1>3, <1>4, <1>7 DEF TurnInv
<1>9. ASSUME copy.fn = "copyinstr", NEW i \in 1 .. Moved + n PROVE copy'.out[i] # NulByte
  <2>0. i \in Int /\ i >= 1 /\ i <= Moved + n
    BY <1>3, <1>4
  <2>1. CASE i <= Moved
    <3>1. i \in 1 .. Moved
      BY <1>4, <2>0, <2>1
    <3>2. copy'.out[i] = copy.out[i]
      BY <1>7, <2>1
    <3>3. copy.out[i] # NulByte
      BY <1>1, <1>9, <3>1 DEF TurnInv
    <3> QED
      BY <3>2, <3>3
  <2>2. CASE ~(i <= Moved)
    <3>1. i - Moved \in 1 .. n
      BY <1>3, <1>4, <2>0, <2>2
    <3>2. copy'.out[i] = b[i - Moved]
      BY <1>7, <2>2
    <3>3. b[i - Moved] # NulByte
      BY <1>9, <3>1
    <3> QED
      BY <3>2, <3>3
  <2> QED
    BY <2>1, <2>2
<1>10. TurnInv'
  BY <1>7, <1>8, <1>9 DEF TurnInv
<1>11. EndInv'
  BY <1>7 DEF EndInv
<1> QED
  BY <1>6, <1>7, <1>10, <1>11

\* A turn of copyin or of fetchaddr keeps the invariant.
LEMMA CopyinInv ==
    ASSUME CopyInv, Copyin
    PROVE  CopyInv'
<1> DEFINE n == Stretch(copy.va, copy.left)
           b == Bytes(copy.va, n)
<1>1. CopyType
  BY DEF CopyInv
<1>2. /\ copy.fn \in {"copyin", "fetchaddr"} /\ copy.result = "running" /\ copy.left > 0 /\ WalkAddr(copy.va)
      /\ copy' = [copy EXCEPT !.out = @ \o b, !.left = @ - n, !.va = NextVa(@)] /\ UNCHANGED <<ptes, umem, usize, asked>>
  BY DEF Copyin, Turning
<1>3. n \in 1 .. copy.left /\ n \in Nat /\ copy.va + n <= MaxVa /\ copy.va \in Nat
  BY <1>2, TurnStart, CallTyped
<1>4. b \in Seq(Nat) /\ Len(b) = n /\ \A i \in 1 .. n : b[i] = umem[copy.va + i - 1]
  BY <1>1, <1>3, BytesOf
<1>5. umem' \in [0 .. MaxVa - 1 -> Nat]
  BY <1>1, <1>2 DEF CopyType
<1> HIDE DEF b
<1>6. /\ CopyType' /\ TurnInv' /\ EndInv'
      /\ Turned(b, copy.left - n, NextVa(copy.va), "running")
  BY <1>2, <1>4, <1>5, GoesOn
<1>7. n \in 0 .. Stretch(copy.va, copy.left)
  BY <1>3
<1>8. MovedInv'
  BY <1>2, <1>4, <1>6, <1>7, ReadTurn
<1> QED
  BY <1>6, <1>8 DEF CopyInv

\* A turn of copyinstr keeps the invariant.
LEMMA CopyinstrInv ==
    ASSUME CopyInv, Copyinstr
    PROVE  CopyInv'
<1> DEFINE n == Stretch(copy.va, copy.left)
           b == Bytes(copy.va, n)
           nuls == {i \in 1 .. n : b[i] = NulByte}
<1>1. CopyType
  BY DEF CopyInv
<1>2. /\ copy.fn = "copyinstr" /\ copy.result = "running" /\ copy.left > 0 /\ WalkAddr(copy.va)
      /\ \/ \E i \in nuls : copy' = [copy EXCEPT !.out = @ \o SubSeq(b, 1, i), !.result = "copied"]
         \/ nuls = {} /\ copy' = [copy EXCEPT !.out = @ \o b, !.left = @ - n, !.va = NextVa(@)]
      /\ UNCHANGED <<ptes, umem, usize, asked>>
  BY DEF Copyinstr, Turning
<1>3. n \in 1 .. copy.left /\ n \in Nat /\ copy.va + n <= MaxVa /\ copy.va \in Nat /\ copy.left \in Nat
  BY <1>2, TurnStart, CallTyped
<1>4. b \in Seq(Nat) /\ Len(b) = n /\ \A i \in 1 .. n : b[i] = umem[copy.va + i - 1]
  BY <1>1, <1>3, BytesOf
<1>5. umem' \in [0 .. MaxVa - 1 -> Nat]
  BY <1>1, <1>2 DEF CopyType
<1> HIDE DEF b
<1>6. CASE \E i \in nuls : copy' = [copy EXCEPT !.out = @ \o SubSeq(b, 1, i), !.result = "copied"]
  <2>1. PICK k \in 1 .. n : b[k] = NulByte /\ copy' = [copy EXCEPT !.out = @ \o SubSeq(b, 1, k), !.result = "copied"]
    BY <1>6
  <2> DEFINE s == SubSeq(b, 1, k)
  <2>2. s \in Seq(Nat) /\ Len(s) = k /\ (\A i \in 1 .. k : s[i] = b[i]) /\ k \in Nat /\ k >= 1 /\ k <= n
    BY <1>3, <1>4, <2>1
  <2> HIDE DEF s
  <2>3. \A i \in 1 .. k : s[i] = umem[copy.va + i - 1]
    <3>1. \A i \in 1 .. k : i \in 1 .. n
      BY <1>3, <2>2
    <3> QED
      BY <1>4, <2>2, <3>1
  <2>4. copy \in [fn : CopyFns, va : Nat, left : Nat, out : Seq(Nat), result : {"entered", "running", "copied", "failed"}]
    BY <1>1 DEF CopyType
  <2>5. Turned(s, copy.left, copy.va, "copied")
    <3>1. copy' = [copy EXCEPT !.out = @ \o s, !.left = copy.left, !.va = copy.va, !.result = "copied"]
      BY <2>1, <2>4 DEF s
    <3> QED
      BY <1>2, <1>3, <2>2, <3>1 DEF Turned
  <2>6. k \in 0 .. Stretch(copy.va, copy.left)
    BY <1>3, <2>2
  <2>7. MovedInv'
    BY <1>2, <2>2, <2>3, <2>5, <2>6, ReadTurn
  <2>8. /\ CopyType' /\ copy'.fn = copy.fn /\ copy'.result = "copied" /\ Moved' = Moved + k
        /\ \A i \in 1 .. Moved + k : copy'.out[i] = IF i <= Moved THEN copy.out[i] ELSE s[i - Moved]
    BY <1>5, <2>2, <2>5, TurnRecord
  <2>9. Moved \in Nat
    BY CallTyped
  <2>10. Moved + k \in 1 .. Moved + k /\ ~(Moved + k <= Moved) /\ (Moved + k) - Moved = k /\ k \in 1 .. k
    BY <2>2, <2>9
  <2>11. copy'.out[Moved + k] = NulByte
    BY <2>1, <2>2, <2>8, <2>10
  <2>12. TurnInv'
    BY <2>8 DEF TurnInv
  <2>13. EndInv'
    <3>1. Moved + k >= 1
      BY <2>2, <2>9
    <3> QED
      BY <1>2, <2>8, <2>11, <3>1 DEF EndInv
  <2> QED
    BY <2>7, <2>8, <2>12, <2>13 DEF CopyInv
<1>7. CASE nuls = {} /\ copy' = [copy EXCEPT !.out = @ \o b, !.left = @ - n, !.va = NextVa(@)]
  <2>1. \A i \in 1 .. n : b[i] # NulByte
    BY <1>7
  <2>2. /\ CopyType' /\ TurnInv' /\ EndInv'
        /\ Turned(b, copy.left - n, NextVa(copy.va), "running")
    BY <1>2, <1>4, <1>5, <1>7, <2>1, GoesOn
  <2>3. n \in 0 .. Stretch(copy.va, copy.left)
    BY <1>3
  <2>4. MovedInv'
    BY <1>2, <1>4, <2>2, <2>3, ReadTurn
  <2> QED
    BY <2>2, <2>4 DEF CopyInv
<1> QED
  BY <1>2, <1>6, <1>7

\* A turn of copyout keeps the invariant.
LEMMA CopyoutInv ==
    ASSUME CopyInv, Copyout
    PROVE  CopyInv'
<1> DEFINE n == Stretch(copy.va, copy.left)
           src == [i \in 1 .. n |-> MaxVa + Moved + i]
<1>1. CopyType /\ MovedInv
  BY DEF CopyInv
<1>2. /\ copy.fn = "copyout" /\ copy.result = "running" /\ copy.left > 0 /\ WalkAddr(copy.va)
      /\ copy' = [copy EXCEPT !.out = @ \o src, !.left = @ - n, !.va = NextVa(@)] /\ UNCHANGED <<ptes, usize, asked>>
      /\ umem' = [a \in DOMAIN umem |-> IF a >= copy.va /\ a < copy.va + n THEN src[a - copy.va + 1] ELSE umem[a]]
  BY DEF Copyout, Turning, Moved
<1>3. /\ n \in 1 .. copy.left /\ n \in Nat /\ copy.va + n <= MaxVa /\ copy.va = Start + Moved
      /\ Moved + copy.left = Wanted /\ \A k \in 0 .. n : Mine(Moved + k)
  BY <1>2, TurnStart
<1>4. Start \in Nat /\ Wanted \in Nat /\ Moved \in Nat /\ copy.left \in Nat /\ MaxVa \in Nat /\ copy.va \in Nat
  BY CallTyped
<1> HIDE DEF n
<1>5. src \in Seq(Nat) /\ Len(src) = n /\ \A i \in 1 .. n : src[i] = MaxVa + Moved + i
  BY <1>3, <1>4
<1> HIDE DEF src
<1>6. umem \in [0 .. MaxVa - 1 -> Nat]
  BY <1>1 DEF CopyType
<1>7. ASSUME NEW a \in 0 .. MaxVa - 1
      PROVE  umem'[a] = IF a >= copy.va /\ a < copy.va + n THEN MaxVa + Moved + (a - copy.va + 1) ELSE umem[a]
  <2>1. umem'[a] = IF a >= copy.va /\ a < copy.va + n THEN src[a - copy.va + 1] ELSE umem[a]
    BY <1>2, <1>6
  <2>2. CASE a >= copy.va /\ a < copy.va + n
    <3>1. a - copy.va + 1 \in 1 .. n
      BY <1>3, <1>4, <2>2
    <3> QED
      BY <1>5, <2>1, <2>2, <3>1
  <2> QED
    BY <2>1, <2>2
<1>8. umem' \in [0 .. MaxVa - 1 -> Nat]
  <2>1. \A a \in 0 .. MaxVa - 1 : umem'[a] \in Nat
    BY <1>3, <1>4, <1>6, <1>7
  <2>2. DOMAIN umem' = 0 .. MaxVa - 1 /\ umem' = [a \in DOMAIN umem' |-> umem'[a]]
    BY <1>2, <1>6
  <2> QED
    BY <2>1, <2>2
<1>9. /\ CopyType' /\ TurnInv' /\ EndInv'
      /\ Turned(src, copy.left - n, NextVa(copy.va), "running")
  BY <1>2, <1>5, <1>8, GoesOn DEF n
<1>11. /\ copy'.fn = copy.fn /\ Moved' = Moved + n /\ Start' = Start /\ Wanted' = Wanted
       /\ \A k : Mine(k)' <=> Mine(k)
  BY <1>5, <1>8, <1>9, TurnRecord
<1>12. Mine(Moved + n) /\ Moved + n <= Wanted
  BY <1>3, <1>4
<1>13. ASSUME NEW a \in 0 .. MaxVa - 1
       PROVE  umem'[a] = IF Start <= a /\ a < Start + (Moved + n) THEN MaxVa + (a - Start + 1) ELSE asked.umem[a]
  <2>1. umem[a] = IF Start <= a /\ a < Start + Moved THEN MaxVa + (a - Start + 1) ELSE asked.umem[a]
    BY <1>1, <1>2 DEF MovedInv
  <2> QED
    BY <1>3, <1>4, <1>7, <2>1
<1>14. MovedInv'
  BY <1>2, <1>11, <1>12, <1>13 DEF MovedInv
<1> QED
  BY <1>9, <1>14 DEF CopyInv

\* Every step of a copy keeps the invariant.
LEMMA CopyStepInv == CopyInv /\ [CopyNext]_copyVars => CopyInv'
<1> SUFFICES ASSUME CopyInv, [CopyNext]_copyVars
             PROVE  CopyInv'
  OBVIOUS
<1>1. CASE UNCHANGED copyVars
  BY <1>1 DEF copyVars, CopyInv, CopyType, MovedInv, TurnInv, EndInv, Fetchable, Moved, Mine, Start, Wanted, WalkAddr
<1>2. CASE Enter
  BY <1>2, EnterInv
<1>3. CASE NotMapped
  BY <1>3, NotMappedInv
<1>4. CASE Copyin
  BY <1>4, CopyinInv
<1>5. CASE Copyout
  BY <1>5, CopyoutInv
<1>6. CASE Copyinstr
  BY <1>6, CopyinstrInv
<1>7. CASE LoopEnds
  BY <1>7, LoopEndsInv
<1>8. CASE Returned
  BY <1>1, <1>8 DEF Returned
<1> QED
  BY <1>1, <1>2, <1>3, <1>4, <1>5, <1>6, <1>7, <1>8 DEF CopyNext

\* What fetchaddr tests modulo 2^64 holds of the addresses themselves once the
\* word was found in the user's pages.
LEMMA FetchedBelow ==
    ASSUME CopyInv, copy.fn = "fetchaddr", Mine(Wanted), Fetchable
    PROVE  Start + Wanted <= usize
<1>1. Start \in Nat /\ MaxVa \in Nat /\ Wanted = WordBytes /\ WordBytes \in Nat \ {0} /\ AddrMod \in Nat /\ AddrMod > MaxVa
  BY CallTyped, CopyAssumption DEF Wanted
<1>2. WordBytes - 1 \in 0 .. WordBytes - 1
  BY <1>1
<1>3. WalkAddr(Start + (WordBytes - 1))
  BY <1>1, <1>2 DEF Mine
<1> DEFINE x == Start + WordBytes
<1>4. x \in Nat /\ x < AddrMod
  BY <1>1, <1>3 DEF WalkAddr
<1>5. x % AddrMod <= usize
  BY DEF Fetchable
<1> HIDE DEF x
<1>6. x % AddrMod = x
  BY <1>1, <1>4
<1> QED
  BY <1>1, <1>5, <1>6 DEF x

\* The bytes copied are the beginning of the range.
LEMMA CopiedOut ==
    ASSUME CopyInv, copy.fn # "copyout"
    PROVE  copy.out = [i \in 1 .. Moved |-> asked.umem[Start + i - 1]]
<1>1. copy.out \in Seq(Nat)
  BY CallTyped
<1>2. \A i \in 1 .. Moved : copy.out[i] = asked.umem[Start + i - 1]
  BY DEF CopyInv, MovedInv
<1>3. DOMAIN copy.out = 1 .. Moved /\ copy.out = [i \in DOMAIN copy.out |-> copy.out[i]]
  BY <1>1 DEF Moved
<1> QED
  BY <1>2, <1>3

\* The invariant says that a copy is exact.
LEMMA CopyInvExact == CopyInv => CopiesExact
<1> SUFFICES ASSUME CopyInv
             PROVE  CopiesExact
  OBVIOUS
<1> DEFINE c == asked.copy
           len == IF c.fn = "fetchaddr" THEN WordBytes ELSE c.left
           mine == Reach(c.va)
           within == {k \in 1 .. len : k <= mine /\ asked.umem[c.va + k - 1] = NulByte}
           from(n) == [i \in 1 .. n |-> asked.umem[c.va + i - 1]]
<1>1. CopyType /\ MovedInv /\ TurnInv /\ EndInv
  BY DEF CopyInv
<1>2. Start \in Nat /\ Wanted \in Nat /\ Moved \in Nat /\ MaxVa \in Nat
  BY CallTyped
<1>3. copy.fn = c.fn /\ len = Wanted /\ c.va = Start /\ copy.fn \in CopyFns
  BY <1>1 DEF CopyType, Wanted, Start
<1>4. mine = Reach(Start) /\ mine \in Nat /\ \A k \in Nat : k <= mine <=> Mine(k)
  BY <1>2, <1>3, ReachExact DEF Mine
<1> HIDE DEF c, len, mine
<1>5. ASSUME NEW a \in DOMAIN umem, umem[a] # asked.umem[a]
      PROVE  c.fn = "copyout" /\ WalkAddr(a) /\ a >= c.va /\ a < c.va + len
  <2>1. a \in 0 .. MaxVa - 1
    BY <1>1 DEF CopyType
  <2>2. copy.fn = "copyout"
    BY <1>1, <1>5 DEF MovedInv
  <2>3. Start <= a /\ a < Start + Moved /\ Moved <= Wanted
    BY <1>1, <1>5, <2>1, <2>2 DEF MovedInv
  <2>4. a - Start \in 0 .. Moved - 1 /\ Start + (a - Start) = a /\ a >= Start /\ a < Start + Wanted
    BY <1>2, <2>1, <2>3
  <2>5. WalkAddr(a)
    BY <1>1, <2>4 DEF MovedInv, Mine
  <2> QED
    BY <1>3, <2>2, <2>4, <2>5
<1>6. ASSUME copy.result = "copied", c.fn = "copyinstr"
      PROVE  \E k \in within : copy.out = from(k)
  <2>1. Moved >= 1 /\ copy.out[Moved] = NulByte /\ Moved <= Wanted /\ Mine(Moved) /\ umem = asked.umem
    BY <1>1, <1>3, <1>6 DEF EndInv, MovedInv
  <2>2. Moved \in 1 .. Moved /\ Moved \in 1 .. Wanted
    BY <1>2, <2>1
  <2>3. asked.umem[Start + Moved - 1] = NulByte
    BY <1>1, <1>3, <1>6, <2>1, <2>2 DEF MovedInv
  <2>4. Moved \in within
    BY <1>2, <1>3, <1>4, <2>1, <2>2, <2>3
  <2>5. copy.out = from(Moved)
    BY <1>3, <1>6, CopiedOut
  <2> QED
    BY <2>4, <2>5
<1>7. ASSUME copy.result = "copied", c.fn = "copyout"
      PROVE  mine >= len /\ \A i \in 1 .. len : umem[c.va + i - 1] = MaxVa + i
  <2>1. Moved = Wanted /\ Mine(Wanted)
    BY <1>1, <1>3, <1>7 DEF EndInv, MovedInv
  <2>2. mine >= len
    BY <1>2, <1>3, <1>4, <2>1
  <2>3. ASSUME NEW i \in 1 .. len PROVE umem[c.va + i - 1] = MaxVa + i
    <3>1. i - 1 \in 0 .. Wanted - 1
      BY <1>2, <1>3
    <3>2. WalkAddr(Start + (i - 1))
      BY <2>1, <3>1 DEF Mine
    <3>3. Start + (i - 1) \in 0 .. MaxVa - 1 /\ Start + (i - 1) = c.va + i - 1
      BY <1>2, <1>3, <3>1, <3>2 DEF WalkAddr
    <3> DEFINE a == Start + (i - 1)
    <3>4. Start <= a /\ a < Start + Moved /\ MaxVa + (a - Start + 1) = MaxVa + i
      BY <1>2, <2>1, <3>1
    <3>5. umem[a] = IF Start <= a /\ a < Start + Moved THEN MaxVa + (a - Start + 1) ELSE asked.umem[a]
      BY <1>1, <1>3, <1>7, <3>3 DEF MovedInv
    <3> QED
      BY <3>3, <3>4, <3>5
  <2> QED
    BY <2>2, <2>3
<1>8. ASSUME copy.result = "copied", c.fn # "copyinstr", c.fn # "copyout"
      PROVE  mine >= len /\ copy.out = from(len) /\ (c.fn = "fetchaddr" => c.va + len <= usize)
  <2>1. Moved = Wanted /\ Mine(Wanted) /\ Fetchable
    BY <1>1, <1>3, <1>8 DEF EndInv, MovedInv
  <2>2. mine >= len
    BY <1>2, <1>3, <1>4, <2>1
  <2>3. copy.out = from(len)
    BY <1>3, <1>8, <2>1, CopiedOut
  <2>4. c.fn = "fetchaddr" => c.va + len <= usize
    BY <1>3, <2>1, FetchedBelow
  <2> QED
    BY <2>2, <2>3, <2>4
<1>9. ASSUME copy.result = "failed", c.fn = "copyinstr"
      PROVE  within = {}
  <2>1. (\A k \in 1 .. Wanted : Mine(k) => umem[Start + k - 1] # NulByte) /\ umem = asked.umem
    BY <1>1, <1>3, <1>9 DEF EndInv, MovedInv
  <2>2. \A k \in 1 .. Wanted : k \in Nat
    BY <1>2
  <2> QED
    BY <1>3, <1>4, <2>1, <2>2
<1>10. ASSUME copy.result = "failed", c.fn # "copyinstr"
       PROVE  mine < len \/ (c.fn = "fetchaddr" /\ c.va + len > usize)
  <2>1. ~Mine(Wanted) \/ (copy.fn = "fetchaddr" /\ Start + Wanted > usize)
    BY <1>1, <1>3, <1>10 DEF EndInv
  <2> QED
    BY <1>2, <1>3, <1>4, <2>1
<1> HIDE DEF within, from
<1>11. copy.result = "copied" =>
         CASE c.fn = "copyinstr" -> \E k \in within : copy.out = from(k)
           [] c.fn = "copyout" -> mine >= len /\ \A i \in 1 .. len : umem[c.va + i - 1] = MaxVa + i
           [] OTHER -> mine >= len /\ copy.out = from(len) /\ (c.fn = "fetchaddr" => c.va + len <= usize)
  BY <1>6, <1>7, <1>8
<1>12. copy.result = "failed" =>
         CASE c.fn = "copyinstr" -> within = {}
           [] c.fn = "fetchaddr" -> mine < len \/ c.va + len > usize
           [] OTHER -> mine < len
  BY <1>9, <1>10
<1> QED
  BY <1>5, <1>11, <1>12, Zenon DEF CopiesExact, c, len, mine, within, from

\* The invariant of a copy holds throughout.
THEOREM CopyInvariant == CopySpec => []CopyInv
<1>1. CopyInv /\ [CopyNext]_copyVars => CopyInv'
  BY CopyStepInv
<1> QED
  BY <1>1, CopyInitInv, PTL DEF CopySpec

\* A copy between the kernel and user memory (copyin, copyout, copyinstr,
\* fetchaddr) moves exactly the bytes asked for or fails, and touches nothing
\* else.
THEOREM CopiesExactAlways == CopySpec => []CopiesExact
BY CopyInvariant, CopyInvExact, PTL

-----------------------------------------------------------------------------
(* Pages and page tables.                                                    *)

\* What a page table is, what a page may hold, and the records of Memory.
PtSlots == {"root", "spare", "low1", "low0", "high1", "high0", "trampoline", "trapframe", "user"} \X Nat
Tables == UNION {[D -> Nat] : D \in SUBSET PtSlots}
Contents == {"freed", "table", "frame", "zero", "text", "written", "arg", "args", "guard"}
Works == [free : SUBSET Pages, mem : [Pages -> Contents], pt : Tables, ok : BOOLEAN, panic : BOOLEAN]

Mapped == {Trampoline, Trapframe}   \* mapped by a page table, not owned by it
Own(pt) == DOMAIN pt \ Mapped
Owned(pt) == {pt[s] : s \in Own(pt)}
Distinct(pt) == \A s, t \in Own(pt) : pt[s] = pt[t] => s = t

\* The pool, one page table and the pages O held elsewhere share out memory.
Whole(w, O) ==
    /\ w \in Works /\ O \subseteq Pages /\ O \intersect w.free = {}
    /\ Distinct(w.pt) /\ Owned(w.pt) = Pages \ (w.free \union O)

\* What was held stays where it is and keeps what it holds.
Kept(w, v, O) ==
    /\ v.panic = w.panic /\ \A pg \in O : v.mem[pg] = w.mem[pg]
    /\ \A s \in DOMAIN w.pt \intersect DOMAIN v.pt :
        v.pt[s] = w.pt[s] /\ (s \notin Mapped => v.mem[v.pt[s]] = w.mem[w.pt[s]])

\* Page tables are functions on slots.
LEMMA TableIs ==
    ASSUME NEW pt
    PROVE  pt \in Tables <=> /\ pt = [s \in DOMAIN pt |-> pt[s]] /\ DOMAIN pt \subseteq PtSlots
                             /\ \A s \in DOMAIN pt : pt[s] \in Nat
<1>1. ASSUME pt \in Tables
      PROVE  pt = [s \in DOMAIN pt |-> pt[s]] /\ DOMAIN pt \subseteq PtSlots /\ \A s \in DOMAIN pt : pt[s] \in Nat
  <2>1. PICK D \in SUBSET PtSlots : pt \in [D -> Nat]
    BY <1>1 DEF Tables
  <2> QED
    BY <2>1
<1>2. ASSUME pt = [s \in DOMAIN pt |-> pt[s]], DOMAIN pt \subseteq PtSlots, \A s \in DOMAIN pt : pt[s] \in Nat
      PROVE  pt \in Tables
  <2>1. pt \in [DOMAIN pt -> Nat]
    BY <1>2
  <2> QED
    BY <1>2, <2>1 DEF Tables
<1> QED
  BY <1>1, <1>2

\* Memory before any process has some: a page table without entries.
LEMMA NothingIs == Nothing \in Tables /\ DOMAIN Nothing = {} /\ Own(Nothing) = {} /\ Owned(Nothing) = {} /\ Distinct(Nothing) /\ Leaves(Nothing) = {}
<1>1. DOMAIN Nothing = {} /\ Nothing = [s \in DOMAIN Nothing |-> Nothing[s]]
  BY DEF Nothing
<1>2. Nothing \in Tables
  BY <1>1, TableIs
<1> QED
  BY <1>1, <1>2 DEF Own, Owned, Distinct, Leaves

\* A page table is Nothing when it has no entries.
LEMMA EmptyIsNothing ==
    ASSUME NEW pt \in Tables, DOMAIN pt = {}
    PROVE  pt = Nothing
<1>1. pt = [s \in DOMAIN pt |-> pt[s]]
  BY TableIs
<1>2. pt = [s \in {} |-> pt[s]]
  BY <1>1
<1>3. [s \in {} |-> pt[s]] = [s \in {} |-> NoPage]
  OBVIOUS
<1> QED
  BY <1>2, <1>3 DEF Nothing

\* The entry added to a page table.
LEMMA PutIs ==
    ASSUME NEW pt \in Tables, NEW slot \in PtSlots, NEW page \in Nat
    PROVE  /\ Put(pt, slot, page) \in Tables /\ DOMAIN Put(pt, slot, page) = DOMAIN pt \union {slot}
           /\ Put(pt, slot, page)[slot] = page /\ \A s \in DOMAIN pt : s # slot => Put(pt, slot, page)[s] = pt[s]
<1> DEFINE t == Put(pt, slot, page)
<1>1. t = [s \in DOMAIN pt \union {slot} |-> IF s = slot THEN page ELSE pt[s]]
  BY DEF Put
<1> HIDE DEF t
<1>2. DOMAIN pt \subseteq PtSlots /\ \A s \in DOMAIN pt : pt[s] \in Nat
  BY TableIs
<1>3. DOMAIN t = DOMAIN pt \union {slot} /\ t = [s \in DOMAIN t |-> t[s]] /\ t[slot] = page
      /\ \A s \in DOMAIN pt : s # slot => t[s] = pt[s]
  BY <1>1
<1>4. \A s \in DOMAIN t : t[s] \in Nat
  BY <1>2, <1>3
<1>5. t \in Tables
  BY <1>2, <1>3, <1>4, TableIs
<1> QED
  BY <1>3, <1>5 DEF t

\* The entries removed from a page table.
LEMMA WithoutIs ==
    ASSUME NEW pt \in Tables, NEW S
    PROVE  /\ Without(pt, S) \in Tables /\ DOMAIN Without(pt, S) = DOMAIN pt \ S
           /\ \A s \in DOMAIN pt \ S : Without(pt, S)[s] = pt[s]
<1> DEFINE t == Without(pt, S)
<1>1. t = [s \in DOMAIN pt \ S |-> pt[s]]
  BY DEF Without
<1> HIDE DEF t
<1>2. DOMAIN pt \subseteq PtSlots /\ \A s \in DOMAIN pt : pt[s] \in Nat
  BY TableIs
<1>3. DOMAIN t = DOMAIN pt \ S /\ t = [s \in DOMAIN t |-> t[s]] /\ \A s \in DOMAIN pt \ S : t[s] = pt[s]
  BY <1>1
<1>4. t \in Tables
  BY <1>2, <1>3, TableIs
<1> QED
  BY <1>3, <1>4 DEF t

\* The slots that the operations name.
LEMMA SlotNames ==
    /\ Root \in PtSlots /\ Spare \in PtSlots /\ Trampoline \in PtSlots /\ Trapframe \in PtSlots
    /\ Root \notin Mapped /\ Spare \notin Mapped /\ Trampoline # Trapframe
    /\ \A n \in Nat : User(n) \in PtSlots /\ User(n) \notin Mapped /\ User(n)[1] = "user"
    /\ \A n, m : User(n) = User(m) => n = m
    /\ Root[1] = "root" /\ Trampoline[1] = "trampoline" /\ Trapframe[1] = "trapframe"
<1>1. Root \in PtSlots /\ Spare \in PtSlots /\ Trampoline \in PtSlots /\ Trapframe \in PtSlots
  BY DEF Root, Spare, Trampoline, Trapframe, PtSlots
<1>2. Root \notin Mapped /\ Spare \notin Mapped /\ Trampoline # Trapframe
  BY DEF Root, Spare, Trampoline, Trapframe, Mapped
<1>3. \A n \in Nat : User(n) \in PtSlots /\ User(n) \notin Mapped /\ User(n)[1] = "user"
  BY DEF User, Trampoline, Trapframe, Mapped, PtSlots
<1>4. \A n, m : User(n) = User(m) => n = m
  BY DEF User
<1>5. Root[1] = "root" /\ Trampoline[1] = "trampoline" /\ Trapframe[1] = "trapframe"
  BY DEF Root, Trampoline, Trapframe
<1> QED
  BY <1>1, <1>2, <1>3, <1>4, <1>5

\* kalloc takes a free page, or fails.
LEMMA KallocIs ==
    ASSUME NEW w \in Works, NEW slot \in PtSlots, NEW c \in Contents
    PROVE  \/ w.free = {} /\ Kalloc(w, slot, c) = [w EXCEPT !.ok = FALSE]
           \/ \E pg \in w.free : Kalloc(w, slot, c) = [w EXCEPT !.free = w.free \ {pg}, !.mem[pg] = c, !.pt = Put(w.pt, slot, pg)]
<1>1. CASE w.free = {}
  BY <1>1 DEF Kalloc
<1>2. CASE w.free # {}
  <2> DEFINE pg == CHOOSE q \in w.free : \A r \in w.free : q <= r
  <2>1. w.free \in SUBSET Nat
    <3>1. w.free \subseteq Pages
      BY DEF Works
    <3> QED
      BY <3>1, MemoryAssumption DEF Pages
  <2>2. \E q \in w.free : \A r \in w.free : q <= r
    BY <1>2, <2>1, LeastOf
  <2>3. pg \in w.free
    BY <2>2
  <2>4. Kalloc(w, slot, c) = [w EXCEPT !.free = @ \ {pg}, !.mem[pg] = c, !.pt = Put(@, slot, pg)]
    BY <1>2 DEF Kalloc
  <2> HIDE DEF pg
  <2> QED
    BY <2>3, <2>4
<1> QED
  BY <1>1, <1>2

\* v is w with a page taken from the pool, its content c and a table t.
Took(w, v, pg, c, t) ==
    /\ v \in Works /\ pg \in w.free /\ v.free = w.free \ {pg} /\ v.pt = t /\ v.ok = w.ok /\ v.panic = w.panic
    /\ v.mem = [w.mem EXCEPT ![pg] = c]

\* The fields of a work record after kalloc.
LEMMA TookIs ==
    ASSUME NEW w \in Works, NEW pg \in w.free, NEW c \in Contents, NEW t \in Tables
    PROVE  Took(w, [w EXCEPT !.free = w.free \ {pg}, !.mem[pg] = c, !.pt = t], pg, c, t)
<1> DEFINE v == [w EXCEPT !.free = w.free \ {pg}, !.mem[pg] = c, !.pt = t]
<1>1. w.free \subseteq Pages /\ w.mem \in [Pages -> Contents] /\ w.ok \in BOOLEAN /\ w.panic \in BOOLEAN
  BY DEF Works
<1>2. v.free = w.free \ {pg} /\ v.mem = [w.mem EXCEPT ![pg] = c] /\ v.pt = t /\ v.ok = w.ok /\ v.panic = w.panic
  BY DEF Works
<1>3. [w.mem EXCEPT ![pg] = c] \in [Pages -> Contents]
  BY <1>1
<1> DEFINE m == [w.mem EXCEPT ![pg] = c]
<1>4. v = [w EXCEPT !.free = w.free \ {pg}, !.mem = m, !.pt = t]
  BY DEF Works
<1>5. v \in Works
  <2> HIDE DEF m, v
  <2>1. m \in [Pages -> Contents]
    BY <1>3 DEF m
  <2> QED
    BY <1>1, <1>4, <2>1 DEF Works
<1> QED
  BY <1>2, <1>5 DEF Took

\* kalloc into a slot that is not mapped yet.
LEMMA KallocWhole ==
    ASSUME NEW w, NEW O, Whole(w, O), w.ok, NEW slot \in PtSlots, slot \notin DOMAIN w.pt, slot \notin Mapped, NEW c \in Contents,
           NEW v, v = Kalloc(w, slot, c)
    PROVE  /\ Whole(v, O) /\ Kept(w, v, O)
           /\ v.ok => DOMAIN v.pt = DOMAIN w.pt \union {slot} /\ v.mem[v.pt[slot]] = c /\ v.pt[slot] \in w.free
           /\ ~v.ok => v.pt = w.pt
<1>1. w \in Works /\ O \subseteq Pages /\ O \intersect w.free = {} /\ Distinct(w.pt) /\ Owned(w.pt) = Pages \ (w.free \union O)
  BY DEF Whole
<1>2. w.pt \in Tables /\ w.free \subseteq Pages /\ w.mem \in [Pages -> Contents] /\ Pages \subseteq Nat
  BY <1>1, MemoryAssumption DEF Works, Pages
<1>3. CASE w.free = {} /\ v = [w EXCEPT !.ok = FALSE]
  <2>1. v \in Works /\ v.free = w.free /\ v.mem = w.mem /\ v.pt = w.pt /\ v.panic = w.panic /\ ~v.ok
    BY <1>1, <1>3 DEF Works
  <2> QED
    BY <1>1, <2>1 DEF Whole, Kept
<1>4. CASE \E pg \in w.free : v = [w EXCEPT !.free = w.free \ {pg}, !.mem[pg] = c, !.pt = Put(w.pt, slot, pg)]
  <2>1. PICK pg \in w.free : v = [w EXCEPT !.free = w.free \ {pg}, !.mem[pg] = c, !.pt = Put(w.pt, slot, pg)]
    BY <1>4
  <2> DEFINE t == Put(w.pt, slot, pg)
  <2>2. /\ t \in Tables /\ DOMAIN t = DOMAIN w.pt \union {slot}
        /\ t[slot] = pg /\ \A s \in DOMAIN w.pt : s # slot => t[s] = w.pt[s]
    BY <1>2, PutIs
  <2> HIDE DEF t
  <2>3. Took(w, v, pg, c, t)
    <3>1. v = [w EXCEPT !.free = w.free \ {pg}, !.mem[pg] = c, !.pt = t]
      BY <2>1 DEF t
    <3>2. Took(w, [w EXCEPT !.free = w.free \ {pg}, !.mem[pg] = c, !.pt = t], pg, c, t)
      BY <1>1, <2>2, TookIs
    <3> QED
      BY <3>1, <3>2
  <2>4. v \in Works /\ v.free = w.free \ {pg} /\ v.pt = t /\ v.ok = w.ok /\ v.panic = w.panic /\ v.mem = [w.mem EXCEPT ![pg] = c]
    BY <2>3 DEF Took
  <2>5. Own(t) = Own(w.pt) \union {slot}
    BY <2>2 DEF Own
  <2>6. \A s \in Own(w.pt) : t[s] = w.pt[s] /\ w.pt[s] # pg /\ s # slot /\ w.pt[s] \in Pages
    <3>1. \A s \in Own(w.pt) : w.pt[s] \in Pages \ (w.free \union O)
      BY <1>1 DEF Owned
    <3> QED
      BY <2>2, <3>1 DEF Own
  <2>7. Distinct(t)
    BY <1>1, <2>2, <2>5, <2>6 DEF Distinct
  <2>8. Owned(t) = Owned(w.pt) \union {pg}
    BY <2>2, <2>5, <2>6 DEF Owned
  <2>9. Owned(t) = Pages \ (v.free \union O)
    BY <1>1, <1>2, <2>4, <2>8
  <2>10. Whole(v, O)
    BY <1>1, <2>4, <2>7, <2>9 DEF Whole
  <2>11. \A q \in Pages : q # pg => v.mem[q] = w.mem[q]
    BY <1>2, <2>4
  <2>12. \A s \in DOMAIN w.pt : v.pt[s] = w.pt[s]
    BY <2>2, <2>4
  <2>13. \A q \in O : v.mem[q] = w.mem[q]
    BY <1>1, <2>11
  <2>14. \A s \in DOMAIN w.pt : s \notin Mapped => v.mem[v.pt[s]] = w.mem[w.pt[s]]
    BY <2>6, <2>11, <2>12 DEF Own
  <2>15. Kept(w, v, O)
    BY <2>4, <2>12, <2>13, <2>14 DEF Kept
  <2>16. v.mem[v.pt[slot]] = c /\ v.pt[slot] \in w.free
    BY <1>2, <2>2, <2>4
  <2> QED
    BY <2>2, <2>4, <2>10, <2>15, <2>16
<1> QED
  BY <1>1, <1>3, <1>4, KallocIs

\* A page taken from the pool is held elsewhere.
LEMMA TakePage ==
    ASSUME NEW w, NEW O, Whole(w, O), w.ok, NEW c \in Contents, NEW f, f = Kalloc(w, Spare, c)
    PROVE  /\ f.ok \in BOOLEAN
           /\ f.ok => LET pg == f.pt[Spare]
                          v == [f EXCEPT !.pt = w.pt]
                      IN /\ pg \in w.free /\ Whole(v, O \union {pg}) /\ Kept(w, v, O) /\ v.mem[pg] = c /\ v.ok /\ v.pt = w.pt
           /\ ~f.ok => f = [w EXCEPT !.ok = FALSE] /\ Whole(f, O) /\ Kept(w, f, O) /\ f.pt = w.pt
<1>1. w \in Works /\ O \subseteq Pages /\ O \intersect w.free = {} /\ Distinct(w.pt) /\ Owned(w.pt) = Pages \ (w.free \union O)
  BY DEF Whole
<1>2. w.pt \in Tables /\ w.free \subseteq Pages /\ w.mem \in [Pages -> Contents] /\ Pages \subseteq Nat
  BY <1>1, MemoryAssumption DEF Works, Pages
<1>3. CASE w.free = {} /\ f = [w EXCEPT !.ok = FALSE]
  <2>1. f \in Works /\ f.free = w.free /\ f.mem = w.mem /\ f.pt = w.pt /\ f.panic = w.panic /\ f.ok = FALSE
    BY <1>1, <1>3 DEF Works
  <2> QED
    BY <1>1, <1>3, <2>1 DEF Whole, Kept
<1>4. CASE \E pg \in w.free : f = [w EXCEPT !.free = w.free \ {pg}, !.mem[pg] = c, !.pt = Put(w.pt, Spare, pg)]
  <2>1. PICK pg \in w.free : f = [w EXCEPT !.free = w.free \ {pg}, !.mem[pg] = c, !.pt = Put(w.pt, Spare, pg)]
    BY <1>4
  <2> DEFINE t == Put(w.pt, Spare, pg)
             v == [f EXCEPT !.pt = w.pt]
  <2>2. t \in Tables /\ t[Spare] = pg
    BY <1>2, PutIs, SlotNames
  <2> HIDE DEF t
  <2>3. Took(w, f, pg, c, t)
    <3>1. f = [w EXCEPT !.free = w.free \ {pg}, !.mem[pg] = c, !.pt = t]
      BY <2>1 DEF t
    <3>2. Took(w, [w EXCEPT !.free = w.free \ {pg}, !.mem[pg] = c, !.pt = t], pg, c, t)
      BY <1>1, <2>2, TookIs
    <3> QED
      BY <3>1, <3>2
  <2>4. f \in Works /\ f.free = w.free \ {pg} /\ f.pt = t /\ f.ok = w.ok /\ f.panic = w.panic /\ f.mem = [w.mem EXCEPT ![pg] = c]
    BY <2>3 DEF Took
  <2>5. v \in Works /\ v.free = f.free /\ v.pt = w.pt /\ v.ok = w.ok /\ v.panic = w.panic /\ v.mem = f.mem
    BY <1>2, <2>4 DEF Works
  <2> HIDE DEF v
  <2>6. Whole(v, O \union {pg})
    <3>1. O \union {pg} \subseteq Pages /\ (O \union {pg}) \intersect v.free = {} /\ v.free \union (O \union {pg}) = w.free \union O
      BY <1>1, <1>2, <2>4, <2>5
    <3> QED
      BY <1>1, <2>5, <3>1 DEF Whole
  <2>7. \A q \in Pages : q # pg => v.mem[q] = w.mem[q]
    BY <1>2, <2>4, <2>5
  <2>8. \A s \in DOMAIN w.pt : s \notin Mapped => w.pt[s] \in Pages /\ w.pt[s] # pg
    BY <1>1 DEF Owned, Own
  <2>9. Kept(w, v, O)
    BY <1>1, <2>5, <2>7, <2>8 DEF Kept
  <2>10. v.mem[pg] = c
    BY <1>2, <2>4, <2>5
  <2> QED
    BY <2>2, <2>4, <2>5, <2>6, <2>9, <2>10 DEF v
<1>5. Spare \in PtSlots
  BY SlotNames
<1> QED
  BY <1>1, <1>3, <1>4, <1>5, KallocIs

\* The fields after kfree.
LEMMA KfreeIs ==
    ASSUME NEW w \in Works, NEW D \in SUBSET Pages, NEW v, v = Kfree(w, D)
    PROVE  /\ v \in Works /\ v.free = w.free \union D /\ v.pt = w.pt /\ v.ok = w.ok /\ v.panic = w.panic
           /\ \A pg \in Pages \ D : v.mem[pg] = w.mem[pg]
<1> DEFINE m == [pg \in Pages |-> IF pg \in D THEN "freed" ELSE w.mem[pg]]
<1>1. v = [w EXCEPT !.free = w.free \union D, !.mem = m]
  BY DEF Kfree, Works
<1>2. m \in [Pages -> Contents] /\ \A pg \in Pages \ D : m[pg] = w.mem[pg]
  <2>1. w.mem \in [Pages -> Contents] /\ "freed" \in Contents
    BY DEF Works, Contents
  <2>2. \A pg \in Pages : m[pg] \in Contents
    BY <2>1
  <2> QED
    BY <2>2
<1> HIDE DEF m
<1> QED
  BY <1>1, <1>2 DEF Works

\* kfree of pages held elsewhere.
LEMMA KfreeWhole ==
    ASSUME NEW w, NEW O, Whole(w, O), NEW D \in SUBSET O, NEW v, v = Kfree(w, D)
    PROVE  Whole(v, O \ D) /\ Kept(w, v, O \ D) /\ v.pt = w.pt /\ v.ok = w.ok
<1>1. w \in Works /\ O \subseteq Pages /\ O \intersect w.free = {} /\ Distinct(w.pt) /\ Owned(w.pt) = Pages \ (w.free \union O)
  BY DEF Whole
<1>2. /\ v \in Works /\ v.free = w.free \union D /\ v.pt = w.pt /\ v.ok = w.ok /\ v.panic = w.panic
      /\ \A pg \in Pages \ D : v.mem[pg] = w.mem[pg]
  BY <1>1, KfreeIs
<1>3. (O \ D) \intersect v.free = {} /\ v.free \union (O \ D) = w.free \union O
  BY <1>1, <1>2
<1>4. Whole(v, O \ D)
  BY <1>1, <1>2, <1>3 DEF Whole
<1>5. \A s \in DOMAIN w.pt : s \notin Mapped => w.pt[s] \in Pages \ D
  BY <1>1 DEF Owned, Own
<1>6. Kept(w, v, O \ D)
  BY <1>1, <1>2, <1>5 DEF Kept
<1> QED
  BY <1>2, <1>4, <1>6

\* Steps compose.
LEMMA KeptTrans ==
    ASSUME NEW u, NEW v, NEW w, NEW O, NEW O2 \in SUBSET O, Kept(u, v, O), Kept(v, w, O2),
           DOMAIN u.pt \intersect DOMAIN w.pt \subseteq DOMAIN v.pt
    PROVE  Kept(u, w, O2)
BY DEF Kept

\* Where walk puts page-table pages.
TableSlots == {"low1", "low0", "high1", "high0"} \X Nat

\* Page-table pages were added, nothing else.
Grown(w, v, O) ==
    Whole(v, O) /\ Kept(w, v, O) /\ DOMAIN w.pt \subseteq DOMAIN v.pt /\ Leaves(v.pt) = Leaves(w.pt)

\* walk passes through page-table pages.
LEMMA TablesOfIs ==
    ASSUME NEW slot \in PtSlots
    PROVE  TablesOf(slot)[1] \in TableSlots /\ TablesOf(slot)[2] \in TableSlots
<1>1. slot[2] \in Nat /\ PTES \in Nat \ {0}
  BY MemoryAssumption DEF PtSlots
<1>2. slot[2] \div PTES \in Nat
  BY <1>1
<1> QED
  BY <1>2 DEF TablesOf, TableSlots

\* The slots of page-table pages.
LEMMA TableSlotIs ==
    ASSUME NEW t \in TableSlots
    PROVE  t \in PtSlots /\ t \notin Mapped /\ t[1] \notin {"user", "trampoline", "trapframe"}
<1>1. t[1] \in {"low1", "low0", "high1", "high0"} /\ t[2] \in Nat /\ t = <<t[1], t[2]>>
  BY DEF TableSlots
<1>2. t[1] \notin {"user", "trampoline", "trapframe"}
  BY <1>1
<1>3. t \in PtSlots
  BY <1>1 DEF PtSlots
<1>4. t \notin Mapped
  BY <1>2, SlotNames DEF Mapped
<1> QED
  BY <1>2, <1>3, <1>4

\* Nothing happened.
LEMMA GrownSelf == ASSUME NEW w, NEW O, Whole(w, O) PROVE Grown(w, w, O)
BY DEF Grown, Kept

\* Steps that only add page-table pages compose.
LEMMA GrownTrans ==
    ASSUME NEW u, NEW v, NEW w, NEW O, Grown(u, v, O), Grown(v, w, O)
    PROVE  Grown(u, w, O)
<1>1. Kept(u, v, O) /\ Kept(v, w, O) /\ DOMAIN u.pt \subseteq DOMAIN v.pt
  BY DEF Grown
<1>2. Kept(u, w, O)
  BY <1>1, KeptTrans
<1> QED
  BY <1>2 DEF Grown

\* One level of walk.
LEMMA AddTableWhole ==
    ASSUME NEW w, NEW O, Whole(w, O), NEW t \in TableSlots
    PROVE  Grown(w, AddTable(w, t), O)
<1> DEFINE v == AddTable(w, t)
<1>1. CASE ~w.ok \/ t \in DOMAIN w.pt
  <2>1. v = w
    BY <1>1 DEF AddTable
  <2> QED
    BY <2>1, GrownSelf
<1>2. CASE w.ok /\ t \notin DOMAIN w.pt
  <2>1. v = Kalloc(w, t, "table") /\ "table" \in Contents
    BY <1>2 DEF AddTable, Contents
  <2> HIDE DEF v
  <2>2. t \in PtSlots /\ t \notin Mapped /\ t[1] \notin {"user", "trampoline", "trapframe"}
    BY TableSlotIs
  <2>3. /\ Whole(v, O) /\ Kept(w, v, O)
        /\ v.ok => DOMAIN v.pt = DOMAIN w.pt \union {t}
        /\ ~v.ok => v.pt = w.pt
    BY <1>2, <2>1, <2>2, KallocWhole
  <2>4. DOMAIN v.pt = DOMAIN w.pt \union {t} => Leaves(v.pt) = Leaves(w.pt)
    BY <2>2 DEF Leaves
  <2> QED
    BY <2>3, <2>4 DEF Grown, v
<1> QED
  BY <1>1, <1>2

\* walk adds what is missing.
LEMMA WalkWhole ==
    ASSUME NEW w, NEW O, Whole(w, O), NEW slot \in PtSlots
    PROVE  Grown(w, WalkAlloc(w, slot), O)
<1> DEFINE u == AddTable(w, TablesOf(slot)[1])
           v == AddTable(u, TablesOf(slot)[2])
<1>1. TablesOf(slot)[1] \in TableSlots /\ TablesOf(slot)[2] \in TableSlots
  BY TablesOfIs
<1>2. Grown(w, u, O)
  BY <1>1, AddTableWhole
<1>3. Whole(u, O)
  BY <1>2 DEF Grown
<1> HIDE DEF u
<1>4. Grown(u, v, O)
  BY <1>1, <1>3, AddTableWhole
<1>5. WalkAlloc(w, slot) = v
  BY DEF WalkAlloc, u
<1> QED
  BY <1>2, <1>4, <1>5, GrownTrans

\* One entry more, and nothing else.
MapsAt(w, v, slot, page) == v = [w EXCEPT !.pt = Put(@, slot, page)]

\* The same, field by field.
PutIn(w, v, slot, page) ==
    /\ v \in Works /\ v.free = w.free /\ v.mem = w.mem /\ v.ok = w.ok /\ v.panic = w.panic
    /\ DOMAIN v.pt = DOMAIN w.pt \union {slot}
    /\ v.pt[slot] = page /\ \A s \in DOMAIN w.pt : s # slot => v.pt[s] = w.pt[s]

\* An entry put into the table of a work record.
LEMMA PutRecord ==
    ASSUME NEW w \in Works, NEW slot \in PtSlots, NEW page \in Nat, NEW v, MapsAt(w, v, slot, page)
    PROVE  PutIn(w, v, slot, page)
<1>1. w.pt \in Tables
  BY DEF Works
<1> DEFINE t == Put(w.pt, slot, page)
<1>2. t \in Tables /\ DOMAIN t = DOMAIN w.pt \union {slot} /\ t[slot] = page /\ \A s \in DOMAIN w.pt : s # slot => t[s] = w.pt[s]
  BY <1>1, PutIs
<1>3. v = [w EXCEPT !.pt = t]
  BY DEF Works, MapsAt
<1> HIDE DEF t
<1>4. v \in Works /\ v.free = w.free /\ v.mem = w.mem /\ v.ok = w.ok /\ v.panic = w.panic /\ v.pt = t
  BY <1>2, <1>3 DEF Works
<1> QED
  BY <1>2, <1>4 DEF PutIn

\* mappages of trampoline and trapframe.
LEMMA MapMapped ==
    ASSUME NEW w, NEW O, Whole(w, O), w.ok, NEW slot \in Mapped, slot \notin DOMAIN w.pt, NEW page \in Nat,
           NEW v, v = MapPage(w, slot, page)
    PROVE  /\ Whole(v, O) /\ Kept(w, v, O) /\ DOMAIN w.pt \subseteq DOMAIN v.pt
           /\ v.ok => v.pt[slot] = page /\ Leaves(v.pt) = Leaves(w.pt) \union {slot}
           /\ ~v.ok => Leaves(v.pt) = Leaves(w.pt)
<1> DEFINE u == WalkAlloc(w, slot)
<1>1. slot \in PtSlots /\ slot[1] \in {"trampoline", "trapframe"}
  BY SlotNames DEF Mapped
<1>2. Grown(w, u, O)
  BY <1>1, WalkWhole
<1>3. v = IF ~u.ok THEN u ELSE IF slot \in DOMAIN u.pt THEN [u EXCEPT !.panic = TRUE] ELSE [u EXCEPT !.pt = Put(@, slot, page)]
  BY DEF MapPage
<1> HIDE DEF u
<1>4. Whole(u, O) /\ Kept(w, u, O) /\ DOMAIN w.pt \subseteq DOMAIN u.pt /\ Leaves(u.pt) = Leaves(w.pt)
  BY <1>2 DEF Grown
<1>5. CASE ~u.ok
  BY <1>3, <1>4, <1>5
<1>6. CASE u.ok
  <2>1. slot \notin DOMAIN u.pt
    BY <1>1, <1>4 DEF Leaves
  <2>2. MapsAt(u, v, slot, page)
    BY <1>3, <1>6, <2>1 DEF MapsAt
  <2>3. u \in Works
    BY <1>4 DEF Whole
  <2>4. /\ v \in Works /\ v.free = u.free /\ v.mem = u.mem /\ v.ok = u.ok /\ v.panic = u.panic
        /\ DOMAIN v.pt = DOMAIN u.pt \union {slot}
        /\ v.pt[slot] = page /\ \A s \in DOMAIN u.pt : s # slot => v.pt[s] = u.pt[s]
    <3>1. PutIn(u, v, slot, page)
      BY <1>1, <2>2, <2>3, PutRecord
    <3> QED
      BY <3>1 DEF PutIn
  <2>5. Own(v.pt) = Own(u.pt)
    BY <2>4 DEF Own
  <2>6. \A s \in Own(u.pt) : v.pt[s] = u.pt[s]
    BY <2>4 DEF Own
  <2>7. Distinct(v.pt) /\ Owned(v.pt) = Owned(u.pt)
    BY <1>4, <2>5, <2>6 DEF Whole, Distinct, Owned
  <2>8. Whole(v, O)
    BY <1>4, <2>4, <2>7 DEF Whole
  <2>9. Kept(u, v, O)
    BY <2>1, <2>4 DEF Kept
  <2>10. Kept(w, v, O)
    BY <1>4, <2>9, KeptTrans
  <2>11. Leaves(v.pt) = Leaves(w.pt) \union {slot}
    BY <1>1, <1>4, <2>4 DEF Leaves
  <2> QED
    BY <1>4, <1>6, <2>4, <2>8, <2>10, <2>11
<1> QED
  BY <1>5, <1>6

\* mappages of a page held elsewhere.
LEMMA MapUser ==
    ASSUME NEW w, NEW O, Whole(w, O), w.ok, NEW n \in Nat, User(n) \notin DOMAIN w.pt, NEW page \in O,
           NEW v, v = MapPage(w, User(n), page)
    PROVE  /\ Kept(w, v, O) /\ DOMAIN w.pt \subseteq DOMAIN v.pt
           /\ v.ok => Whole(v, O \ {page}) /\ v.pt[User(n)] = page /\ Leaves(v.pt) = Leaves(w.pt) \union {User(n)}
           /\ ~v.ok => Whole(v, O) /\ Leaves(v.pt) = Leaves(w.pt)
<1> DEFINE slot == User(n)
           u == WalkAlloc(w, slot)
<1>1. slot \in PtSlots /\ slot[1] = "user" /\ slot \notin Mapped
  BY SlotNames
<1>2. Grown(w, u, O)
  BY <1>1, WalkWhole
<1>3. v = IF ~u.ok THEN u ELSE IF slot \in DOMAIN u.pt THEN [u EXCEPT !.panic = TRUE] ELSE [u EXCEPT !.pt = Put(@, slot, page)]
  BY DEF MapPage
<1> HIDE DEF u, slot
<1>4. Whole(u, O) /\ Kept(w, u, O) /\ DOMAIN w.pt \subseteq DOMAIN u.pt /\ Leaves(u.pt) = Leaves(w.pt)
  BY <1>2 DEF Grown
<1>5. CASE ~u.ok
  BY <1>3, <1>4, <1>5
<1>6. CASE u.ok
  <2>0. slot \notin DOMAIN w.pt
    BY DEF slot
  <2>1. slot \notin DOMAIN u.pt
    BY <1>1, <1>4, <2>0 DEF Leaves
  <2>2. MapsAt(u, v, slot, page)
    BY <1>3, <1>6, <2>1 DEF MapsAt
  <2>3. u \in Works /\ O \subseteq Pages /\ O \intersect u.free = {} /\ Distinct(u.pt) /\ Owned(u.pt) = Pages \ (u.free \union O)
    BY <1>4 DEF Whole
  <2>4. page \in Nat /\ page \in Pages
    BY <2>3, MemoryAssumption DEF Pages
  <2>5. /\ v \in Works /\ v.free = u.free /\ v.mem = u.mem /\ v.ok = u.ok /\ v.panic = u.panic
        /\ DOMAIN v.pt = DOMAIN u.pt \union {slot}
        /\ v.pt[slot] = page /\ \A s \in DOMAIN u.pt : s # slot => v.pt[s] = u.pt[s]
    <3>1. PutIn(u, v, slot, page)
      BY <1>1, <2>2, <2>3, <2>4, PutRecord
    <3> QED
      BY <3>1 DEF PutIn
  <2>6. Own(v.pt) = Own(u.pt) \union {slot}
    BY <1>1, <2>5 DEF Own
  <2>7. \A s \in Own(u.pt) : v.pt[s] = u.pt[s] /\ u.pt[s] # page
    <3>1. \A s \in Own(u.pt) : u.pt[s] \notin O
      BY <2>3 DEF Owned
    <3> QED
      BY <2>1, <2>5, <3>1 DEF Own
  <2>8. Distinct(v.pt)
    BY <2>3, <2>5, <2>6, <2>7 DEF Distinct
  <2>9. Owned(v.pt) = Owned(u.pt) \union {page}
    BY <2>5, <2>6, <2>7 DEF Owned
  <2>10. Owned(v.pt) = Pages \ (v.free \union (O \ {page}))
    BY <2>3, <2>4, <2>5, <2>9
  <2>11. Whole(v, O \ {page})
    BY <2>3, <2>5, <2>8, <2>10 DEF Whole
  <2>12. Kept(u, v, O)
    BY <2>1, <2>5 DEF Kept
  <2>13. Kept(w, v, O)
    BY <1>4, <2>12, KeptTrans
  <2>14. Leaves(v.pt) = Leaves(w.pt) \union {slot}
    BY <1>1, <1>4, <2>5 DEF Leaves
  <2> QED
    BY <1>4, <1>6, <2>5, <2>11, <2>13, <2>14 DEF slot
<1> QED
  BY <1>5, <1>6

\* A turn of uvmalloc or of uvmcopy: a page and its mapping, or neither.
LEMMA AddPageWhole ==
    ASSUME NEW w, NEW O, Whole(w, O), w.ok, NEW n \in Nat, User(n) \notin DOMAIN w.pt, NEW c \in Contents,
           NEW v, v = AddPage(w, n, c)
    PROVE  /\ Whole(v, O) /\ Kept(w, v, O) /\ DOMAIN w.pt \subseteq DOMAIN v.pt
           /\ v.ok => v.mem[v.pt[User(n)]] = c /\ Leaves(v.pt) = Leaves(w.pt) \union {User(n)}
           /\ ~v.ok => Leaves(v.pt) = Leaves(w.pt)
<1> DEFINE f == Kalloc(w, Spare, c)
           pg == f.pt[Spare]
           g == [f EXCEPT !.pt = w.pt]
           m == MapPage(g, User(n), pg)
<1>1. /\ f.ok \in BOOLEAN
      /\ f.ok => pg \in w.free /\ Whole(g, O \union {pg}) /\ Kept(w, g, O) /\ g.mem[pg] = c /\ g.ok /\ g.pt = w.pt
      /\ ~f.ok => Whole(f, O) /\ Kept(w, f, O) /\ f.pt = w.pt
  BY TakePage
<1>2. v = IF ~f.ok THEN f ELSE IF m.ok THEN m ELSE Kfree(m, {pg})
  BY DEF AddPage
<1>3. CASE ~f.ok
  BY <1>1, <1>2, <1>3
<1>4. CASE f.ok
  <2>1. pg \in w.free /\ Whole(g, O \union {pg}) /\ Kept(w, g, O) /\ g.mem[pg] = c /\ g.ok /\ g.pt = w.pt
    BY <1>1, <1>4
  <2> HIDE DEF f, pg, g
  <2> DEFINE P == O \union {pg}
  <2>2. pg \notin O
    BY <2>1 DEF Whole
  <2>3. P \ {pg} = O /\ pg \in P /\ Whole(g, P)
    BY <2>1, <2>2
  <2> HIDE DEF P
  <2>4. /\ Kept(g, m, P) /\ DOMAIN g.pt \subseteq DOMAIN m.pt
        /\ m.ok => Whole(m, P \ {pg}) /\ m.pt[User(n)] = pg /\ Leaves(m.pt) = Leaves(g.pt) \union {User(n)}
        /\ ~m.ok => Whole(m, P) /\ Leaves(m.pt) = Leaves(g.pt)
    BY <2>1, <2>3, MapUser
  <2> HIDE DEF m
  <2>5. O \subseteq P
    BY <2>3
  <2>6. Kept(g, m, O) /\ m.mem[pg] = c
    BY <2>1, <2>3, <2>4, <2>5 DEF Kept
  <2>7. Kept(w, m, O)
    BY <2>1, <2>4, <2>6, KeptTrans
  <2>8. CASE m.ok
    BY <1>2, <1>4, <2>1, <2>3, <2>4, <2>6, <2>7, <2>8
  <2>9. CASE ~m.ok
    <3>1. v = Kfree(m, {pg}) /\ {pg} \in SUBSET P
      BY <1>2, <1>4, <2>3, <2>9
    <3>2. Whole(v, P \ {pg}) /\ Kept(m, v, P \ {pg}) /\ v.pt = m.pt /\ v.ok = m.ok
      BY <2>4, <2>9, <3>1, KfreeWhole
    <3>3. Kept(w, v, O)
      BY <2>3, <2>7, <3>2, KeptTrans
    <3> QED
      BY <2>1, <2>3, <2>4, <2>9, <3>2, <3>3
  <2> QED
    BY <2>8, <2>9
<1> QED
  BY <1>1, <1>3, <1>4

\* The entries S are gone, and nothing else.
Cut(w, v, O, S) ==
    /\ Whole(v, O) /\ Kept(w, v, O) /\ v.ok = w.ok
    /\ DOMAIN v.pt = DOMAIN w.pt \ S /\ Leaves(v.pt) = Leaves(w.pt) \ S
Gone(w, v, O) == Whole(v, O) /\ Kept(w, v, O) /\ v.ok = w.ok /\ v.pt = Nothing

\* uvmunmap that frees what was mapped.
LEMMA UnmapFrees ==
    ASSUME NEW w, NEW O, Whole(w, O), NEW S, S \subseteq Own(w.pt)
    PROVE  Cut(w, Unmap(w, S, TRUE), O, S)
<1> DEFINE D == {w.pt[s] : s \in S}
           u == Kfree(w, D)
           v == Unmap(w, S, TRUE)
           t == Without(w.pt, S)
<1>1. w \in Works /\ O \subseteq Pages /\ O \intersect w.free = {} /\ Distinct(w.pt) /\ Owned(w.pt) = Pages \ (w.free \union O)
  BY DEF Whole
<1>2. S \subseteq DOMAIN w.pt /\ S \intersect DOMAIN w.pt = S
  BY DEF Own
<1>3. D \subseteq Owned(w.pt)
  BY DEF Owned
<1>4. /\ u \in Works /\ u.free = w.free \union D /\ u.pt = w.pt /\ u.ok = w.ok /\ u.panic = w.panic
      /\ \A pg \in Pages \ D : u.mem[pg] = w.mem[pg]
  <2>1. D \in SUBSET Pages
    BY <1>1, <1>3
  <2> HIDE DEF D
  <2> QED
    BY <1>1, <2>1, KfreeIs
<1>5. v = [u EXCEPT !.pt = t, !.panic = u.panic]
  <2>1. v = [u EXCEPT !.pt = Without(@, S), !.panic = @ \/ ~(S \subseteq DOMAIN w.pt)]
    BY <1>2 DEF Unmap
  <2> HIDE DEF u, v
  <2> QED
    BY <1>2, <1>4, <2>1 DEF Works
<1>6. t \in Tables /\ DOMAIN t = DOMAIN w.pt \ S /\ \A s \in DOMAIN w.pt \ S : t[s] = w.pt[s]
  BY <1>1, WithoutIs DEF Works
<1> HIDE DEF u, v, t
<1>7. v \in Works /\ v.free = w.free \union D /\ v.pt = t /\ v.ok = w.ok /\ v.panic = w.panic /\ v.mem = u.mem
  BY <1>4, <1>5, <1>6 DEF Works
<1>8. Own(t) = Own(w.pt) \ S /\ \A s \in Own(t) : t[s] = w.pt[s] /\ t[s] \notin D
  <2>1. Own(t) = Own(w.pt) \ S
    BY <1>6 DEF Own
  <2>2. \A s \in Own(t) : t[s] = w.pt[s]
    BY <1>6 DEF Own
  <2>3. \A s \in Own(t) : w.pt[s] \notin D
    BY <1>1, <2>1 DEF Distinct
  <2> QED
    BY <2>1, <2>2, <2>3
<1>9. Distinct(t)
  BY <1>1, <1>8 DEF Distinct
<1>10. Owned(t) = Owned(w.pt) \ D
  <2>1. ASSUME NEW pg \in Owned(w.pt) \ D PROVE pg \in Owned(t)
    <3>1. PICK s \in Own(w.pt) : pg = w.pt[s]
      BY <2>1 DEF Owned
    <3>2. s \notin S
      BY <2>1, <3>1
    <3> QED
      BY <1>8, <3>1, <3>2 DEF Owned
  <2>2. ASSUME NEW pg \in Owned(t) PROVE pg \in Owned(w.pt) \ D
    BY <1>8, <2>2 DEF Owned
  <2> QED
    BY <2>1, <2>2
<1> HIDE DEF D
<1>11. Whole(v, O)
  <2>1. Owned(t) = Pages \ (v.free \union O) /\ O \intersect v.free = {}
    BY <1>1, <1>3, <1>7, <1>10
  <2> QED
    BY <1>1, <1>7, <1>9, <2>1 DEF Whole
<1>12. Kept(w, v, O)
  <2>1. \A pg \in O : v.mem[pg] = w.mem[pg]
    BY <1>1, <1>3, <1>4, <1>7
  <2>2. \A s \in Own(t) : w.pt[s] \in Pages \ D
    BY <1>1, <1>8 DEF Owned
  <2>3. \A s \in DOMAIN t : s \notin Mapped => v.mem[v.pt[s]] = w.mem[w.pt[s]]
    BY <1>4, <1>7, <1>8, <2>2 DEF Own
  <2> QED
    BY <1>6, <1>7, <2>1, <2>3 DEF Kept
<1>13. Leaves(t) = Leaves(w.pt) \ S
  BY <1>6 DEF Leaves
<1> QED
  BY <1>6, <1>7, <1>11, <1>12, <1>13 DEF Cut, v

\* uvmunmap of trampoline and trapframe.
LEMMA UnmapKeeps ==
    ASSUME NEW w, NEW O, Whole(w, O), NEW S, S \subseteq Mapped, S \subseteq DOMAIN w.pt
    PROVE  Cut(w, Unmap(w, S, FALSE), O, S)
<1> DEFINE v == Unmap(w, S, FALSE)
           t == Without(w.pt, S)
<1>1. w \in Works /\ O \subseteq Pages /\ O \intersect w.free = {} /\ Distinct(w.pt) /\ Owned(w.pt) = Pages \ (w.free \union O)
  BY DEF Whole
<1>2. S \intersect DOMAIN w.pt = S
  OBVIOUS
<1>5. v = [w EXCEPT !.pt = t, !.panic = w.panic]
  <2>1. v = [w EXCEPT !.pt = Without(@, S), !.panic = @ \/ ~(S \subseteq DOMAIN w.pt)]
    BY <1>2 DEF Unmap
  <2> HIDE DEF v
  <2> QED
    BY <1>1, <2>1 DEF Works
<1>6. t \in Tables /\ DOMAIN t = DOMAIN w.pt \ S /\ \A s \in DOMAIN w.pt \ S : t[s] = w.pt[s]
  BY <1>1, WithoutIs DEF Works
<1> HIDE DEF v, t
<1>7. v \in Works /\ v.free = w.free /\ v.pt = t /\ v.ok = w.ok /\ v.panic = w.panic /\ v.mem = w.mem
  BY <1>1, <1>5, <1>6 DEF Works
<1>8. Own(t) = Own(w.pt) /\ \A s \in Own(t) : t[s] = w.pt[s]
  BY <1>6 DEF Own
<1>9. Distinct(t) /\ Owned(t) = Owned(w.pt)
  BY <1>1, <1>8 DEF Distinct, Owned
<1>10. Whole(v, O)
  BY <1>1, <1>7, <1>9 DEF Whole
<1>11. Kept(w, v, O)
  BY <1>6, <1>7 DEF Kept
<1>12. Leaves(t) = Leaves(w.pt) \ S
  BY <1>6 DEF Leaves
<1> QED
  BY <1>6, <1>7, <1>10, <1>11, <1>12 DEF Cut, v

\* freewalk of a table without leaves frees all of it.
LEMMA FreeWalkFrees ==
    ASSUME NEW w, NEW O, Whole(w, O), Leaves(w.pt) = {}
    PROVE  Gone(w, FreeWalk(w), O)
<1> DEFINE D == {w.pt[s] : s \in DOMAIN w.pt \ Leaves(w.pt)}
           u == Kfree(w, D)
           v == FreeWalk(w)
<1>1. w \in Works /\ O \subseteq Pages /\ O \intersect w.free = {} /\ Owned(w.pt) = Pages \ (w.free \union O)
  BY DEF Whole
<1>2. Own(w.pt) = DOMAIN w.pt
  BY SlotNames DEF Own, Leaves, Mapped
<1>3. D = Owned(w.pt)
  BY <1>2 DEF Owned
<1>4. /\ u \in Works /\ u.free = w.free \union D /\ u.pt = w.pt /\ u.ok = w.ok /\ u.panic = w.panic
      /\ \A pg \in Pages \ D : u.mem[pg] = w.mem[pg]
  <2>1. D \in SUBSET Pages
    BY <1>1, <1>3
  <2> HIDE DEF D
  <2> QED
    BY <1>1, <2>1, KfreeIs
<1>5. v = [u EXCEPT !.pt = Nothing, !.panic = u.panic]
  <2>1. v = [u EXCEPT !.pt = Nothing, !.panic = @ \/ Leaves(w.pt) # {}]
    BY DEF FreeWalk
  <2> HIDE DEF u, v
  <2> QED
    BY <1>4, <2>1 DEF Works
<1> HIDE DEF D, u, v
<1>6. v \in Works /\ v.free = w.free \union D /\ v.pt = Nothing /\ v.ok = w.ok /\ v.panic = w.panic /\ v.mem = u.mem
  BY <1>4, <1>5, NothingIs DEF Works
<1>7. Whole(v, O)
  <2>1. Pages \ (v.free \union O) = {} /\ O \intersect v.free = {}
    BY <1>1, <1>3, <1>6
  <2> QED
    BY <1>1, <1>6, <2>1, NothingIs DEF Whole
<1>8. Kept(w, v, O)
  <2>1. \A pg \in O : v.mem[pg] = w.mem[pg]
    BY <1>1, <1>3, <1>4, <1>6
  <2> QED
    BY <1>6, <2>1, NothingIs DEF Kept
<1> QED
  BY <1>6, <1>7, <1>8 DEF Gone, v

\* A cut and then the end of the table.
LEMMA CutGone ==
    ASSUME NEW u, NEW v, NEW w, NEW O, NEW S, Cut(u, v, O, S), Gone(v, w, O)
    PROVE  Gone(u, w, O)
<1>1. Kept(u, v, O) /\ Kept(v, w, O) /\ w.pt = Nothing /\ Whole(w, O) /\ w.ok = u.ok
  BY DEF Cut, Gone
<1>2. DOMAIN w.pt = {}
  BY <1>1, NothingIs
<1>3. Kept(u, w, O)
  BY <1>1, <1>2, KeptTrans
<1> QED
  BY <1>1, <1>3 DEF Gone

\* The pages of the user in a table, from one page to another.
LEMMA UserSlotsIs ==
    ASSUME NEW a \in Nat, NEW b \in Nat
    PROVE  /\ UserSlots(a, b) \intersect Mapped = {} /\ \A s \in UserSlots(a, b) : s[1] = "user"
           /\ \A n \in Nat : User(n) \in UserSlots(a, b) <=> a <= n /\ n < b
<1>1. \A n \in a .. b - 1 : n \in Nat
  OBVIOUS
<1>2. UserSlots(a, b) \intersect Mapped = {} /\ \A s \in UserSlots(a, b) : s[1] = "user"
  BY <1>1, SlotNames DEF UserSlots
<1>3. ASSUME NEW n \in Nat PROVE User(n) \in UserSlots(a, b) <=> n \in a .. b - 1
  BY SlotNames DEF UserSlots
<1>4. \A n \in Nat : n \in a .. b - 1 <=> a <= n /\ n < b
  OBVIOUS
<1> QED
  BY <1>2, <1>3, <1>4

\* uvmfree of a table with exactly the pages of that size.
LEMMA UvmFreeGone ==
    ASSUME NEW w, NEW O, Whole(w, O), NEW sz, NumPages(sz) \in Nat, Leaves(w.pt) = UserSlots(0, NumPages(sz))
    PROVE  Gone(w, UvmFree(w, sz), O)
<1> DEFINE S == UserSlots(0, NumPages(sz))
           u == Unmap(w, S, TRUE)
<1>1. S \intersect Mapped = {}
  BY UserSlotsIs
<1>2. S \subseteq Own(w.pt)
  BY <1>1 DEF Own, Leaves
<1>3. UvmFree(w, sz) = FreeWalk(u)
  BY DEF UvmFree
<1> HIDE DEF S
<1>4. Cut(w, u, O, S)
  BY <1>2, UnmapFrees
<1> HIDE DEF u
<1>5. Whole(u, O) /\ Leaves(u.pt) = {}
  BY <1>4 DEF Cut, S
<1>6. Gone(u, FreeWalk(u), O)
  BY <1>5, FreeWalkFrees
<1> QED
  BY <1>3, <1>4, <1>6, CutGone

\* proc_freepagetable of a table with exactly the pages of that size.
LEMMA TableGone ==
    ASSUME NEW w, NEW O, Whole(w, O), NEW sz, NumPages(sz) \in Nat, Leaves(w.pt) = UserSlots(0, NumPages(sz)) \union Mapped
    PROVE  Gone(w, ProcFreePagetable(w, sz), O)
<1> DEFINE u == Unmap(w, Mapped, FALSE)
<1>1. Mapped \subseteq DOMAIN w.pt
  BY DEF Leaves
<1>2. Cut(w, u, O, Mapped)
  BY <1>1, UnmapKeeps
<1>3. ProcFreePagetable(w, sz) = UvmFree(u, sz)
  BY DEF ProcFreePagetable, Mapped
<1> HIDE DEF u
<1>4. Whole(u, O) /\ Leaves(u.pt) = UserSlots(0, NumPages(sz))
  BY <1>2, UserSlotsIs DEF Cut
<1>5. Gone(u, UvmFree(u, sz), O)
  BY <1>4, UvmFreeGone
<1> QED
  BY <1>2, <1>3, <1>5, CutGone

\* Multiples of a page are ordered as their page numbers.
LEMMA PageOrder ==
    ASSUME NEW i \in Nat, NEW j \in Nat
    PROVE  i * PGSIZE \in Nat /\ (i * PGSIZE < j * PGSIZE <=> i < j) /\ (i + 1) * PGSIZE = i * PGSIZE + PGSIZE
<1>1. PGSIZE \in Nat /\ PGSIZE > 0
  BY MemoryAssumption
<1>2. i * PGSIZE \in Nat /\ (i + 1) * PGSIZE = i * PGSIZE + PGSIZE
  BY <1>1
<1>3. ASSUME i < j PROVE i * PGSIZE < j * PGSIZE
  <2>1. PICK d \in Nat : j = i + 1 + d
    <3>1. j - i - 1 \in Nat /\ j = i + 1 + (j - i - 1)
      BY <1>3
    <3> QED
      BY <3>1
  <2>2. j * PGSIZE = i * PGSIZE + PGSIZE + d * PGSIZE /\ d * PGSIZE \in Nat
    BY <1>1, <2>1
  <2> QED
    BY <1>1, <1>2, <2>2
<1>4. ASSUME ~(i < j) PROVE ~(i * PGSIZE < j * PGSIZE)
  <2>1. PICK d \in Nat : i = j + d
    <3>1. i - j \in Nat /\ i = j + (i - j)
      BY <1>4
    <3> QED
      BY <3>1
  <2>2. i * PGSIZE = j * PGSIZE + d * PGSIZE /\ d * PGSIZE \in Nat /\ j * PGSIZE \in Nat
    BY <1>1, <2>1
  <2> QED
    BY <2>2
<1> QED
  BY <1>2, <1>3, <1>4

\* The page number of a multiple of a page.
LEMMA PageNumber ==
    ASSUME NEW k \in Nat
    PROVE  (k * PGSIZE) \div PGSIZE = k
<1>1. PGSIZE \in Nat \ {0}
  BY MemoryAssumption
<1> DEFINE x == k * PGSIZE
           q == x \div PGSIZE
           r == x % PGSIZE
<1>2. x \in Nat
  BY <1>1
<1> HIDE DEF x
<1>3. q \in Nat /\ r \in Nat /\ r < PGSIZE /\ x = q * PGSIZE + r
  BY <1>1, <1>2
<1> HIDE DEF q, r
<1>4. q + 1 \in Nat /\ (q + 1) * PGSIZE = q * PGSIZE + PGSIZE /\ q * PGSIZE \in Nat
  BY <1>3, PageOrder
<1>5. k * PGSIZE < (q + 1) * PGSIZE /\ ~(k * PGSIZE < q * PGSIZE)
  BY <1>1, <1>3, <1>4 DEF x
<1>6. k < q + 1 /\ ~(k < q)
  BY <1>3, <1>4, <1>5, PageOrder
<1>7. q = k
  BY <1>3, <1>6
<1> QED
  BY <1>7 DEF q, x

\* PGROUNDUP: the least multiple of a page that is large enough.
LEMMA RoundUp ==
    ASSUME NEW a \in Nat
    PROVE  /\ NumPages(a) \in Nat /\ PGROUNDUP(a) = NumPages(a) * PGSIZE /\ PGROUNDUP(a) \in Nat
           /\ \A k \in Nat : a <= k * PGSIZE <=> NumPages(a) <= k
<1> DEFINE x == a + PGSIZE - 1
           q == x \div PGSIZE
           r == x % PGSIZE
<1>1. PGSIZE \in Nat /\ PGSIZE > 0
  BY MemoryAssumption
<1>2. x \in Nat
  BY <1>1
<1>3. PGROUNDUP(a) = q * PGSIZE
  BY DEF PGROUNDUP
<1> HIDE DEF x
<1>4. q \in Nat /\ r \in Nat /\ r < PGSIZE /\ x = q * PGSIZE + r
  BY <1>1, <1>2
<1> HIDE DEF q, r
<1>5. NumPages(a) = q
  BY <1>3, <1>4, PageNumber DEF NumPages
<1>6. q * PGSIZE \in Nat /\ a <= q * PGSIZE /\ q * PGSIZE < a + PGSIZE
  <2>1. q * PGSIZE \in Nat
    BY <1>4, PageOrder
  <2> QED
    BY <1>1, <1>4, <2>1 DEF x
<1>7. ASSUME NEW k \in Nat PROVE a <= k * PGSIZE <=> q <= k
  <2>1. k * PGSIZE \in Nat /\ (k * PGSIZE < q * PGSIZE <=> k < q) /\ (k + 1) * PGSIZE = k * PGSIZE + PGSIZE
    BY <1>4, PageOrder
  <2>2. k + 1 \in Nat /\ (q * PGSIZE < (k + 1) * PGSIZE <=> q < k + 1)
    BY <1>4, PageOrder
  <2>3. ASSUME a <= k * PGSIZE PROVE q <= k
    <3>1. q * PGSIZE < (k + 1) * PGSIZE
      BY <1>1, <1>6, <2>1, <2>3
    <3> QED
      BY <1>4, <2>2, <3>1
  <2>4. ASSUME q <= k PROVE a <= k * PGSIZE
    <3>1. ~(k * PGSIZE < q * PGSIZE)
      BY <1>4, <2>1, <2>4
    <3> QED
      BY <1>6, <2>1, <3>1
  <2> QED
    BY <2>3, <2>4
<1> QED
  BY <1>3, <1>4, <1>5, <1>6, <1>7

\* A multiple of a page needs as many pages.
LEMMA WholePages ==
    ASSUME NEW k \in Nat
    PROVE  k * PGSIZE \in Nat /\ NumPages(k * PGSIZE) = k /\ PGROUNDUP(k * PGSIZE) = k * PGSIZE
<1> DEFINE a == k * PGSIZE
<1>1. a \in Nat
  BY PageOrder
<1> HIDE DEF a
<1>2. NumPages(a) \in Nat /\ PGROUNDUP(a) = NumPages(a) * PGSIZE /\ \A j \in Nat : a <= j * PGSIZE <=> NumPages(a) <= j
  BY <1>1, RoundUp
<1>3. NumPages(a) <= k
  BY <1>1, <1>2 DEF a
<1>4. ~(NumPages(a) < k)
  <2>1. a <= NumPages(a) * PGSIZE
    BY <1>2
  <2>2. NumPages(a) * PGSIZE \in Nat
    BY <1>2, PageOrder
  <2>3. ~(NumPages(a) * PGSIZE < k * PGSIZE)
    BY <1>1, <2>1, <2>2 DEF a
  <2> QED
    BY <1>2, <2>3, PageOrder
<1>5. NumPages(a) = k
  BY <1>2, <1>3, <1>4
<1> QED
  BY <1>1, <1>2, <1>5 DEF a

\* More bytes need no fewer pages.
LEMMA MorePages ==
    ASSUME NEW a \in Nat, NEW b \in Nat, a <= b
    PROVE  NumPages(a) <= NumPages(b) /\ NumPages(a) \in Nat /\ NumPages(b) \in Nat
<1>1. NumPages(a) \in Nat /\ NumPages(b) \in Nat /\ b <= NumPages(b) * PGSIZE /\ NumPages(b) * PGSIZE \in Nat
  BY RoundUp
<1>2. a <= NumPages(b) * PGSIZE
  BY <1>1
<1> QED
  BY <1>1, <1>2, RoundUp

\* Where a loop over pages stands.
LEMMA LoopAt ==
    ASSUME NEW at \in Nat, NEW k \in Nat, at = k * PGSIZE, NEW goal \in Nat
    PROVE  /\ at \div PGSIZE = k /\ NumPages(at) = k /\ PGROUNDUP(at) = at /\ at + PGSIZE = (k + 1) * PGSIZE /\ at + PGSIZE \in Nat
           /\ (at < goal <=> k < NumPages(goal)) /\ NumPages(goal) \in Nat
<1>1. NumPages(goal) \in Nat /\ (goal <= k * PGSIZE <=> NumPages(goal) <= k)
  BY RoundUp
<1>2. at \div PGSIZE = k /\ NumPages(at) = k /\ PGROUNDUP(at) = at
  BY PageNumber, WholePages
<1>3. at + PGSIZE = (k + 1) * PGSIZE /\ at + PGSIZE \in Nat
  BY PageOrder, MemoryAssumption
<1> QED
  BY <1>1, <1>2, <1>3

-----------------------------------------------------------------------------
\* proc_pagetable made a page table, or left nothing.
Made(w, v, frame, O) ==
    /\ Whole(v, O) /\ Kept(w, v, O)
    /\ v.ok => Leaves(v.pt) = Mapped /\ v.pt[Trapframe] = frame
    /\ ~v.ok => v.pt = Nothing

Failing(u, v) == v = [u EXCEPT !.ok = FALSE]

\* A failure is noted.
LEMMA NotOk ==
    ASSUME NEW w, NEW u, NEW O, Whole(u, O), Kept(w, u, O), u.pt = Nothing, NEW v, Failing(u, v), NEW frame
    PROVE  Made(w, v, frame, O)
<1>1. u \in Works
  BY DEF Whole
<1>2. v \in Works /\ v.free = u.free /\ v.mem = u.mem /\ v.pt = u.pt /\ v.panic = u.panic /\ ~v.ok
  BY <1>1 DEF Works, Failing
<1>3. Whole(v, O)
  BY <1>1, <1>2 DEF Whole
<1>4. Kept(w, v, O)
  BY <1>1, <1>2 DEF Kept
<1> QED
  BY <1>1, <1>2, <1>3, <1>4 DEF Made

\* Nothing has size 0.
LEMMA NoPages == NumPages(0) = 0 /\ UserSlots(0, 0) = {}
<1>1. PGSIZE \in Nat /\ NumPages(0 * PGSIZE) = 0
  BY WholePages, MemoryAssumption
<1>2. 0 * PGSIZE = 0
  BY <1>1
<1> QED
  BY <1>1, <1>2 DEF UserSlots

\* A step that adds to a table, and then its end.
LEMMA KeptGone ==
    ASSUME NEW u, NEW v, NEW w, NEW O, Kept(u, v, O), Gone(v, w, O)
    PROVE  Kept(u, w, O) /\ Whole(w, O) /\ w.pt = Nothing /\ w.ok = v.ok
<1>1. Kept(v, w, O) /\ w.pt = Nothing /\ Whole(w, O) /\ w.ok = v.ok
  BY DEF Gone
<1>2. DOMAIN w.pt = {}
  BY <1>1, NothingIs
<1>3. Kept(u, w, O)
  BY <1>1, <1>2, KeptTrans
<1> QED
  BY <1>1, <1>3

\* proc_pagetable makes a table with two entries, or nothing.
LEMMA ProcPagetableMade ==
    ASSUME NEW w, NEW O, Whole(w, O), w.ok, w.pt = Nothing, NEW frame \in Nat
    PROVE  Made(w, ProcPagetable(w, frame), frame, O)
<1> DEFINE root == UvmCreate(w)
           one == MapPage(root, Trampoline, TrampolinePage)
           two == MapPage(one, Trapframe, frame)
           v == ProcPagetable(w, frame)
           back == Unmap(two, {Trampoline}, FALSE)
<1>0. /\ ~root.ok => v = root
      /\ root.ok /\ ~one.ok => v = [UvmFree(one, 0) EXCEPT !.ok = FALSE]
      /\ root.ok /\ one.ok /\ ~two.ok => v = [UvmFree(back, 0) EXCEPT !.ok = FALSE]
      /\ root.ok /\ one.ok /\ two.ok => v = two
  BY DEF ProcPagetable
<1>1. DOMAIN w.pt = {} /\ Leaves(w.pt) = {}
  BY NothingIs
<1>2. Root \in PtSlots /\ Root \notin Mapped /\ Trampoline \in Mapped /\ Trapframe \in Mapped /\ Trampoline # Trapframe
      /\ TrampolinePage \in Nat /\ "table" \in Contents
  BY SlotNames, MemoryAssumption DEF Mapped, TrampolinePage, Contents
<1>3. /\ Whole(root, O) /\ Kept(w, root, O)
      /\ root.ok => DOMAIN root.pt = DOMAIN w.pt \union {Root}
      /\ ~root.ok => root.pt = w.pt
  BY <1>1, <1>2, KallocWhole DEF UvmCreate
<1> HIDE DEF root, v
<1>4. CASE ~root.ok
  <2>1. v = root /\ root.pt = Nothing
    BY <1>0, <1>3, <1>4
  <2> QED
    BY <1>3, <1>4, <2>1 DEF Made, v
<1>5. CASE root.ok
  <2>1. Leaves(root.pt) = {} /\ Trampoline \notin DOMAIN root.pt /\ Trapframe \notin DOMAIN root.pt
    BY <1>1, <1>2, <1>3, <1>5, SlotNames DEF Leaves, Mapped
  <2>2. /\ Whole(one, O) /\ Kept(root, one, O) /\ DOMAIN root.pt \subseteq DOMAIN one.pt
        /\ one.ok => one.pt[Trampoline] = TrampolinePage /\ Leaves(one.pt) = Leaves(root.pt) \union {Trampoline}
        /\ ~one.ok => Leaves(one.pt) = Leaves(root.pt)
    BY <1>2, <1>3, <1>5, <2>1, MapMapped
  <2>3. Kept(w, one, O)
    BY <1>1, <1>3, <2>2, KeptTrans
  <2> HIDE DEF one
  <2>4. CASE ~one.ok
    <3>1. Leaves(one.pt) = UserSlots(0, NumPages(0)) /\ NumPages(0) \in Nat
      BY <2>1, <2>2, <2>4, NoPages
    <3>2. Gone(one, UvmFree(one, 0), O)
      BY <2>2, <3>1, UvmFreeGone
    <3>3. Kept(w, UvmFree(one, 0), O) /\ Whole(UvmFree(one, 0), O) /\ UvmFree(one, 0).pt = Nothing
      BY <2>3, <3>2, KeptGone
    <3>4. Failing(UvmFree(one, 0), v)
      BY <1>0, <1>5, <2>4 DEF Failing
    <3> QED
      BY <3>3, <3>4, NotOk DEF v
  <2>5. CASE one.ok
    <3>1. Leaves(one.pt) = {Trampoline} /\ Trapframe \notin DOMAIN one.pt
      <4>1. Leaves(one.pt) = {Trampoline}
        BY <2>1, <2>2, <2>5
      <4> QED
        BY <1>2, <4>1, SlotNames DEF Leaves
    <3>2. /\ Whole(two, O) /\ Kept(one, two, O) /\ DOMAIN one.pt \subseteq DOMAIN two.pt
          /\ two.ok => two.pt[Trapframe] = frame /\ Leaves(two.pt) = Leaves(one.pt) \union {Trapframe}
          /\ ~two.ok => Leaves(two.pt) = Leaves(one.pt)
      BY <1>2, <2>2, <2>5, <3>1, MapMapped
    <3>3. Kept(w, two, O)
      BY <1>1, <2>3, <3>2, KeptTrans
    <3> HIDE DEF two
    <3>4. CASE two.ok
      <4>1. v = two /\ Leaves(two.pt) = Mapped /\ two.pt[Trapframe] = frame
        BY <1>0, <1>5, <2>5, <3>1, <3>2, <3>4 DEF Mapped
      <4> QED
        BY <3>2, <3>3, <3>4, <4>1 DEF Made, v
    <3>5. CASE ~two.ok
      <4>1. Leaves(two.pt) = {Trampoline} /\ {Trampoline} \subseteq Mapped /\ {Trampoline} \subseteq DOMAIN two.pt
        BY <1>2, <3>1, <3>2, <3>5 DEF Leaves
      <4>2. Cut(two, back, O, {Trampoline})
        BY <3>2, <4>1, UnmapKeeps
      <4> HIDE DEF back
      <4>3. Whole(back, O) /\ Leaves(back.pt) = UserSlots(0, NumPages(0)) /\ NumPages(0) \in Nat
        BY <4>1, <4>2, NoPages DEF Cut
      <4>4. Gone(back, UvmFree(back, 0), O)
        BY <4>3, UvmFreeGone
      <4>5. Gone(two, UvmFree(back, 0), O)
        BY <4>2, <4>4, CutGone
      <4>6. Kept(w, UvmFree(back, 0), O) /\ Whole(UvmFree(back, 0), O) /\ UvmFree(back, 0).pt = Nothing
        BY <3>3, <4>5, KeptGone
      <4>7. Failing(UvmFree(back, 0), v)
        BY <1>0, <1>5, <2>5, <3>5 DEF Failing
      <4> QED
        BY <4>6, <4>7, NotOk DEF v
    <3> QED
      BY <3>4, <3>5
  <2> QED
    BY <2>4, <2>5
<1> QED
  BY <1>4, <1>5

\* freeproc gives back the trapframe and the page table, if there is one.
LEMMA FreeProcGone ==
    ASSUME NEW w, NEW O, Whole(w, O), NEW frame \in O, NEW sz, NumPages(sz) \in Nat,
           w.pt = Nothing \/ Leaves(w.pt) = UserSlots(0, NumPages(sz)) \union Mapped
    PROVE  Gone(w, FreeProc(w, frame, sz), O \ {frame})
<1> DEFINE u == Kfree(w, {frame})
           P == O \ {frame}
<1>1. frame # NoPage
  BY MemoryAssumption DEF Whole, Pages, NoPage
<1>2. FreeProc(w, frame, sz) = IF u.pt = Nothing THEN u ELSE ProcFreePagetable(u, sz)
  BY <1>1 DEF FreeProc
<1>3. Whole(u, P) /\ Kept(w, u, P) /\ u.pt = w.pt /\ u.ok = w.ok
  BY KfreeWhole
<1> HIDE DEF u, P
<1>4. CASE w.pt = Nothing
  BY <1>2, <1>3, <1>4 DEF Gone, P
<1>5. CASE w.pt # Nothing
  <2>1. Gone(u, ProcFreePagetable(u, sz), P)
    BY <1>3, <1>5, TableGone
  <2> DEFINE v == ProcFreePagetable(u, sz)
  <2>2. v.ok = u.ok /\ Whole(v, P) /\ v.pt = Nothing
    BY <2>1 DEF Gone
  <2> HIDE DEF v
  <2>3. Kept(w, v, P)
    BY <1>3, <2>1, KeptGone DEF v
  <2>4. FreeProc(w, frame, sz) = v
    BY <1>2, <1>3, <1>5 DEF v
  <2> QED
    BY <1>3, <2>2, <2>3, <2>4 DEF Gone, P
<1> QED
  BY <1>4, <1>5

-----------------------------------------------------------------------------
(* The invariant of physical memory.                                         *)

\* Who holds pages: the page table of a process, the one exec builds for it,
\* the arguments of its exec, its trapframe.
Holders == Owners \X {"cur", "new", "argv", "tf"}
Held == [x \in Holders |->
            IF x[2] = "cur" THEN Owned(cur[x[1]]) ELSE IF x[2] = "new" THEN Owned(call[x[1]].new)
            ELSE IF x[2] = "argv" THEN Range(call[x[1]].argv) ELSE {tf[x[1]]} \ {NoPage}]

\* The holders and the pool share out the pages.
Shares(H, F) ==
    /\ F \subseteq Pages /\ \A x \in Holders : H[x] \subseteq Pages \ F
    /\ \A x, y \in Holders : x # y => H[x] \intersect H[y] = {}
    /\ \A pg \in Pages \ F : \E x \in Holders : pg \in H[x]
\* What the holders outside X have.
RestOf(H, X) == {pg \in Pages : \E x \in Holders \ X : pg \in H[x]}

\* What a process with an image does.
Busy == {"grow", "fork", "args", "load", "stack"}
Living == Busy \union {"user"}
Locals == [at : Nat, goal : Nat, kid : Owners, new : Tables, newsz : Nat, segs : Seq(Nat), argv : Seq(Nat)]

MemType ==
    /\ mem \in [Pages -> Contents] /\ tf \in [Owners -> Nat] /\ cur \in [Owners -> Tables] /\ size \in [Owners -> Nat]
    /\ mpc \in [Owners -> Living \union {"unused", "embryo"}] /\ call \in [Owners -> Locals]
    /\ expect \in [Owners -> Seq(Contents)] /\ calls \in Nat /\ panicked = FALSE

\* Nobody holds a page twice, no two hold the same.
OneEach(p) ==
    /\ Distinct(cur[p]) /\ Distinct(call[p].new)
    /\ \A i, j \in DOMAIN call[p].argv : call[p].argv[i] = call[p].argv[j] => i = j
ShareInv == Shares(Held, free) /\ \A p \in Owners : OneEach(p)

\* A page table with the user pages 0 .. n - 1, trampoline and trapframe.
Shape(pt, n) == Leaves(pt) = UserSlots(0, n) \union Mapped
Done(p) == call[p].at \div PGSIZE

\* The memory of a process between and during its calls.
OwnImage(p) ==
    /\ mpc[p] = "unused" => cur[p] = Nothing /\ tf[p] = NoPage
    /\ mpc[p] \in {"unused", "embryo"} => size[p] = 0
    /\ mpc[p] # "unused" => tf[p] # NoPage /\ Trapframe \in DOMAIN cur[p] /\ cur[p][Trapframe] = tf[p]
    /\ mpc[p] \in Living => /\ Shape(cur[p], IF mpc[p] = "grow" THEN Done(p) ELSE NumPages(size[p]))
                            /\ Len(expect[p]) = NumPages(size[p])
                            /\ \A n \in 0 .. NumPages(size[p]) - 1 : mem[cur[p][User(n)]] = expect[p][n + 1]

\* Where its loops are.
Loop(p) ==
    /\ mpc[p] \notin Busy => call[p] = NoCall(p)
    /\ mpc[p] \notin {"load", "stack"} => call[p].new = Nothing /\ call[p].newsz = 0
    /\ mpc[p] \in {"grow", "fork"} => call[p].argv = <<>>
    /\ mpc[p] = "args" => call[p].at = 0
    /\ call[p].at = Done(p) * PGSIZE
\* sbrk: the pages added so far.
Growing(p) == mpc[p] = "grow" =>
    /\ NumPages(size[p]) <= Done(p) /\ Done(p) <= NumPages(call[p].goal) /\ size[p] < call[p].goal
    /\ \A n \in NumPages(size[p]) .. Done(p) - 1 : mem[cur[p][User(n)]] = "zero"
\* exec: the image built so far.
Loading(p) ==
    /\ mpc[p] \in {"load", "stack"} =>
        /\ Shape(call[p].new, Done(p)) /\ call[p].new[Trapframe] = tf[p]
        /\ NumPages(call[p].newsz) <= Done(p) /\ Done(p) <= NumPages(call[p].goal) /\ call[p].newsz <= call[p].goal
        /\ \A n \in 0 .. NumPages(call[p].newsz) - 1 : mem[call[p].new[User(n)]] = "text"
    /\ mpc[p] = "stack" => call[p].goal = call[p].newsz + 2 * PGSIZE /\ call[p].newsz = PGROUNDUP(call[p].newsz)
\* fork: the pages copied so far.
Copying(p, c) ==
    /\ mpc[c] = "embryo" /\ Done(p) <= NumPages(size[p]) /\ Shape(cur[c], Done(p))
    /\ \A n \in 0 .. Done(p) - 1 : mem[cur[c][User(n)]] = expect[p][n + 1]
Forked(p) == mpc[p] = "fork" => Copying(p, call[p].kid)

Sound(p) == OwnImage(p) /\ Loop(p) /\ Growing(p) /\ Loading(p) /\ Forked(p)
\* No two forks fill the same child.
KidInv == \A p, q \in Owners : mpc[p] = "fork" /\ mpc[q] = "fork" /\ call[p].kid = call[q].kid => p = q
MemInv == MemType /\ ShareInv /\ KidInv /\ \A p \in Owners : Sound(p)

-----------------------------------------------------------------------------
\* What each holder has, before and after a step.
LEMMA HeldIs ==
    ASSUME NEW p \in Owners
    PROVE  /\ <<p, "cur">> \in Holders /\ <<p, "new">> \in Holders /\ <<p, "argv">> \in Holders /\ <<p, "tf">> \in Holders
           /\ Held[<<p, "cur">>] = Owned(cur[p]) /\ Held[<<p, "new">>] = Owned(call[p].new)
           /\ Held[<<p, "argv">>] = Range(call[p].argv) /\ Held[<<p, "tf">>] = {tf[p]} \ {NoPage}
           /\ Held'[<<p, "cur">>] = Owned(cur'[p]) /\ Held'[<<p, "new">>] = Owned(call'[p].new)
           /\ Held'[<<p, "argv">>] = Range(call'[p].argv) /\ Held'[<<p, "tf">>] = {tf'[p]} \ {NoPage}
<1>1. <<p, "cur">> \in Holders /\ <<p, "new">> \in Holders /\ <<p, "argv">> \in Holders /\ <<p, "tf">> \in Holders
  BY DEF Holders
<1>2. /\ Held[<<p, "cur">>] = Owned(cur[p]) /\ Held[<<p, "new">>] = Owned(call[p].new)
      /\ Held[<<p, "argv">>] = Range(call[p].argv) /\ Held[<<p, "tf">>] = {tf[p]} \ {NoPage}
  BY <1>1 DEF Held
<1>3. /\ Held'[<<p, "cur">>] = Owned(cur'[p]) /\ Held'[<<p, "new">>] = Owned(call'[p].new)
      /\ Held'[<<p, "argv">>] = Range(call'[p].argv) /\ Held'[<<p, "tf">>] = {tf'[p]} \ {NoPage}
  BY <1>1 DEF Held, Owned, Own
<1> QED
  BY <1>1, <1>2, <1>3

\* A step changes only what the holders in X have.
LEMMA HeldSame ==
    ASSUME NEW X, \A p \in Owners : /\ <<p, "cur">> \in X \/ cur'[p] = cur[p]
                                    /\ <<p, "new">> \in X \/ call'[p].new = call[p].new
                                    /\ <<p, "argv">> \in X \/ call'[p].argv = call[p].argv
                                    /\ <<p, "tf">> \in X \/ tf'[p] = tf[p]
    PROVE  \A x \in Holders \ X : Held'[x] = Held[x]
<1> SUFFICES ASSUME NEW x \in Holders \ X
             PROVE  Held'[x] = Held[x]
  OBVIOUS
<1>1. PICK p \in Owners, k \in {"cur", "new", "argv", "tf"} : x = <<p, k>>
  BY DEF Holders
<1>2. CASE k = "cur"
  <2>1. cur'[p] = cur[p]
    BY <1>1, <1>2
  <2> QED
    BY <1>1, <1>2, <2>1, HeldIs
<1>3. CASE k = "new"
  <2>1. call'[p].new = call[p].new
    BY <1>1, <1>3
  <2> QED
    BY <1>1, <1>3, <2>1, HeldIs
<1>4. CASE k = "argv"
  <2>1. call'[p].argv = call[p].argv
    BY <1>1, <1>4
  <2> QED
    BY <1>1, <1>4, <2>1, HeldIs
<1>5. CASE k = "tf"
  <2>1. tf'[p] = tf[p]
    BY <1>1, <1>5
  <2> QED
    BY <1>1, <1>5, <2>1, HeldIs
<1> QED
  BY <1>1, <1>2, <1>3, <1>4, <1>5

\* What the holders in X do not have is the pool's or the others'.
LEMMA RestIs ==
    ASSUME NEW H, NEW F, Shares(H, F), NEW X, X \subseteq Holders
    PROVE  /\ RestOf(H, X) \subseteq Pages /\ RestOf(H, X) \intersect F = {}
           /\ \A x \in X : RestOf(H, X) \intersect H[x] = {}
           /\ \A x \in Holders \ X : H[x] \subseteq RestOf(H, X)
           /\ \A pg \in Pages : pg \in F \/ pg \in RestOf(H, X) \/ \E x \in X : pg \in H[x]
<1>1. RestOf(H, X) \subseteq Pages /\ RestOf(H, X) \intersect F = {}
  BY DEF RestOf, Shares
<1>2. \A x \in X : RestOf(H, X) \intersect H[x] = {}
  BY DEF RestOf, Shares
<1>3. \A x \in Holders \ X : H[x] \subseteq RestOf(H, X)
  BY DEF RestOf, Shares
<1>4. \A pg \in Pages : pg \in F \/ pg \in RestOf(H, X) \/ \E x \in X : pg \in H[x]
  BY DEF RestOf, Shares
<1> QED
  BY <1>1, <1>2, <1>3, <1>4

\* Only what the pool and the holders in X have is shared out anew.
Reshared(H, X, G, E) ==
    /\ E \subseteq Pages /\ E \intersect RestOf(H, X) = {} /\ \A x \in Holders \ X : G[x] = H[x]
    /\ \A x \in X : G[x] \subseteq Pages /\ G[x] \intersect (RestOf(H, X) \union E) = {}
    /\ \A x, y \in X : x # y => G[x] \intersect G[y] = {}
    /\ \A pg \in Pages : pg \in E \/ pg \in RestOf(H, X) \/ \E x \in X : pg \in G[x]

\* Then all pages are still shared out.
LEMMA Reshare ==
    ASSUME NEW H, NEW F, Shares(H, F), NEW X, X \subseteq Holders, NEW G, NEW E, Reshared(H, X, G, E)
    PROVE  Shares(G, E)
<1>0. /\ E \subseteq Pages /\ E \intersect RestOf(H, X) = {} /\ \A x \in Holders \ X : G[x] = H[x]
      /\ \A x \in X : G[x] \subseteq Pages /\ G[x] \intersect (RestOf(H, X) \union E) = {}
      /\ \A x, y \in X : x # y => G[x] \intersect G[y] = {}
      /\ \A pg \in Pages : pg \in E \/ pg \in RestOf(H, X) \/ \E x \in X : pg \in G[x]
  BY DEF Reshared
<1> DEFINE R == RestOf(H, X)
<1>1. \A x \in Holders \ X : G[x] \subseteq R /\ G[x] \subseteq Pages
  BY <1>0 DEF RestOf, Shares
<1>2. \A pg \in R : \E x \in Holders \ X : pg \in G[x]
  BY <1>0 DEF RestOf
<1> HIDE DEF R
<1>3. \A x \in Holders : G[x] \subseteq Pages \ E
  BY <1>0, <1>1 DEF R
<1>4. \A x, y \in Holders : x # y => G[x] \intersect G[y] = {}
  <2> SUFFICES ASSUME NEW x \in Holders, NEW y \in Holders, x # y
               PROVE  G[x] \intersect G[y] = {}
    OBVIOUS
  <2>1. CASE x \in X /\ y \in X
    BY <1>0, <2>1
  <2>2. CASE x \in X /\ y \notin X
    BY <1>0, <1>1, <2>2 DEF R
  <2>3. CASE x \notin X /\ y \in X
    BY <1>0, <1>1, <2>3 DEF R
  <2>4. CASE x \notin X /\ y \notin X
    BY <1>0, <2>4 DEF Shares
  <2> QED
    BY <2>1, <2>2, <2>3, <2>4
<1>5. \A pg \in Pages \ E : \E x \in Holders : pg \in G[x]
  BY <1>0, <1>2 DEF R
<1> QED
  BY <1>0, <1>3, <1>4, <1>5 DEF Shares

\* The types, as facts of one process.
LEMMA TypesOf ==
    ASSUME MemInv, NEW p \in Owners
    PROVE  /\ cur[p] \in Tables /\ size[p] \in Nat /\ tf[p] \in Nat /\ expect[p] \in Seq(Contents) /\ call[p] \in Locals
           /\ call[p].at \in Nat /\ call[p].goal \in Nat /\ call[p].kid \in Owners /\ call[p].new \in Tables
           /\ call[p].newsz \in Nat /\ call[p].segs \in Seq(Nat) /\ call[p].argv \in Seq(Nat) /\ Done(p) \in Nat
           /\ NumPages(size[p]) \in Nat /\ NumPages(call[p].goal) \in Nat /\ NumPages(call[p].newsz) \in Nat
           /\ mem \in [Pages -> Contents] /\ Pages \subseteq Nat /\ free \subseteq Pages /\ Sound(p)
           /\ mpc[p] \in Living \union {"unused", "embryo"}
<1>1. MemType /\ Sound(p) /\ ShareInv
  BY DEF MemInv
<1>2. /\ cur[p] \in Tables /\ size[p] \in Nat /\ tf[p] \in Nat /\ expect[p] \in Seq(Contents) /\ call[p] \in Locals
      /\ mem \in [Pages -> Contents] /\ mpc[p] \in Living \union {"unused", "embryo"}
  BY <1>1 DEF MemType
<1>3. /\ call[p].at \in Nat /\ call[p].goal \in Nat /\ call[p].kid \in Owners /\ call[p].new \in Tables
      /\ call[p].newsz \in Nat /\ call[p].segs \in Seq(Nat) /\ call[p].argv \in Seq(Nat)
  BY <1>2 DEF Locals
<1>4. NumPages(size[p]) \in Nat /\ NumPages(call[p].goal) \in Nat /\ NumPages(call[p].newsz) \in Nat
  BY <1>2, <1>3, RoundUp
<1>5. Pages \subseteq Nat /\ free \subseteq Pages
  BY <1>1, MemoryAssumption DEF Pages, ShareInv, Shares
<1>6. Done(p) \in Nat
  <2> DEFINE a == call[p].at
  <2>1. a \in Nat /\ PGSIZE \in Nat \ {0} /\ Done(p) = a \div PGSIZE
    BY <1>3, MemoryAssumption DEF Done
  <2> HIDE DEF a
  <2>2. a \div PGSIZE \in Nat
    BY <2>1
  <2> QED
    BY <2>1, <2>2
<1> QED
  BY <1>1, <1>2, <1>3, <1>4, <1>5, <1>6

\* A page of the user is owned by its table.
LEMMA UserOwned ==
    ASSUME NEW pt, NEW n \in Nat, Shape(pt, n), NEW i \in 0 .. n - 1
    PROVE  User(i) \in Own(pt) /\ User(i) \in DOMAIN pt /\ pt[User(i)] \in Owned(pt)
<1>1. i \in Nat /\ i < n
  OBVIOUS
<1>2. User(i) \in UserSlots(0, n) /\ User(i) \notin Mapped
  BY <1>1, UserSlotsIs, SlotNames
<1>3. User(i) \in DOMAIN pt
  BY <1>2 DEF Shape, Leaves
<1> QED
  BY <1>2, <1>3 DEF Own, Owned

\* A process that a step leaves alone.
Same(q) ==
    /\ tf'[q] = tf[q] /\ cur'[q] = cur[q] /\ call'[q] = call[q] /\ size'[q] = size[q] /\ mpc'[q] = mpc[q] /\ expect'[q] = expect[q]

\* It stays sound if its pages, and those of the child it is making, do.
LEMMA SoundSame ==
    ASSUME MemInv, NEW q \in Owners, Same(q),
           \A pg \in Owned(cur[q]) \union Owned(call[q].new) : mem'[pg] = mem[pg],
           mpc[q] = "fork" => /\ cur'[call[q].kid] = cur[call[q].kid] /\ mpc'[call[q].kid] = mpc[call[q].kid]
                              /\ \A pg \in Owned(cur[call[q].kid]) : mem'[pg] = mem[pg]
    PROVE  Sound(q)'
<1>1. OwnImage(q) /\ Loop(q) /\ Growing(q) /\ Loading(q) /\ Forked(q)
  BY DEF MemInv, Sound
<1>2. /\ Done(q) \in Nat /\ NumPages(size[q]) \in Nat /\ NumPages(call[q].goal) \in Nat /\ NumPages(call[q].newsz) \in Nat
  BY TypesOf
<1>3. /\ tf'[q] = tf[q] /\ cur'[q] = cur[q] /\ call'[q] = call[q] /\ size'[q] = size[q] /\ mpc'[q] = mpc[q] /\ expect'[q] = expect[q]
      /\ Done(q)' = Done(q)
  BY DEF Same, Done
<1>4. Loop(q)'
  BY <1>1, <1>3 DEF Loop
<1>5. OwnImage(q)'
  <2>1. ASSUME mpc[q] \in Living, NEW n \in 0 .. NumPages(size[q]) - 1
        PROVE  mem'[cur[q][User(n)]] = mem[cur[q][User(n)]]
    <3> DEFINE k == IF mpc[q] = "grow" THEN Done(q) ELSE NumPages(size[q])
    <3>1. k \in Nat /\ n \in 0 .. k - 1 /\ Shape(cur[q], k)
      BY <1>1, <1>2, <2>1 DEF OwnImage, Growing
    <3> QED
      BY <3>1, UserOwned
  <2> QED
    BY <1>1, <1>3, <2>1 DEF OwnImage
<1>6. Growing(q)'
  <2>1. ASSUME mpc[q] = "grow", NEW n \in NumPages(size[q]) .. Done(q) - 1
        PROVE  mem'[cur[q][User(n)]] = mem[cur[q][User(n)]]
    <3>1. n \in 0 .. Done(q) - 1 /\ Shape(cur[q], Done(q))
      BY <1>1, <1>2, <2>1 DEF OwnImage, Living, Busy
    <3> QED
      BY <1>2, <3>1, UserOwned
  <2> QED
    BY <1>1, <1>3, <2>1 DEF Growing
<1>7. Loading(q)'
  <2>1. ASSUME mpc[q] \in {"load", "stack"}, NEW n \in 0 .. NumPages(call[q].newsz) - 1
        PROVE  mem'[call[q].new[User(n)]] = mem[call[q].new[User(n)]]
    <3>1. n \in 0 .. Done(q) - 1 /\ Shape(call[q].new, Done(q))
      BY <1>1, <1>2, <2>1 DEF Loading
    <3> QED
      BY <1>2, <3>1, UserOwned
  <2> QED
    BY <1>1, <1>3, <2>1 DEF Loading
<1>8. Forked(q)'
  <2> SUFFICES ASSUME mpc[q] = "fork"
               PROVE  Copying(q, call[q].kid)'
    BY <1>3 DEF Forked
  <2> DEFINE c == call[q].kid
  <2>1. Copying(q, c) /\ cur'[c] = cur[c] /\ mpc'[c] = mpc[c] /\ c' = c
    BY <1>1, <1>3 DEF Forked
  <2>2. ASSUME NEW n \in 0 .. Done(q) - 1 PROVE mem'[cur[c][User(n)]] = mem[cur[c][User(n)]]
    BY <1>2, <2>1, UserOwned DEF Copying
  <2>3. \A n \in 0 .. Done(q) - 1 : mem'[cur'[c][User(n)]] = expect'[q][n + 1]
    BY <1>3, <2>1, <2>2 DEF Copying
  <2>4. mpc'[c] = "embryo" /\ Done(q)' <= NumPages(size'[q]) /\ Shape(cur'[c], Done(q)')
    BY <1>3, <2>1 DEF Copying
  <2> HIDE DEF c
  <2>5. Copying(q, c)'
    BY <1>3, <2>1, <2>3, <2>4 DEF Copying, Shape
  <2> QED
    BY <2>5 DEF c
<1> QED
  BY <1>4, <1>5, <1>6, <1>7, <1>8 DEF Sound

\* A step of the processes in A that only touches the pages of the holders in
\* X, all of them in A, leaves the others sound.
LEMMA OthersSound ==
    ASSUME MemInv, NEW A \in SUBSET Owners, NEW X \in SUBSET Holders, \A x \in X : x[1] \in A,
           \A q \in Owners \ A : Same(q) /\ (mpc[q] = "fork" => call[q].kid \notin A),
           \A pg \in RestOf(Held, X) : mem'[pg] = mem[pg]
    PROVE  \A q \in Owners \ A : Sound(q)'
<1> SUFFICES ASSUME NEW q \in Owners \ A
             PROVE  Sound(q)'
  OBVIOUS
<1>1. Shares(Held, free)
  BY DEF MemInv, ShareInv
<1>2. ASSUME NEW r \in Owners \ A PROVE Owned(cur[r]) \subseteq RestOf(Held, X) /\ Owned(call[r].new) \subseteq RestOf(Held, X)
  <2>1. <<r, "cur">> \in Holders \ X /\ <<r, "new">> \in Holders \ X
    BY HeldIs
  <2>2. \A x \in Holders \ X : Held[x] \subseteq RestOf(Held, X)
    BY <1>1, RestIs
  <2>3. Held[<<r, "cur">>] = Owned(cur[r]) /\ Held[<<r, "new">>] = Owned(call[r].new)
    BY HeldIs
  <2> QED
    BY <2>1, <2>2, <2>3
<1>3. \A pg \in Owned(cur[q]) \union Owned(call[q].new) : mem'[pg] = mem[pg]
  BY <1>2
<1>4. ASSUME mpc[q] = "fork"
      PROVE  /\ cur'[call[q].kid] = cur[call[q].kid] /\ mpc'[call[q].kid] = mpc[call[q].kid]
             /\ \A pg \in Owned(cur[call[q].kid]) : mem'[pg] = mem[pg]
  <2>1. call[q].kid \in Owners \ A
    BY <1>4, TypesOf
  <2> QED
    BY <1>2, <2>1 DEF Same
<1> QED
  BY <1>3, <1>4, SoundSame

\* The child that a process is making.
LEMMA KidIs ==
    ASSUME MemInv, NEW q \in Owners, mpc[q] = "fork"
    PROVE  call[q].kid \in Owners /\ mpc[call[q].kid] = "embryo" /\ Copying(q, call[q].kid)
BY TypesOf DEF Sound, Forked, Copying

\* The operations start from the pool and one of the tables.
LEMMA WorkWhole ==
    ASSUME MemInv, NEW x \in Holders, NEW pt \in Tables, Distinct(pt), Owned(pt) = Held[x]
    PROVE  /\ Whole(Work(pt), RestOf(Held, {x})) /\ Work(pt).ok /\ Work(pt).pt = pt /\ ~Work(pt).panic
           /\ Work(pt).mem = mem /\ Work(pt).free = free
<1> DEFINE w == Work(pt)
           O == RestOf(Held, {x})
<1>1. MemType /\ Shares(Held, free)
  BY DEF MemInv, ShareInv
<1>2. w \in Works /\ w.ok /\ w.pt = pt /\ w.panic = FALSE /\ w.mem = mem /\ w.free = free
  BY <1>1 DEF Work, Works, MemType, Shares
<1>3. /\ O \subseteq Pages /\ O \intersect free = {} /\ O \intersect Held[x] = {}
      /\ \A pg \in Pages : pg \in free \/ pg \in O \/ pg \in Held[x]
  <2>1. {x} \subseteq Holders
    OBVIOUS
  <2> QED
    BY <1>1, <2>1, RestIs
<1>4. Held[x] \subseteq Pages \ free
  BY <1>1 DEF Shares
<1> HIDE DEF w, O
<1>5. Owned(pt) = Pages \ (w.free \union O)
  BY <1>2, <1>3, <1>4
<1>6. Whole(w, O)
  BY <1>2, <1>3, <1>5 DEF Whole
<1> QED
  BY <1>2, <1>6 DEF w, O

\* The operations that make a new table start from the pool alone.
LEMMA FreshWhole ==
    ASSUME MemInv
    PROVE  /\ Whole(Work(Nothing), RestOf(Held, {})) /\ Work(Nothing).ok /\ Work(Nothing).pt = Nothing /\ ~Work(Nothing).panic
           /\ Work(Nothing).mem = mem /\ Work(Nothing).free = free
<1> DEFINE w == Work(Nothing)
           O == RestOf(Held, {})
<1>1. MemType /\ Shares(Held, free)
  BY DEF MemInv, ShareInv
<1>2. w \in Works /\ w.ok /\ w.pt = Nothing /\ w.panic = FALSE /\ w.mem = mem /\ w.free = free
  BY <1>1, NothingIs DEF Work, Works, MemType, Shares
<1>3. /\ O \subseteq Pages /\ O \intersect free = {}
      /\ \A pg \in Pages : pg \in free \/ pg \in O
  BY <1>1, RestIs
<1> HIDE DEF w, O
<1>4. Whole(w, O)
  <2>1. Pages \ (w.free \union O) = {}
    BY <1>2, <1>3
  <2> QED
    BY <1>2, <1>3, <2>1, NothingIs DEF Whole
<1> QED
  BY <1>2, <1>4 DEF w, O

\* A step that works on the table cur[p].
LEMMA CurShares ==
    ASSUME MemInv, NEW p \in Owners, NEW w, Whole(w, RestOf(Held, {<<p, "cur">>})), free' = w.free, cur' = [cur EXCEPT ![p] = w.pt],
           tf' = tf, \A q \in Owners : call'[q].new = call[q].new /\ call'[q].argv = call[q].argv
    PROVE  ShareInv'
<1> DEFINE x == <<p, "cur">>
           O == RestOf(Held, {x})
<1>1. MemType /\ ShareInv /\ Shares(Held, free)
  BY DEF MemInv, ShareInv
<1>2. cur'[p] = w.pt /\ \A q \in Owners : q # p => cur'[q] = cur[q]
  BY <1>1 DEF MemType
<1>3. w \in Works /\ O \subseteq Pages /\ O \intersect w.free = {} /\ Distinct(w.pt) /\ Owned(w.pt) = Pages \ (w.free \union O) /\ w.free \subseteq Pages
  BY DEF Whole, Works
<1>4. x \in Holders /\ Held'[x] = Owned(w.pt)
  BY <1>2, HeldIs
<1>5. \A y \in Holders \ {x} : Held'[y] = Held[y]
  <2>1. \A q \in Owners : /\ <<q, "cur">> \in {x} \/ cur'[q] = cur[q]
                          /\ <<q, "new">> \in {x} \/ call'[q].new = call[q].new
                          /\ <<q, "argv">> \in {x} \/ call'[q].argv = call[q].argv
                          /\ <<q, "tf">> \in {x} \/ tf'[q] = tf[q]
    BY <1>2
  <2> HIDE DEF x
  <2> QED
    BY <2>1, HeldSame
<1> HIDE DEF x
<1>6. Reshared(Held, {x}, Held', free')
  <2>1. \A y \in {x} : Held'[y] \subseteq Pages /\ Held'[y] \intersect (O \union free') = {}
    BY <1>3, <1>4
  <2>2. \A pg \in Pages : pg \in free' \/ pg \in O \/ \E y \in {x} : pg \in Held'[y]
    BY <1>3, <1>4
  <2> QED
    BY <1>3, <1>5, <2>1, <2>2 DEF Reshared
<1>7. {x} \subseteq Holders
  BY <1>4
<1>8. Shares(Held', free')
  BY <1>1, <1>6, <1>7, Reshare
<1>9. \A q \in Owners : OneEach(q)'
  BY <1>1, <1>2, <1>3 DEF OneEach, ShareInv, Distinct, Own
<1>10. Shares(Held, free)'
  BY <1>8 DEF Shares
<1> QED
  BY <1>9, <1>10 DEF ShareInv

\* A step that works on the table of exec.
LEMMA NewShares ==
    ASSUME MemInv, NEW p \in Owners, NEW w, Whole(w, RestOf(Held, {<<p, "new">>})), free' = w.free, cur' = cur, tf' = tf,
           call'[p].new = w.pt, call'[p].argv = call[p].argv, \A q \in Owners : q # p => call'[q] = call[q]
    PROVE  ShareInv'
<1> DEFINE x == <<p, "new">>
           O == RestOf(Held, {x})
<1>1. MemType /\ ShareInv /\ Shares(Held, free)
  BY DEF MemInv, ShareInv
<1>3. w \in Works /\ O \subseteq Pages /\ O \intersect w.free = {} /\ Distinct(w.pt) /\ Owned(w.pt) = Pages \ (w.free \union O) /\ w.free \subseteq Pages
  BY DEF Whole, Works
<1>4. x \in Holders /\ Held'[x] = Owned(w.pt)
  BY HeldIs
<1>5. \A y \in Holders \ {x} : Held'[y] = Held[y]
  <2>1. \A q \in Owners : /\ <<q, "cur">> \in {x} \/ cur'[q] = cur[q]
                          /\ <<q, "new">> \in {x} \/ call'[q].new = call[q].new
                          /\ <<q, "argv">> \in {x} \/ call'[q].argv = call[q].argv
                          /\ <<q, "tf">> \in {x} \/ tf'[q] = tf[q]
    OBVIOUS
  <2> HIDE DEF x
  <2> QED
    BY <2>1, HeldSame
<1> HIDE DEF x
<1>6. Reshared(Held, {x}, Held', free')
  <2>1. \A y \in {x} : Held'[y] \subseteq Pages /\ Held'[y] \intersect (O \union free') = {}
    BY <1>3, <1>4
  <2>2. \A pg \in Pages : pg \in free' \/ pg \in O \/ \E y \in {x} : pg \in Held'[y]
    BY <1>3, <1>4
  <2> QED
    BY <1>3, <1>5, <2>1, <2>2 DEF Reshared
<1>7. {x} \subseteq Holders
  BY <1>4
<1>8. Shares(Held', free')
  BY <1>1, <1>6, <1>7, Reshare
<1>9. \A q \in Owners : OneEach(q)'
  <2> SUFFICES ASSUME NEW q \in Owners
               PROVE  OneEach(q)'
    OBVIOUS
  <2>1. CASE q = p
    BY <1>1, <1>3, <2>1 DEF OneEach, ShareInv, Distinct, Own
  <2>2. CASE q # p
    BY <1>1, <2>2 DEF OneEach, ShareInv, Distinct, Own
  <2> QED
    BY <2>1, <2>2
<1>10. Shares(Held, free)'
  BY <1>8 DEF Shares
<1> QED
  BY <1>9, <1>10 DEF ShareInv

\* A step that moves no page.
LEMMA NoneShares ==
    ASSUME MemInv, free' = free, cur' = cur, tf' = tf,
           \A q \in Owners : call'[q].new = call[q].new /\ call'[q].argv = call[q].argv
    PROVE  ShareInv'
<1>1. MemType /\ ShareInv /\ Shares(Held, free)
  BY DEF MemInv, ShareInv
<1>2. \A y \in Holders : Held'[y] = Held[y]
  <2> DEFINE X == {}
  <2>1. \A q \in Owners : /\ <<q, "cur">> \in X \/ cur'[q] = cur[q]
                          /\ <<q, "new">> \in X \/ call'[q].new = call[q].new
                          /\ <<q, "argv">> \in X \/ call'[q].argv = call[q].argv
                          /\ <<q, "tf">> \in X \/ tf'[q] = tf[q]
    OBVIOUS
  <2>2. Holders \ X = Holders
    OBVIOUS
  <2> HIDE DEF X
  <2> QED
    BY <2>1, <2>2, HeldSame
<1>3. Shares(Held, free)'
  BY <1>1, <1>2 DEF Shares
<1>4. \A q \in Owners : OneEach(q)'
  BY <1>1 DEF OneEach, ShareInv, Distinct, Own
<1> QED
  BY <1>3, <1>4 DEF ShareInv

\* A step of one process that changes nothing of the others, and no page but
\* those of the holders in X, which are its own.
LEMMA OneActor ==
    ASSUME MemInv, NEW p \in Owners, mpc[p] # "embryo", NEW X \in SUBSET Holders, \A x \in X : x[1] = p,
           \A q \in Owners : q # p => Same(q),
           \A pg \in RestOf(Held, X) : mem'[pg] = mem[pg]
    PROVE  \A q \in Owners : q # p => Sound(q)'
<1> DEFINE A == {p}
<1>1. A \in SUBSET Owners /\ \A x \in X : x[1] \in A
  OBVIOUS
<1>2. \A q \in Owners \ A : Same(q) /\ (mpc[q] = "fork" => call[q].kid \notin A)
  BY KidIs
<1> HIDE DEF A
<1>3. \A q \in Owners \ A : Sound(q)'
  BY <1>1, <1>2, OthersSound
<1> QED
  BY <1>3 DEF A

\* KidInv is about which processes fork.
LEMMA KidSame ==
    ASSUME MemInv, \A q \in Owners : mpc'[q] = "fork" => mpc[q] = "fork" /\ call'[q].kid = call[q].kid
    PROVE  KidInv'
BY DEF MemInv, KidInv

\* A process with all the pages of its size, and what it expects in them.
UserImage(p) ==
    /\ tf[p] # NoPage /\ Trapframe \in DOMAIN cur[p] /\ cur[p][Trapframe] = tf[p]
    /\ Shape(cur[p], NumPages(size[p])) /\ Len(expect[p]) = NumPages(size[p])
    /\ \A n \in 0 .. NumPages(size[p]) - 1 : mem[cur[p][User(n)]] = expect[p][n + 1]

\* Such a process is sound between its calls.
LEMMA UserSound ==
    ASSUME NEW p \in Owners, mpc'[p] = "user", call'[p] = NoCall(p), UserImage(p)'
    PROVE  Sound(p)'
<1>1. OwnImage(p)'
  BY DEF OwnImage, UserImage, Living
<1>2. /\ call'[p].new = Nothing /\ call'[p].newsz = 0 /\ call'[p].argv = <<>> /\ call'[p].at = 0
  BY DEF NoCall
<1>3. call'[p].at = Done(p)' * PGSIZE
  <2>1. PGSIZE \in Nat \ {0}
    BY MemoryAssumption
  <2>2. 0 \div PGSIZE = 0 /\ 0 * PGSIZE = 0
    BY <2>1
  <2> QED
    BY <1>2, <2>2 DEF Done
<1>4. Loop(p)'
  BY <1>2, <1>3 DEF Loop, Busy
<1>5. Growing(p)' /\ Loading(p)' /\ Forked(p)'
  BY DEF Growing, Loading, Forked
<1> QED
  BY <1>1, <1>4, <1>5 DEF Sound

\* A process that neither grows nor is being made has its image.
LEMMA ImageOf ==
    ASSUME MemInv, NEW p \in Owners, mpc[p] \in Living, mpc[p] # "grow"
    PROVE  UserImage(p)
BY DEF MemInv, Sound, OwnImage, UserImage, Living, Busy

\* A process writes to its memory.
LEMMA UserWriteInv ==
    ASSUME MemInv, NEW p \in Owners, NEW n, UserWrite(p, n)
    PROVE  MemInv'
<1> DEFINE x == <<p, "cur">>
           pg == cur[p][User(n - 1)]
           k == NumPages(size[p])
<1>1. /\ mpc[p] = "user" /\ n \in 1 .. Len(expect[p]) /\ mem' = [mem EXCEPT ![pg] = "written"]
      /\ expect' = [expect EXCEPT ![p][n] = "written"]
      /\ free' = free /\ tf' = tf /\ cur' = cur /\ size' = size /\ mpc' = mpc /\ call' = call /\ panicked' = panicked /\ calls' = calls
  BY DEF UserWrite, InUser
<1>2. MemType /\ ShareInv /\ Sound(p)
  BY DEF MemInv
<1>3. /\ cur[p] \in Tables /\ expect[p] \in Seq(Contents) /\ k \in Nat /\ mem \in [Pages -> Contents]
  BY TypesOf
<1>4. UserImage(p) /\ Shape(cur[p], k) /\ Len(expect[p]) = k
  BY <1>1, ImageOf DEF UserImage, Living, Busy
<1>5. n - 1 \in 0 .. k - 1 /\ n \in 1 .. k
  BY <1>1, <1>3, <1>4
<1>6. pg \in Owned(cur[p]) /\ User(n - 1) \in Own(cur[p])
  BY <1>3, <1>4, <1>5, UserOwned
<1>7. x \in Holders /\ Held[x] = Owned(cur[p])
  BY HeldIs
<1>8. pg \in Pages /\ RestOf(Held, {x}) \subseteq Pages /\ pg \notin RestOf(Held, {x})
  <2>1. Shares(Held, free) /\ {x} \subseteq Holders
    BY <1>2, <1>7 DEF ShareInv
  <2>2. RestOf(Held, {x}) \subseteq Pages /\ RestOf(Held, {x}) \intersect Held[x] = {}
    BY <2>1, RestIs
  <2> QED
    BY <1>6, <1>7, <2>1, <2>2 DEF Shares
<1>9. mem' \in [Pages -> Contents] /\ mem'[pg] = "written" /\ \A q \in Pages : q # pg => mem'[q] = mem[q]
  BY <1>1, <1>3, <1>8 DEF Contents
<1>10. expect'[p] = [expect[p] EXCEPT ![n] = "written"] /\ \A q \in Owners : q # p => expect'[q] = expect[q]
  BY <1>1, <1>2 DEF MemType
<1>11. expect'[p] \in Seq(Contents) /\ Len(expect'[p]) = k /\ \A i \in 1 .. k : expect'[p][i] = IF i = n THEN "written" ELSE expect[p][i]
  BY <1>3, <1>4, <1>5, <1>10 DEF Contents
<1>12. MemType'
  <2>1. expect' \in [Owners -> Seq(Contents)]
    <3>1. \A q \in Owners : expect'[q] \in Seq(Contents)
      BY <1>2, <1>10, <1>11 DEF MemType
    <3>2. DOMAIN expect' = Owners /\ expect' = [q \in DOMAIN expect' |-> expect'[q]]
      BY <1>1, <1>2 DEF MemType
    <3> QED
      BY <3>1, <3>2
  <2> QED
    BY <1>1, <1>2, <1>9, <2>1 DEF MemType
<1>13. ShareInv'
  BY <1>1, NoneShares
<1>14. \A q \in Owners : q # p => Sound(q)'
  <2>1. \A q \in Owners : q # p => Same(q)
    BY <1>1, <1>10 DEF Same
  <2>2. {x} \in SUBSET Holders /\ \A y \in {x} : y[1] = p
    BY <1>7
  <2>3. \A q \in RestOf(Held, {x}) : mem'[q] = mem[q]
    BY <1>8, <1>9
  <2> HIDE DEF x
  <2> QED
    BY <1>1, <2>1, <2>2, <2>3, OneActor
<1>15. UserImage(p)'
  <2>1. ASSUME NEW m \in 0 .. k - 1 PROVE mem'[cur[p][User(m)]] = expect'[p][m + 1]
    <3>0. m + 1 \in 1 .. k /\ (m + 1 = n <=> m = n - 1)
      BY <1>3, <1>5
    <3>1. CASE m = n - 1
      BY <1>9, <1>11, <3>0, <3>1
    <3>2. CASE m # n - 1
      <4>1. User(m) \in Own(cur[p]) /\ cur[p][User(m)] \in Owned(cur[p])
        BY <1>3, <1>4, UserOwned
      <4>2. User(m) # User(n - 1)
        BY <3>2, SlotNames
      <4>3. cur[p][User(m)] # pg
        BY <1>2, <1>6, <4>1, <4>2 DEF ShareInv, OneEach, Distinct
      <4>4. cur[p][User(m)] \in Pages
        BY <1>2, <1>7, <4>1 DEF ShareInv, Shares
      <4>5. mem[cur[p][User(m)]] = expect[p][m + 1]
        BY <1>4 DEF UserImage
      <4> QED
        BY <1>9, <1>11, <3>0, <3>2, <4>3, <4>4, <4>5
    <3> QED
      BY <3>1, <3>2
  <2> QED
    BY <1>1, <1>4, <1>11, <2>1 DEF UserImage, Shape
<1>16. Sound(p)'
  <2>1. call'[p] = NoCall(p) /\ mpc'[p] = "user"
    BY <1>1, <1>2 DEF Sound, Loop, Busy
  <2> QED
    BY <1>15, <2>1, UserSound
<1>17. KidInv'
  BY <1>1, KidSame
<1> QED
  BY <1>12, <1>13, <1>14, <1>16, <1>17 DEF MemInv

\* uvmdealloc of the last pages.
LEMMA Dealloc ==
    ASSUME NEW w, NEW O, Whole(w, O), NEW a \in Nat, NEW b \in Nat, a <= b, Shape(w.pt, b),
           NEW old, NEW new, NumPages(old) = b, NumPages(new) = a
    PROVE  Cut(w, UvmDealloc(w, old, new), O, UserSlots(a, b)) /\ Shape(UvmDealloc(w, old, new).pt, a)
<1> DEFINE S == UserSlots(a, b)
           v == UvmDealloc(w, old, new)
<1>1. v = Unmap(w, S, TRUE)
  BY DEF UvmDealloc
<1>2. S \intersect Mapped = {} /\ S \subseteq UserSlots(0, b) /\ UserSlots(0, b) \ S = UserSlots(0, a)
  <2>1. S \intersect Mapped = {}
    BY UserSlotsIs
  <2>2. \A i \in a .. b - 1 : i \in 0 .. b - 1
    OBVIOUS
  <2>3. \A i \in 0 .. b - 1 : i \in 0 .. a - 1 \/ i \in a .. b - 1
    OBVIOUS
  <2>4. \A i \in 0 .. a - 1 : i \in 0 .. b - 1 /\ i \notin a .. b - 1
    OBVIOUS
  <2> QED
    BY <2>1, <2>2, <2>3, <2>4, SlotNames DEF UserSlots
<1>3. S \subseteq Own(w.pt)
  BY <1>2 DEF Shape, Own, Leaves
<1> HIDE DEF S
<1>4. Cut(w, Unmap(w, S, TRUE), O, S)
  BY <1>3, UnmapFrees
<1> HIDE DEF v
<1>5. Leaves(v.pt) = UserSlots(0, a) \union Mapped
  BY <1>1, <1>2, <1>4 DEF Cut, Shape
<1> QED
  BY <1>1, <1>4, <1>5 DEF Shape, S, v

\* The operations on cur[p].
LEMMA CurWork ==
    ASSUME MemInv, NEW p \in Owners
    PROVE  LET w == Work(cur[p])
               O == RestOf(Held, {<<p, "cur">>})
           IN Whole(w, O) /\ w.ok /\ w.pt = cur[p] /\ ~w.panic /\ w.mem = mem /\ w.free = free
<1>1. <<p, "cur">> \in Holders /\ Owned(cur[p]) = Held[<<p, "cur">>]
  BY HeldIs
<1>2. Distinct(cur[p]) /\ cur[p] \in Tables
  BY TypesOf DEF MemInv, ShareInv, OneEach
<1> QED
  BY <1>1, <1>2, WorkWhole

\* What the operations leave in the pool and in the pages.
LEMMA PoolIs ==
    ASSUME MemInv, NEW w0, NEW w, NEW O, Whole(w, O), Kept(w0, w, O), ~w0.panic, w0.mem = mem, Pool(w)
    PROVE  /\ free' = w.free /\ mem' = w.mem /\ panicked' = FALSE /\ mem' \in [Pages -> Contents]
           /\ \A pg \in O : mem'[pg] = mem[pg]
<1>1. free' = w.free /\ mem' = w.mem /\ panicked' = (panicked \/ w.panic) /\ panicked = FALSE
  BY DEF Pool, MemInv, MemType
<1>2. w.panic = w0.panic /\ w \in Works
  BY DEF Kept, Whole
<1>3. w.panic = FALSE /\ w.mem \in [Pages -> Contents]
  BY <1>2 DEF Works
<1> QED
  BY <1>1, <1>3 DEF Kept

\* The first k pages of a table stayed where they were.
LEMMA ImageKept ==
    ASSUME NEW w, NEW v, NEW O, Kept(w, v, O), NEW i \in Nat, NEW j \in Nat, Shape(w.pt, i), Shape(v.pt, j),
           NEW k \in Nat, k <= i, k <= j
    PROVE  /\ \A n \in 0 .. k - 1 : v.pt[User(n)] = w.pt[User(n)] /\ v.mem[v.pt[User(n)]] = w.mem[w.pt[User(n)]]
           /\ v.pt[Trapframe] = w.pt[Trapframe] /\ Trapframe \in DOMAIN v.pt
<1>1. ASSUME NEW n \in 0 .. k - 1 PROVE v.pt[User(n)] = w.pt[User(n)] /\ v.mem[v.pt[User(n)]] = w.mem[w.pt[User(n)]]
  <2>1. n \in 0 .. i - 1 /\ n \in 0 .. j - 1
    OBVIOUS
  <2>2. User(n) \in DOMAIN w.pt /\ User(n) \in DOMAIN v.pt /\ User(n) \notin Mapped
    BY <2>1, UserOwned DEF Own
  <2> QED
    BY <2>2 DEF Kept
<1>2. Trapframe \in DOMAIN v.pt /\ Trapframe \in DOMAIN w.pt
  BY DEF Shape, Leaves, Mapped
<1> QED
  BY <1>1, <1>2 DEF Kept

\* A step of one process on its own table leaves the others sound.
LEMMA CurActor ==
    ASSUME MemInv, NEW p \in Owners, mpc[p] # "embryo", \A q \in Owners : q # p => Same(q),
           \A pg \in RestOf(Held, {<<p, "cur">>}) : mem'[pg] = mem[pg]
    PROVE  \A q \in Owners : q # p => Sound(q)'
<1> DEFINE x == <<p, "cur">>
<1>1. x \in Holders /\ x[1] = p
  BY HeldIs
<1> HIDE DEF x
<1>2. {x} \in SUBSET Holders /\ (\A y \in {x} : y[1] = p) /\ \A pg \in RestOf(Held, {x}) : mem'[pg] = mem[pg]
  BY <1>1 DEF x
<1> QED
  BY <1>2, OneActor

\* So does a step on the table that exec builds.
LEMMA NewActor ==
    ASSUME MemInv, NEW p \in Owners, mpc[p] # "embryo", \A q \in Owners : q # p => Same(q),
           \A pg \in RestOf(Held, {<<p, "new">>}) : mem'[pg] = mem[pg]
    PROVE  \A q \in Owners : q # p => Sound(q)'
<1> DEFINE x == <<p, "new">>
<1>1. x \in Holders /\ x[1] = p
  BY HeldIs
<1> HIDE DEF x
<1>2. {x} \in SUBSET Holders /\ (\A y \in {x} : y[1] = p) /\ \A pg \in RestOf(Held, {x}) : mem'[pg] = mem[pg]
  BY <1>1 DEF x
<1> QED
  BY <1>2, OneActor

\* So does a step that touches no page.
LEMMA NoneActor ==
    ASSUME MemInv, NEW p \in Owners, mpc[p] # "embryo", \A q \in Owners : q # p => Same(q), mem' = mem
    PROVE  \A q \in Owners : q # p => Sound(q)'
<1> DEFINE X == {}
<1>1. X \in SUBSET Holders /\ (\A y \in X : y[1] = p) /\ \A pg \in RestOf(Held, X) : mem'[pg] = mem[pg]
  OBVIOUS
<1> HIDE DEF X
<1> QED
  BY <1>1, OneActor

\* sbrk gives pages back.
LEMMA SbrkShrinkInv ==
    ASSUME MemInv, NEW p \in Owners, NEW n \in Int, SbrkShrink(p, n)
    PROVE  MemInv'
<1> DEFINE x == <<p, "cur">>
           O == RestOf(Held, {x})
           w0 == Work(cur[p])
           sz == Shrunk(p, n)
           w == UvmDealloc(w0, size[p], sz)
           b == NumPages(size[p])
           a == NumPages(sz)
<1>1. /\ mpc[p] = "user" /\ n <= 0 /\ Pool(w) /\ cur' = [cur EXCEPT ![p] = w.pt] /\ size' = [size EXCEPT ![p] = sz]
      /\ expect' = [expect EXCEPT ![p] = SubSeq(expect[p], 1, a)] /\ calls' = calls + 1
      /\ tf' = tf /\ mpc' = mpc /\ call' = call
  BY DEF SbrkShrink, MayCall, InUser, MemInv, MemType
<1>2. MemType /\ ShareInv /\ Sound(p)
  BY DEF MemInv
<1>3. /\ cur[p] \in Tables /\ expect[p] \in Seq(Contents) /\ b \in Nat /\ size[p] \in Nat
  BY TypesOf
<1>4. sz \in Nat /\ sz <= size[p]
  BY <1>1, <1>3 DEF Shrunk
<1>5. a \in Nat /\ a <= b
  BY <1>3, <1>4, MorePages
<1>6. UserImage(p) /\ Shape(cur[p], b) /\ Len(expect[p]) = b
  BY <1>1, ImageOf DEF UserImage, Living, Busy
<1>7. Whole(w0, O) /\ w0.ok /\ w0.pt = cur[p] /\ ~w0.panic /\ w0.mem = mem /\ w0.free = free
  BY CurWork
<1> HIDE DEF w0, O, sz
<1>8. Cut(w0, w, O, UserSlots(a, b)) /\ Shape(w.pt, a)
  BY <1>3, <1>5, <1>6, <1>7, Dealloc
<1> HIDE DEF w
<1>9. Whole(w, O) /\ Kept(w0, w, O) /\ w.pt \in Tables
  BY <1>8 DEF Cut, Whole, Works
<1>10. /\ free' = w.free /\ mem' = w.mem /\ panicked' = FALSE /\ mem' \in [Pages -> Contents]
       /\ \A pg \in O : mem'[pg] = mem[pg]
  BY <1>1, <1>7, <1>9, PoolIs
<1>11. /\ cur'[p] = w.pt /\ size'[p] = sz /\ expect'[p] = SubSeq(expect[p], 1, a)
       /\ \A q \in Owners : q # p => cur'[q] = cur[q] /\ size'[q] = size[q] /\ expect'[q] = expect[q]
  BY <1>1, <1>2 DEF MemType
<1>12. expect'[p] \in Seq(Contents) /\ Len(expect'[p]) = a /\ \A i \in 1 .. a : expect'[p][i] = expect[p][i]
  BY <1>3, <1>5, <1>6, <1>11
<1>13. MemType'
  <2>1. expect' \in [Owners -> Seq(Contents)]
    BY <1>1, <1>2, <1>11, <1>12 DEF MemType
  <2>2. cur' \in [Owners -> Tables] /\ size' \in [Owners -> Nat] /\ calls' \in Nat
    BY <1>1, <1>2, <1>4, <1>9 DEF MemType
  <2> QED
    BY <1>1, <1>2, <1>10, <2>1, <2>2 DEF MemType
<1>14. ShareInv'
  BY <1>1, <1>9, <1>10, CurShares DEF O
<1>15. \A q \in Owners : q # p => Sound(q)'
  <2>1. \A q \in Owners : q # p => Same(q)
    BY <1>1, <1>11 DEF Same
  <2> QED
    BY <1>1, <1>10, <2>1, CurActor DEF O
<1>16. UserImage(p)'
  <2>1. Trapframe \in DOMAIN w.pt /\ Trapframe \in DOMAIN cur[p] /\ w.pt[Trapframe] = cur[p][Trapframe]
    <3>1. Trapframe \in DOMAIN w.pt /\ Trapframe \in DOMAIN cur[p]
      BY <1>6, <1>8 DEF Shape, Leaves, Mapped
    <3> QED
      BY <1>7, <1>9, <3>1 DEF Kept
  <2>2. ASSUME NEW m \in 0 .. a - 1 PROVE mem'[w.pt[User(m)]] = expect'[p][m + 1]
    <3>1. m \in 0 .. b - 1 /\ m + 1 \in 1 .. a
      BY <1>3, <1>5
    <3>2. User(m) \in DOMAIN cur[p] /\ User(m) \in DOMAIN w.pt /\ User(m) \notin Mapped
      BY <1>3, <1>5, <1>6, <1>8, <3>1, UserOwned DEF Own
    <3>3. w.mem[w.pt[User(m)]] = mem[cur[p][User(m)]]
      BY <1>7, <1>9, <3>2 DEF Kept
    <3>4. mem[cur[p][User(m)]] = expect[p][m + 1]
      BY <1>6, <3>1 DEF UserImage
    <3> QED
      BY <1>10, <1>12, <3>1, <3>3, <3>4
  <2>3. tf[p] # NoPage /\ cur[p][Trapframe] = tf[p]
    BY <1>6 DEF UserImage
  <2> QED
    BY <1>1, <1>8, <1>11, <1>12, <2>1, <2>2, <2>3 DEF UserImage, Shape
<1>17. Sound(p)'
  <2>1. call'[p] = NoCall(p) /\ mpc'[p] = "user"
    BY <1>1, <1>2 DEF Sound, Loop, Busy
  <2> QED
    BY <1>16, <2>1, UserSound
<1>18. KidInv'
  BY <1>1, KidSame
<1> QED
  BY <1>13, <1>14, <1>15, <1>17, <1>18 DEF MemInv

\* A page was added to the table, or nothing but page-table pages was.
Added(w, v, n, c, O) ==
    /\ Whole(v, O) /\ Kept(w, v, O) /\ DOMAIN w.pt \subseteq DOMAIN v.pt
    /\ v.ok => v.mem[v.pt[User(n)]] = c /\ Leaves(v.pt) = Leaves(w.pt) \union {User(n)}
    /\ ~v.ok => Leaves(v.pt) = Leaves(w.pt)

\* A turn of uvmalloc or uvmcopy.
LEMMA PageAdded ==
    ASSUME NEW w, NEW O, Whole(w, O), w.ok, NEW n \in Nat, User(n) \notin DOMAIN w.pt, NEW c \in Contents
    PROVE  Added(w, AddPage(w, n, c), n, c, O)
<1> DEFINE v == AddPage(w, n, c)
<1>1. v = AddPage(w, n, c)
  OBVIOUS
<1> HIDE DEF v
<1>2. /\ Whole(v, O) /\ Kept(w, v, O) /\ DOMAIN w.pt \subseteq DOMAIN v.pt
      /\ v.ok => v.mem[v.pt[User(n)]] = c /\ Leaves(v.pt) = Leaves(w.pt) \union {User(n)}
      /\ ~v.ok => Leaves(v.pt) = Leaves(w.pt)
  BY <1>1, AddPageWhole
<1>3. Added(w, v, n, c, O)
  BY <1>2 DEF Added
<1> QED
  BY <1>1, <1>3

\* The page that comes next is not mapped, and with it the table is longer.
LEMMA NextPage ==
    ASSUME NEW pt, NEW k \in Nat, Shape(pt, k)
    PROVE  /\ User(k) \notin DOMAIN pt
           /\ \A t : Leaves(t) = Leaves(pt) \union {User(k)} => Shape(t, k + 1)
<1>1. User(k) \notin UserSlots(0, k) /\ User(k) \notin Mapped /\ User(k)[1] = "user"
  BY UserSlotsIs, SlotNames
<1>2. User(k) \notin DOMAIN pt
  BY <1>1 DEF Shape, Leaves
<1>3. UserSlots(0, k) \union {User(k)} = UserSlots(0, k + 1)
  <2>1. \A i \in 0 .. (k + 1) - 1 : i = k \/ i \in 0 .. k - 1
    OBVIOUS
  <2>2. k \in 0 .. (k + 1) - 1 /\ \A i \in 0 .. k - 1 : i \in 0 .. (k + 1) - 1
    OBVIOUS
  <2> QED
    BY <2>1, <2>2 DEF UserSlots
<1>4. \A t : Leaves(t) = Leaves(pt) \union {User(k)} => Leaves(t) = UserSlots(0, k + 1) \union Mapped
  BY <1>3 DEF Shape
<1> QED
  BY <1>2, <1>4 DEF Shape

\* sbrk starts to grow the process.
LEMMA SbrkGrowInv ==
    ASSUME MemInv, NEW p \in Owners, NEW n \in Int, SbrkGrow(p, n)
    PROVE  MemInv'
<1> DEFINE sz == size[p]
           k == NumPages(sz)
<1>1. /\ mpc[p] = "user" /\ n > 0 /\ call' = [call EXCEPT ![p].at = PGROUNDUP(sz), ![p].goal = sz + n]
      /\ mpc' = [mpc EXCEPT ![p] = "grow"] /\ calls' = calls + 1
      /\ free' = free /\ mem' = mem /\ tf' = tf /\ cur' = cur /\ size' = size /\ expect' = expect /\ panicked' = panicked
  BY DEF SbrkGrow, MayCall, InUser, Doing
<1>2. MemType /\ ShareInv /\ Sound(p)
  BY DEF MemInv
<1>3. k \in Nat /\ sz \in Nat /\ call[p] \in Locals
  BY TypesOf
<1>4. PGROUNDUP(sz) \in Nat /\ PGROUNDUP(sz) = k * PGSIZE /\ sz + n \in Nat /\ sz < sz + n
  BY <1>1, <1>3, RoundUp
<1>5. /\ call'[p] = [call[p] EXCEPT !.at = PGROUNDUP(sz), !.goal = sz + n] /\ mpc'[p] = "grow"
      /\ \A q \in Owners : q # p => call'[q] = call[q] /\ mpc'[q] = mpc[q]
  BY <1>1, <1>2 DEF MemType
<1>6. /\ call'[p] \in Locals /\ call'[p].at = PGROUNDUP(sz) /\ call'[p].goal = sz + n /\ call'[p].new = call[p].new
      /\ call'[p].argv = call[p].argv /\ call'[p].newsz = call[p].newsz
  <2> DEFINE a == PGROUNDUP(sz)
             g == sz + n
  <2>1. a \in Nat /\ g \in Nat /\ call'[p] = [call[p] EXCEPT !.at = a, !.goal = g]
    BY <1>4, <1>5
  <2> HIDE DEF a, g
  <2>2. call'[p] \in Locals /\ call'[p].at = a /\ call'[p].goal = g /\ call'[p].new = call[p].new
        /\ call'[p].argv = call[p].argv /\ call'[p].newsz = call[p].newsz
    BY <1>3, <2>1 DEF Locals
  <2> QED
    BY <2>2 DEF a, g
<1>7. MemType'
  <2>1. call' \in [Owners -> Locals]
    BY <1>1, <1>2, <1>5, <1>6 DEF MemType
  <2>2. mpc' \in [Owners -> Living \union {"unused", "embryo"}] /\ calls' \in Nat
    BY <1>1, <1>2 DEF MemType, Living, Busy
  <2> QED
    BY <1>1, <1>2, <2>1, <2>2 DEF MemType
<1>8. ShareInv'
  BY <1>1, <1>5, <1>6, NoneShares
<1>9. \A q \in Owners : q # p => Sound(q)'
  <2>1. \A q \in Owners : q # p => Same(q)
    BY <1>1, <1>5 DEF Same
  <2> QED
    BY <1>1, <2>1, NoneActor
<1>10. Done(p)' = k
  BY <1>3, <1>4, <1>6, PageNumber DEF Done
<1>11. call[p] = NoCall(p)
  BY <1>1, <1>2 DEF Sound, Loop, Busy
<1>12. Loop(p)'
  <2>1. call'[p].new = Nothing /\ call'[p].newsz = 0 /\ call'[p].argv = <<>>
    BY <1>6, <1>11 DEF NoCall
  <2> QED
    BY <1>4, <1>5, <1>6, <1>10, <2>1 DEF Loop, Busy
<1>13. UserImage(p)
  BY <1>1, ImageOf DEF Living, Busy
<1>14. OwnImage(p)'
  BY <1>1, <1>5, <1>10, <1>13 DEF OwnImage, UserImage, Living, Busy
<1>15. Growing(p)'
  <2>1. NumPages(sz) <= NumPages(sz + n)
    BY <1>3, <1>4, MorePages
  <2>2. k .. k - 1 = {}
    BY <1>3
  <2> QED
    BY <1>1, <1>3, <1>4, <1>6, <1>10, <2>1, <2>2 DEF Growing
<1>16. Loading(p)' /\ Forked(p)'
  BY <1>5 DEF Loading, Forked
<1>17. Sound(p)'
  BY <1>12, <1>14, <1>15, <1>16 DEF Sound
<1>18. KidInv'
  <2>1. \A q \in Owners : mpc'[q] = "fork" => mpc[q] = "fork" /\ call'[q].kid = call[q].kid
    BY <1>5
  <2> QED
    BY <2>1, KidSame
<1> QED
  BY <1>7, <1>8, <1>9, <1>17, <1>18 DEF MemInv

\* Facts about a process in the loop of uvmalloc for sbrk.
LEMMA GrowingIs ==
    ASSUME MemInv, NEW p \in Owners, mpc[p] = "grow"
    PROVE  /\ call[p].at = Done(p) * PGSIZE /\ Done(p) \in Nat /\ NumPages(size[p]) <= Done(p) /\ Done(p) <= NumPages(call[p].goal)
           /\ size[p] < call[p].goal /\ Shape(cur[p], Done(p)) /\ Len(expect[p]) = NumPages(size[p])
           /\ (\A n \in 0 .. NumPages(size[p]) - 1 : mem[cur[p][User(n)]] = expect[p][n + 1])
           /\ (\A n \in NumPages(size[p]) .. Done(p) - 1 : mem[cur[p][User(n)]] = "zero")
           /\ tf[p] # NoPage /\ Trapframe \in DOMAIN cur[p] /\ cur[p][Trapframe] = tf[p]
           /\ call[p].new = Nothing /\ call[p].argv = <<>> /\ call[p].newsz = 0
<1>1. OwnImage(p) /\ Loop(p) /\ Growing(p) /\ Done(p) \in Nat
  BY TypesOf DEF Sound
<1> QED
  BY <1>1 DEF OwnImage, Loop, Growing, Living, Busy

\* A call returns.
LEMMA ReturnIs ==
    ASSUME MemInv, NEW p \in Owners, Return(p)
    PROVE  /\ call'[p] = NoCall(p) /\ mpc'[p] = "user" /\ call'[p].new = Nothing /\ call'[p].argv = <<>>
           /\ call' \in [Owners -> Locals] /\ mpc' \in [Owners -> Living \union {"unused", "embryo"}]
           /\ \A q \in Owners : q # p => call'[q] = call[q] /\ mpc'[q] = mpc[q]
           /\ KidInv'
<1>1. MemType /\ mpc' = [mpc EXCEPT ![p] = "user"] /\ call' = [call EXCEPT ![p] = NoCall(p)]
  BY DEF MemInv, Return, Doing
<1>2. call'[p] = NoCall(p) /\ mpc'[p] = "user" /\ \A q \in Owners : q # p => call'[q] = call[q] /\ mpc'[q] = mpc[q]
  BY <1>1 DEF MemType
<1>3. NoCall(p) \in Locals /\ NoCall(p).new = Nothing /\ NoCall(p).argv = <<>>
  BY NothingIs DEF NoCall, Locals
<1>4. call' \in [Owners -> Locals] /\ mpc' \in [Owners -> Living \union {"unused", "embryo"}]
  BY <1>1, <1>3 DEF MemType, Living
<1>5. KidInv'
  <2>1. \A q \in Owners : mpc'[q] = "fork" => mpc[q] = "fork" /\ call'[q].kid = call[q].kid
    BY <1>2
  <2> QED
    BY <2>1, KidSame
<1> QED
  BY <1>2, <1>3, <1>4, <1>5

\* A turn of uvmalloc for sbrk.
LEMMA GrowPageInv ==
    ASSUME MemInv, NEW p \in Owners, GrowPage(p)
    PROVE  MemInv'
<1> DEFINE O == RestOf(Held, {<<p, "cur">>})
           w0 == Work(cur[p])
           at == call[p].at
           k == Done(p)
           s == NumPages(size[p])
           w == AddPage(w0, k, "zero")
           u == UvmDealloc(w, at, PGROUNDUP(size[p]))
<1>1. /\ mpc[p] = "grow" /\ at < call[p].goal /\ tf' = tf /\ size' = size /\ expect' = expect /\ calls' = calls
      /\ \/ w.ok /\ Pool(w) /\ cur' = [cur EXCEPT ![p] = w.pt] /\ call' = [call EXCEPT ![p].at = @ + PGSIZE] /\ mpc' = mpc
         \/ ~w.ok /\ Pool(u) /\ cur' = [cur EXCEPT ![p] = u.pt] /\ Return(p)
  BY DEF GrowPage, Regrow, Done
<1>2. MemType
  BY DEF MemInv
<1>3. s \in Nat /\ k \in Nat /\ at \in Nat /\ call[p] \in Locals /\ call[p].goal \in Nat /\ size[p] \in Nat
  BY TypesOf
<1>4. /\ at = k * PGSIZE /\ s <= k /\ k <= NumPages(call[p].goal)
      /\ size[p] < call[p].goal /\ Shape(cur[p], k) /\ Len(expect[p]) = s
      /\ (\A n \in 0 .. s - 1 : mem[cur[p][User(n)]] = expect[p][n + 1])
      /\ (\A n \in s .. k - 1 : mem[cur[p][User(n)]] = "zero")
      /\ tf[p] # NoPage /\ Trapframe \in DOMAIN cur[p] /\ cur[p][Trapframe] = tf[p]
      /\ call[p].new = Nothing /\ call[p].argv = <<>> /\ call[p].newsz = 0
  BY <1>1, GrowingIs
<1> HIDE DEF k
<1>5. NumPages(at) = k /\ at + PGSIZE = (k + 1) * PGSIZE /\ at + PGSIZE \in Nat /\ k < NumPages(call[p].goal) /\ NumPages(call[p].goal) \in Nat
  BY <1>1, <1>3, <1>4, LoopAt
<1>6. NumPages(PGROUNDUP(size[p])) = s
  BY <1>3, RoundUp, WholePages
<1>7. Whole(w0, O) /\ w0.ok /\ w0.pt = cur[p] /\ ~w0.panic /\ w0.mem = mem /\ w0.free = free
  BY CurWork
<1> HIDE DEF w0, O
<1>8. User(k) \notin DOMAIN w0.pt /\ "zero" \in Contents
  BY <1>3, <1>4, <1>7, NextPage DEF Contents
<1>12. Added(w0, AddPage(w0, k, "zero"), k, "zero", O)
  BY <1>3, <1>7, <1>8, PageAdded
<1>13. Added(w0, w, k, "zero", O)
  BY <1>12
<1> HIDE DEF w
<1>9. /\ Whole(w, O) /\ Kept(w0, w, O) /\ DOMAIN w0.pt \subseteq DOMAIN w.pt
      /\ w.ok => w.mem[w.pt[User(k)]] = "zero" /\ Leaves(w.pt) = Leaves(w0.pt) \union {User(k)}
      /\ ~w.ok => Leaves(w.pt) = Leaves(w0.pt)
  BY <1>13 DEF Added
<1>10. CASE w.ok /\ Pool(w) /\ cur' = [cur EXCEPT ![p] = w.pt] /\ call' = [call EXCEPT ![p].at = @ + PGSIZE] /\ mpc' = mpc
  <2>1. Shape(w.pt, k + 1)
    BY <1>3, <1>4, <1>7, <1>9, <1>10, NextPage
  <2>2. /\ free' = w.free /\ mem' = w.mem /\ panicked' = FALSE /\ mem' \in [Pages -> Contents] /\ \A pg \in O : mem'[pg] = mem[pg]
    BY <1>7, <1>9, <1>10, PoolIs
  <2>3. w.pt \in Tables
    BY <1>9 DEF Whole, Works
  <2>4. /\ cur'[p] = w.pt /\ call'[p] = [call[p] EXCEPT !.at = @ + PGSIZE]
        /\ \A q \in Owners : q # p => cur'[q] = cur[q] /\ call'[q] = call[q]
    BY <1>2, <1>10 DEF MemType
  <2>5. /\ call'[p] \in Locals /\ call'[p].at = at + PGSIZE /\ call'[p].goal = call[p].goal /\ call'[p].new = call[p].new
        /\ call'[p].argv = call[p].argv /\ call'[p].newsz = call[p].newsz /\ call'[p].kid = call[p].kid
    <3> DEFINE a == at + PGSIZE
    <3>1. a \in Nat /\ call'[p] = [call[p] EXCEPT !.at = a]
      BY <1>3, <1>5, <2>4 DEF Locals
    <3> HIDE DEF a
    <3>2. /\ call'[p] \in Locals /\ call'[p].at = a /\ call'[p].goal = call[p].goal /\ call'[p].new = call[p].new
          /\ call'[p].argv = call[p].argv /\ call'[p].newsz = call[p].newsz /\ call'[p].kid = call[p].kid
      BY <1>3, <3>1 DEF Locals
    <3> QED
      BY <3>2 DEF a
  <2>6. MemType'
    <3>1. cur' \in [Owners -> Tables] /\ call' \in [Owners -> Locals]
      BY <1>2, <1>10, <2>3, <2>4, <2>5 DEF MemType
    <3> QED
      BY <1>1, <1>2, <1>10, <2>2, <3>1 DEF MemType
  <2>7. ShareInv'
    BY <1>1, <1>9, <1>10, <2>2, <2>4, <2>5, CurShares DEF O
  <2>8. \A q \in Owners : q # p => Sound(q)'
    <3>1. \A q \in Owners : q # p => Same(q)
      BY <1>1, <1>10, <2>4 DEF Same
    <3> QED
      BY <1>1, <2>2, <3>1, CurActor DEF O
  <2>9. Done(p)' = k + 1
    BY <1>3, <1>5, <2>5, PageNumber DEF Done
  <2>10. /\ \A n \in 0 .. k - 1 : w.pt[User(n)] = cur[p][User(n)] /\ w.mem[w.pt[User(n)]] = mem[cur[p][User(n)]]
         /\ w.pt[Trapframe] = cur[p][Trapframe] /\ Trapframe \in DOMAIN w.pt
    <3>1. k <= k + 1 /\ k <= k /\ k + 1 \in Nat /\ Shape(w0.pt, k)
      BY <1>3, <1>4, <1>7
    <3> QED
      BY <1>3, <1>7, <1>9, <2>1, <3>1, ImageKept
  <2>11. \A n \in 0 .. s - 1 : mem'[cur'[p][User(n)]] = expect'[p][n + 1]
    <3>1. \A n \in 0 .. s - 1 : n \in 0 .. k - 1
      BY <1>3, <1>4
    <3> QED
      BY <1>1, <1>4, <2>2, <2>4, <2>10, <3>1
  <2>12. OwnImage(p)'
    BY <1>1, <1>4, <1>10, <2>1, <2>4, <2>9, <2>10, <2>11 DEF OwnImage, Shape
  <2>13. Loop(p)'
    BY <1>1, <1>4, <1>5, <1>10, <2>5, <2>9 DEF Loop, Busy
  <2>14. Growing(p)'
    <3>1. ASSUME NEW n \in s .. (k + 1) - 1 PROVE mem'[cur'[p][User(n)]] = "zero"
      <4>1. CASE n = k
        BY <1>9, <1>10, <2>2, <2>4, <4>1
      <4>2. CASE n # k
        <5>1. n \in s .. k - 1 /\ n \in 0 .. k - 1
          BY <1>3, <4>2
        <5> QED
          BY <1>4, <2>2, <2>4, <2>10, <5>1
      <4> QED
        BY <4>1, <4>2
    <3>2. s <= k + 1 /\ k + 1 <= NumPages(call[p].goal)
      BY <1>3, <1>4, <1>5
    <3> QED
      BY <1>1, <1>4, <2>5, <2>9, <3>1, <3>2 DEF Growing
  <2>15. Loading(p)' /\ Forked(p)'
    BY <1>1, <1>10 DEF Loading, Forked
  <2>16. Sound(p)'
    BY <2>12, <2>13, <2>14, <2>15 DEF Sound
  <2>17. KidInv'
    <3>1. \A q \in Owners : mpc'[q] = "fork" => mpc[q] = "fork" /\ call'[q].kid = call[q].kid
      BY <1>10, <2>4, <2>5
    <3> QED
      BY <3>1, KidSame
  <2> QED
    BY <2>6, <2>7, <2>8, <2>16, <2>17 DEF MemInv
<1>11. CASE ~w.ok /\ Pool(u) /\ cur' = [cur EXCEPT ![p] = u.pt] /\ Return(p)
  <2>1. Shape(w.pt, k)
    BY <1>4, <1>7, <1>9, <1>11 DEF Shape
  <2>2. Cut(w, u, O, UserSlots(s, k)) /\ Shape(u.pt, s)
    BY <1>3, <1>4, <1>5, <1>6, <1>9, <2>1, Dealloc
  <2> HIDE DEF u
  <2>3. Whole(u, O) /\ Kept(w, u, O) /\ u.pt \in Tables
    BY <2>2 DEF Cut, Whole, Works
  <2>4. Kept(w0, u, O)
    BY <1>9, <2>3, KeptTrans
  <2>5. /\ free' = u.free /\ mem' = u.mem /\ panicked' = FALSE /\ mem' \in [Pages -> Contents] /\ \A pg \in O : mem'[pg] = mem[pg]
    BY <1>7, <1>11, <2>3, <2>4, PoolIs
  <2>6. /\ call'[p] = NoCall(p) /\ mpc'[p] = "user" /\ call'[p].new = Nothing /\ call'[p].argv = <<>>
        /\ call' \in [Owners -> Locals] /\ mpc' \in [Owners -> Living \union {"unused", "embryo"}]
        /\ (\A q \in Owners : q # p => call'[q] = call[q] /\ mpc'[q] = mpc[q])
        /\ KidInv'
    BY <1>11, ReturnIs
  <2>7. cur'[p] = u.pt /\ \A q \in Owners : q # p => cur'[q] = cur[q]
    BY <1>2, <1>11 DEF MemType
  <2>8. MemType'
    BY <1>1, <1>2, <1>11, <2>3, <2>5, <2>6 DEF MemType
  <2>9. ShareInv'
    <3>1. \A q \in Owners : call'[q].new = call[q].new /\ call'[q].argv = call[q].argv
      BY <1>4, <2>6
    <3> QED
      BY <1>1, <1>11, <2>3, <2>5, <3>1, CurShares DEF O
  <2>10. \A q \in Owners : q # p => Sound(q)'
    <3>1. \A q \in Owners : q # p => Same(q)
      BY <1>1, <2>6, <2>7 DEF Same
    <3> QED
      BY <1>1, <2>5, <3>1, CurActor DEF O
  <2>11. /\ \A n \in 0 .. s - 1 : u.pt[User(n)] = cur[p][User(n)] /\ u.mem[u.pt[User(n)]] = mem[cur[p][User(n)]]
         /\ u.pt[Trapframe] = cur[p][Trapframe] /\ Trapframe \in DOMAIN u.pt
    <3>1. s <= k /\ s <= s /\ Shape(w0.pt, k)
      BY <1>3, <1>4, <1>7
    <3> QED
      BY <1>3, <1>7, <2>2, <2>4, <3>1, ImageKept
  <2>12. UserImage(p)'
    BY <1>1, <1>4, <2>2, <2>5, <2>7, <2>11 DEF UserImage, Shape
  <2>13. Sound(p)'
    BY <2>6, <2>12, UserSound
  <2> QED
    BY <2>6, <2>8, <2>9, <2>10, <2>13 DEF MemInv
<1> QED
  BY <1>1, <1>10, <1>11

\* sbrk has grown the process.
LEMMA GrowDoneInv ==
    ASSUME MemInv, NEW p \in Owners, GrowDone(p)
    PROVE  MemInv'
<1> DEFINE k == Done(p)
           s == NumPages(size[p])
           goal == call[p].goal
           zeros == [i \in 1 .. k - s |-> "zero"]
<1>1. /\ mpc[p] = "grow" /\ call[p].at >= goal /\ size' = [size EXCEPT ![p] = goal] /\ Return(p)
      /\ expect' = [expect EXCEPT ![p] = @ \o [i \in 1 .. NumPages(goal) - Len(@) |-> "zero"]]
      /\ free' = free /\ mem' = mem /\ tf' = tf /\ cur' = cur /\ panicked' = panicked /\ calls' = calls
  BY DEF GrowDone
<1>2. MemType
  BY DEF MemInv
<1>3. s \in Nat /\ k \in Nat /\ call[p].at \in Nat /\ goal \in Nat /\ size[p] \in Nat /\ expect[p] \in Seq(Contents) /\ NumPages(goal) \in Nat
  BY TypesOf
<1>4. /\ call[p].at = k * PGSIZE /\ s <= k /\ k <= NumPages(goal)
      /\ Shape(cur[p], k) /\ Len(expect[p]) = s
      /\ (\A n \in 0 .. s - 1 : mem[cur[p][User(n)]] = expect[p][n + 1])
      /\ (\A n \in s .. k - 1 : mem[cur[p][User(n)]] = "zero")
      /\ tf[p] # NoPage /\ Trapframe \in DOMAIN cur[p] /\ cur[p][Trapframe] = tf[p]
      /\ call[p].new = Nothing /\ call[p].argv = <<>>
  BY <1>1, GrowingIs
<1> HIDE DEF k
<1>5. NumPages(goal) = k
  <2> DEFINE at == call[p].at
  <2>1. at \in Nat /\ goal \in Nat /\ at = k * PGSIZE /\ at >= goal
    BY <1>1, <1>3, <1>4
  <2> HIDE DEF at, goal
  <2>2. at < goal <=> k < NumPages(goal)
    BY <1>3, <2>1, LoopAt
  <2>3. ~(at < goal)
    BY <2>1
  <2> QED
    BY <1>3, <1>4, <2>2, <2>3
<1>6. /\ call'[p] = NoCall(p) /\ mpc'[p] = "user" /\ call'[p].new = Nothing /\ call'[p].argv = <<>>
      /\ call' \in [Owners -> Locals] /\ mpc' \in [Owners -> Living \union {"unused", "embryo"}]
      /\ (\A q \in Owners : q # p => call'[q] = call[q] /\ mpc'[q] = mpc[q])
      /\ KidInv'
  BY <1>1, ReturnIs
<1>7. /\ size'[p] = goal /\ expect'[p] = expect[p] \o zeros
      /\ \A q \in Owners : q # p => size'[q] = size[q] /\ expect'[q] = expect[q]
  BY <1>1, <1>2, <1>4, <1>5 DEF MemType
<1>8. zeros \in Seq(Contents) /\ Len(zeros) = k - s /\ \A i \in 1 .. k - s : zeros[i] = "zero"
  <2>1. k - s \in Nat /\ "zero" \in Contents
    BY <1>3, <1>4 DEF Contents
  <2> QED
    BY <2>1
<1> HIDE DEF zeros
<1>9. /\ expect'[p] \in Seq(Contents) /\ Len(expect'[p]) = k
      /\ \A i \in 1 .. k : expect'[p][i] = IF i <= s THEN expect[p][i] ELSE zeros[i - s]
  <2> DEFINE e == expect[p]
             f == expect'[p]
  <2>1. /\ e \in Seq(Contents) /\ zeros \in Seq(Contents) /\ f = e \o zeros /\ Len(e) = s /\ Len(zeros) = k - s
        /\ s \in Nat /\ k \in Nat /\ s + (k - s) = k
    BY <1>3, <1>4, <1>7, <1>8
  <2> HIDE DEF e, f, s
  <2>2. f \in Seq(Contents) /\ Len(f) = k
    <3>1. e \o zeros \in Seq(Contents) /\ Len(e \o zeros) = Len(e) + Len(zeros)
      BY <2>1, ConcatProperties
    <3> QED
      BY <2>1, <3>1
  <2>3. \A i \in 1 .. k : f[i] = IF i <= s THEN e[i] ELSE zeros[i - s]
    BY <2>1
  <2> QED
    BY <2>2, <2>3 DEF e, f
<1>15. \A i \in 1 .. k : ~(i <= s) => expect'[p][i] = "zero"
  <2>1. \A i \in 1 .. k : ~(i <= s) => i - s \in 1 .. k - s
    BY <1>3, <1>4
  <2> QED
    BY <1>8, <1>9, <2>1
<1>10. MemType'
  <2>1. expect' \in [Owners -> Seq(Contents)]
    BY <1>1, <1>2, <1>7, <1>9 DEF MemType
  <2> QED
    BY <1>1, <1>2, <1>3, <1>6, <2>1 DEF MemType
<1>11. ShareInv'
  <2>1. \A q \in Owners : call'[q].new = call[q].new /\ call'[q].argv = call[q].argv
    BY <1>4, <1>6
  <2> QED
    BY <1>1, <2>1, NoneShares
<1>12. \A q \in Owners : q # p => Sound(q)'
  <2>1. \A q \in Owners : q # p => Same(q)
    BY <1>1, <1>6, <1>7 DEF Same
  <2> QED
    BY <1>1, <2>1, NoneActor
<1>13. UserImage(p)'
  <2>1. ASSUME NEW n \in 0 .. k - 1 PROVE mem[cur[p][User(n)]] = expect'[p][n + 1]
    <3>0. n + 1 \in 1 .. k
      BY <1>3
    <3>1. CASE n < s
      <4>1. n \in 0 .. s - 1 /\ n + 1 <= s
        BY <1>3, <3>1
      <4> QED
        BY <1>4, <1>9, <3>0, <4>1
    <3>2. CASE ~(n < s)
      <4>1. n \in s .. k - 1 /\ ~(n + 1 <= s)
        BY <1>3, <3>2
      <4>2. expect'[p][n + 1] = "zero"
        BY <1>15, <3>0, <4>1
      <4> QED
        BY <1>4, <4>1, <4>2
    <3> QED
      BY <3>1, <3>2
  <2> QED
    BY <1>1, <1>4, <1>5, <1>7, <1>9, <2>1 DEF UserImage, Shape
<1>14. Sound(p)'
  BY <1>6, <1>13, UserSound
<1> QED
  BY <1>6, <1>10, <1>11, <1>12, <1>14 DEF MemInv

\* What is left to the others when one more holder gives up its pages.
LEMMA RestMore ==
    ASSUME NEW H, NEW F, Shares(H, F), NEW X \in SUBSET Holders, NEW y \in Holders, y \notin X
    PROVE  RestOf(H, X \union {y}) = RestOf(H, X) \ H[y] /\ H[y] \subseteq RestOf(H, X)
<1>1. H[y] \subseteq RestOf(H, X)
  BY DEF RestOf, Shares
<1>2. ASSUME NEW pg \in RestOf(H, X \union {y}) PROVE pg \in RestOf(H, X) \ H[y]
  <2>1. PICK x \in Holders \ (X \union {y}) : pg \in H[x] /\ pg \in Pages
    BY DEF RestOf
  <2> QED
    BY <2>1 DEF RestOf, Shares
<1>3. ASSUME NEW pg \in RestOf(H, X) \ H[y] PROVE pg \in RestOf(H, X \union {y})
  <2>1. PICK x \in Holders \ X : pg \in H[x] /\ pg \in Pages
    BY DEF RestOf
  <2>2. x \in Holders \ (X \union {y})
    BY <2>1
  <2> QED
    BY <2>1, <2>2 DEF RestOf
<1> QED
  BY <1>1, <1>2, <1>3

\* The pages of the holders in X and of the pool are now those of one of these
\* holders and of the pool.
LEMMA PagesMoved ==
    ASSUME MemInv, NEW X \in SUBSET Holders, NEW x \in X, NEW w, Whole(w, RestOf(Held, X)), free' = w.free,
           \A y \in Holders \ X : Held'[y] = Held[y], Held'[x] = Owned(w.pt), \A y \in X : y # x => Held'[y] = {},
           \A q \in Owners : OneEach(q)'
    PROVE  ShareInv'
<1> DEFINE O == RestOf(Held, X)
<1>1. Shares(Held, free) /\ X \subseteq Holders
  BY DEF MemInv, ShareInv
<1>2. O \subseteq Pages /\ O \intersect w.free = {} /\ Owned(w.pt) = Pages \ (w.free \union O) /\ w.free \subseteq Pages
  BY DEF Whole, Works
<1>3. Reshared(Held, X, Held', free')
  <2>1. \A y \in X : Held'[y] \subseteq Pages /\ Held'[y] \intersect (O \union free') = {}
    BY <1>2
  <2>2. \A pg \in Pages : pg \in free' \/ pg \in O \/ \E y \in X : pg \in Held'[y]
    BY <1>2
  <2>3. \A y, z \in X : y # z => Held'[y] \intersect Held'[z] = {}
    OBVIOUS
  <2> QED
    BY <1>2, <2>1, <2>2, <2>3 DEF Reshared
<1>4. Shares(Held', free')
  BY <1>1, <1>3, Reshare
<1>5. Shares(Held, free)'
  BY <1>4 DEF Shares
<1> QED
  BY <1>5 DEF ShareInv

\* What a process has between its calls is not touched.
LEMMA ImageSame ==
    ASSUME MemInv, NEW p \in Owners, mpc[p] \in Living, mpc[p] # "grow", tf'[p] = tf[p], cur'[p] = cur[p], size'[p] = size[p], expect'[p] = expect[p],
           \A pg \in Owned(cur[p]) : mem'[pg] = mem[pg]
    PROVE  UserImage(p)'
<1>1. UserImage(p) /\ NumPages(size[p]) \in Nat
  BY ImageOf, TypesOf
<1>2. ASSUME NEW n \in 0 .. NumPages(size[p]) - 1 PROVE mem'[cur[p][User(n)]] = mem[cur[p][User(n)]]
  BY <1>1, UserOwned DEF UserImage
<1> QED
  BY <1>1, <1>2 DEF UserImage, Shape

\* The operations on the table that exec builds.
LEMMA NewWork ==
    ASSUME MemInv, NEW p \in Owners
    PROVE  LET w == Work(call[p].new)
               O == RestOf(Held, {<<p, "new">>})
           IN Whole(w, O) /\ w.ok /\ w.pt = call[p].new /\ ~w.panic /\ w.mem = mem /\ w.free = free
<1>1. <<p, "new">> \in Holders /\ Owned(call[p].new) = Held[<<p, "new">>]
  BY HeldIs
<1>2. Distinct(call[p].new) /\ call[p].new \in Tables
  BY TypesOf DEF MemInv, ShareInv, OneEach
<1> QED
  BY <1>1, <1>2, WorkWhole

\* A table and its pages are gone.
Emptied(w, v, O) == Whole(v, O) /\ Kept(w, v, O) /\ v.pt = Nothing

\* exec fails: the new table is gone, and the pages of the arguments go back.
LEMMA ExecFails ==
    ASSUME MemInv, NEW p \in Owners, mpc[p] \in {"args", "load", "stack"}, NEW v,
           Emptied(Work(call[p].new), v, RestOf(Held, {<<p, "new">>})),
           Pool(FreeArgs(v, p)), Return(p), tf' = tf, cur' = cur, size' = size, expect' = expect, calls' = calls
    PROVE  MemInv'
<1> DEFINE x == <<p, "new">>
           y == <<p, "argv">>
           O == RestOf(Held, {x})
           D == Held[y]
           X == {x} \union {y}
           w0 == Work(call[p].new)
           w == Kfree(v, D)
<1>1. MemType /\ ShareInv /\ Shares(Held, free)
  BY DEF MemInv, ShareInv
<1>2. /\ x \in Holders /\ y \in Holders /\ x # y /\ D = Range(call[p].argv) /\ Held[x] = Owned(call[p].new) /\ x[1] = p /\ y[1] = p
      /\ <<p, "cur">> \in Holders \ X /\ Held[<<p, "cur">>] = Owned(cur[p])
  BY HeldIs
<1>3. Pool(w)
  BY <1>2 DEF FreeArgs
<1>4. Whole(v, O) /\ Kept(w0, v, O) /\ v.pt = Nothing /\ w0.mem = mem /\ ~w0.panic
  BY NewWork DEF Emptied
<1>5. /\ call'[p] = NoCall(p) /\ mpc'[p] = "user" /\ call'[p].new = Nothing /\ call'[p].argv = <<>>
      /\ call' \in [Owners -> Locals] /\ mpc' \in [Owners -> Living \union {"unused", "embryo"}]
      /\ (\A q \in Owners : q # p => call'[q] = call[q] /\ mpc'[q] = mpc[q])
      /\ KidInv'
  BY ReturnIs
<1>6. Held'[x] = {} /\ Held'[y] = {}
  <2>1. Held'[x] = Owned(call'[p].new) /\ Held'[y] = Range(call'[p].argv)
    BY HeldIs
  <2>2. Range(call'[p].argv) = {}
    BY <1>5 DEF Range
  <2> QED
    BY <1>5, <2>1, <2>2, NothingIs
<1>7. \A z \in Holders \ X : Held'[z] = Held[z]
  <2>1. \A q \in Owners : /\ <<q, "cur">> \in X \/ cur'[q] = cur[q]
                          /\ <<q, "new">> \in X \/ call'[q].new = call[q].new
                          /\ <<q, "argv">> \in X \/ call'[q].argv = call[q].argv
                          /\ <<q, "tf">> \in X \/ tf'[q] = tf[q]
    BY <1>5
  <2> HIDE DEF X
  <2> QED
    BY <2>1, HeldSame
<1>8. \A q \in Owners : OneEach(q)'
  <2> SUFFICES ASSUME NEW q \in Owners
               PROVE  OneEach(q)'
    OBVIOUS
  <2>1. OneEach(q)
    BY <1>1 DEF ShareInv
  <2>2. CASE q = p
    <3>1. DOMAIN call'[p].argv = {} /\ Distinct(call'[p].new)
      BY <1>5, NothingIs
    <3> QED
      BY <2>1, <2>2, <3>1 DEF OneEach, Distinct, Own
  <2>3. CASE q # p
    BY <1>5, <2>1, <2>3 DEF OneEach, Distinct, Own
  <2> QED
    BY <2>2, <2>3
<1> HIDE DEF x, y, w0
<1>9. RestOf(Held, X) = O \ D /\ D \subseteq O
  <2>1. {x} \in SUBSET Holders /\ y \notin {x}
    BY <1>2
  <2> QED
    BY <1>1, <1>2, <2>1, RestMore
<1> HIDE DEF O, D
<1>10. Whole(w, O \ D) /\ Kept(v, w, O \ D) /\ w.pt = v.pt
  <2>1. w = Kfree(v, D) /\ D \in SUBSET O
    BY <1>9
  <2> HIDE DEF w
  <2> QED
    BY <1>4, <2>1, KfreeWhole
<1> HIDE DEF w
<1>11. Kept(w0, w, O \ D)
  <2>1. O \ D \in SUBSET O /\ DOMAIN w0.pt \intersect DOMAIN w.pt \subseteq DOMAIN v.pt
    BY <1>10
  <2> QED
    BY <1>4, <1>10, <2>1, KeptTrans
<1>12. /\ free' = w.free /\ mem' = w.mem /\ panicked' = FALSE /\ mem' \in [Pages -> Contents] /\ \A pg \in O \ D : mem'[pg] = mem[pg]
  BY <1>3, <1>4, <1>10, <1>11, PoolIs
<1>13. X \in SUBSET Holders /\ x \in X /\ (\A z \in X : z # x => Held'[z] = {}) /\ Held'[x] = Owned(w.pt) /\ \A z \in X : z[1] = p
  BY <1>2, <1>4, <1>6, <1>10, NothingIs
<1> HIDE DEF X
<1>14. ShareInv'
  <2>1. Whole(w, RestOf(Held, X)) /\ free' = w.free
    BY <1>9, <1>10, <1>12
  <2> QED
    BY <1>7, <1>8, <1>13, <2>1, PagesMoved
<1>15. \A q \in Owners : q # p => Sound(q)'
  <2>1. \A q \in Owners : q # p => Same(q)
    BY <1>5 DEF Same
  <2>2. \A pg \in RestOf(Held, X) : mem'[pg] = mem[pg]
    BY <1>9, <1>12
  <2> QED
    BY <1>13, <2>1, <2>2, OneActor
<1>16. Owned(cur[p]) \subseteq O \ D
  <2>1. \A z \in Holders \ X : Held[z] \subseteq RestOf(Held, X)
    BY <1>1, <1>13, RestIs
  <2> QED
    BY <1>2, <1>9, <2>1
<1>17. UserImage(p)'
  <2>1. mpc[p] \in Living /\ mpc[p] # "grow" /\ \A pg \in Owned(cur[p]) : mem'[pg] = mem[pg]
    BY <1>12, <1>16 DEF Living, Busy
  <2> QED
    BY <2>1, ImageSame
<1>18. Sound(p)'
  BY <1>5, <1>17, UserSound
<1>19. MemType'
  BY <1>1, <1>5, <1>12 DEF MemType
<1> QED
  BY <1>5, <1>14, <1>15, <1>18, <1>19 DEF MemInv

\* sys_exec begins.
LEMMA SysExecInv ==
    ASSUME MemInv, NEW p \in Owners, SysExec(p)
    PROVE  MemInv'
<1>1. /\ mpc[p] = "user" /\ mpc' = [mpc EXCEPT ![p] = "args"] /\ calls' = calls + 1 /\ free' = free /\ mem' = mem /\ tf' = tf /\ cur' = cur
      /\ size' = size /\ call' = call /\ expect' = expect /\ panicked' = panicked
  BY DEF SysExec, MayCall, InUser, Doing
<1>2. MemType /\ Sound(p)
  BY DEF MemInv
<1>3. mpc'[p] = "args" /\ \A q \in Owners : q # p => mpc'[q] = mpc[q]
  BY <1>1, <1>2 DEF MemType
<1>4. MemType'
  <2>1. mpc' \in [Owners -> Living \union {"unused", "embryo"}] /\ calls' \in Nat
    BY <1>1, <1>2 DEF MemType, Living, Busy
  <2> QED
    BY <1>1, <1>2, <2>1 DEF MemType
<1>5. ShareInv'
  BY <1>1, NoneShares
<1>6. \A q \in Owners : q # p => Sound(q)'
  <2>1. \A q \in Owners : q # p => Same(q)
    BY <1>1, <1>3 DEF Same
  <2> QED
    BY <1>1, <2>1, NoneActor
<1>7. OwnImage(p)'
  BY <1>1, <1>2, <1>3 DEF Sound, OwnImage, Living, Busy
<1>8. Loop(p)'
  <2>1. call[p] = NoCall(p) /\ Loop(p)
    BY <1>1, <1>2 DEF Sound, Loop, Busy
  <2>2. call[p].new = Nothing /\ call[p].newsz = 0 /\ call[p].at = 0
    BY <2>1 DEF NoCall
  <2> QED
    BY <1>1, <1>3, <2>1, <2>2 DEF Loop, Busy, Done
<1>9. Growing(p)' /\ Loading(p)' /\ Forked(p)'
  BY <1>3 DEF Growing, Loading, Forked
<1>10. KidInv'
  <2>1. \A q \in Owners : mpc'[q] = "fork" => mpc[q] = "fork" /\ call'[q].kid = call[q].kid
    BY <1>1, <1>3
  <2> QED
    BY <2>1, KidSame
<1> QED
  BY <1>4, <1>5, <1>6, <1>7, <1>8, <1>9, <1>10 DEF MemInv, Sound

\* A process in sys_exec has not begun a new table.
LEMMA ArgsIs ==
    ASSUME MemInv, NEW p \in Owners, mpc[p] = "args"
    PROVE  call[p].new = Nothing /\ call[p].newsz = 0 /\ call[p].at = 0 /\ Done(p) = 0 /\ UserImage(p)
<1>1. Loop(p)
  BY DEF MemInv, Sound
<1>2. call[p].new = Nothing /\ call[p].newsz = 0 /\ call[p].at = 0
  BY <1>1 DEF Loop
<1>3. PGSIZE \in Nat \ {0}
  BY MemoryAssumption
<1>4. Done(p) = 0
  BY <1>2, <1>3 DEF Done
<1> QED
  BY <1>2, <1>4, ImageOf DEF Living, Busy

\* sys_exec or exec refuses before anything was allocated but the arguments.
LEMMA ExecRefusedInv ==
    ASSUME MemInv, NEW p \in Owners, ExecRefused(p)
    PROVE  MemInv'
<1> DEFINE v == Work(Nothing)
           O == RestOf(Held, {<<p, "new">>})
<1>1. /\ mpc[p] = "args" /\ Pool(FreeArgs(v, p)) /\ Return(p)
      /\ tf' = tf /\ cur' = cur /\ size' = size /\ expect' = expect /\ calls' = calls
  BY DEF ExecRefused
<1>2. call[p].new = Nothing
  BY <1>1, ArgsIs
<1>3. Emptied(Work(call[p].new), v, O)
  <2>1. Whole(v, O) /\ v.pt = Nothing
    BY <1>2, NewWork
  <2> HIDE DEF v
  <2>2. Kept(v, v, O)
    BY DEF Kept
  <2> QED
    BY <1>2, <2>1, <2>2 DEF Emptied, v
<1> HIDE DEF v
<1> QED
  BY <1>1, <1>3, ExecFails

\* The image of a process lies outside what exec works on.
LEMMA CurApart ==
    ASSUME MemInv, NEW p \in Owners
    PROVE  Owned(cur[p]) \subseteq RestOf(Held, {<<p, "new">>})
<1>1. <<p, "cur">> \in Holders \ {<<p, "new">>} /\ {<<p, "new">>} \subseteq Holders /\ Held[<<p, "cur">>] = Owned(cur[p])
  BY HeldIs
<1>2. Shares(Held, free)
  BY DEF MemInv, ShareInv
<1> QED
  BY <1>1, <1>2, RestIs

\* One page more for the arguments.
LEMMA MoreArgs ==
    ASSUME NEW a \in Seq(Nat), NEW pg \in Nat, pg \notin Range(a), \A i, j \in DOMAIN a : a[i] = a[j] => i = j, NEW b, b = Append(a, pg)
    PROVE  b \in Seq(Nat) /\ Range(b) = Range(a) \union {pg} /\ \A i, j \in DOMAIN b : b[i] = b[j] => i = j
<1> DEFINE n == Len(a)
<1>1. /\ n \in Nat /\ DOMAIN a = 1 .. n /\ b \in Seq(Nat) /\ Len(b) = n + 1 /\ DOMAIN b = 1 .. n + 1 /\ b[n + 1] = pg
      /\ \A i \in 1 .. n : b[i] = a[i]
  OBVIOUS
<1> HIDE DEF n
<1>2. \A i \in 1 .. n + 1 : i = n + 1 \/ i \in 1 .. n
  BY <1>1
<1>3. n + 1 \in 1 .. n + 1 /\ \A i \in 1 .. n : i \in 1 .. n + 1
  BY <1>1
<1>4. Range(b) = Range(a) \union {pg}
  BY <1>1, <1>2, <1>3 DEF Range
<1>5. \A i \in 1 .. n : a[i] # pg
  BY <1>1 DEF Range
<1>6. ASSUME NEW i \in DOMAIN b, NEW j \in DOMAIN b, b[i] = b[j] PROVE i = j
  <2>1. CASE i \in 1 .. n /\ j \in 1 .. n
    BY <1>1, <1>6, <2>1
  <2>2. CASE ~(i \in 1 .. n /\ j \in 1 .. n)
    BY <1>1, <1>2, <1>5, <1>6, <2>2
  <2> QED
    BY <2>1, <2>2
<1> QED
  BY <1>1, <1>4, <1>6

\* sys_exec fetches an argument.
LEMMA ExecArgInv ==
    ASSUME MemInv, NEW p \in Owners, ExecArg(p)
    PROVE  MemInv'
<1> DEFINE x == <<p, "new">>
           y == <<p, "argv">>
           O == RestOf(Held, {x})
           w0 == Work(Nothing)
           w == Kalloc(w0, Spare, "arg")
           argv == call[p].argv
           pg == w.pt[Spare]
           D == Held[y]
           X == {x} \union {y}
<1>1. /\ mpc[p] = "args" /\ tf' = tf /\ cur' = cur /\ size' = size /\ expect' = expect /\ calls' = calls
      /\ \/ w.ok /\ Pool(w) /\ call' = [call EXCEPT ![p].argv = Append(argv, pg)] /\ mpc' = mpc
         \/ ~w.ok /\ Pool(FreeArgs(w, p)) /\ Return(p)
  BY DEF ExecArg, MemInv, MemType
<1>2. call[p].new = Nothing /\ call[p].newsz = 0 /\ call[p].at = 0 /\ Done(p) = 0 /\ UserImage(p)
  BY <1>1, ArgsIs
<1>3. Whole(w0, O) /\ w0.ok /\ w0.pt = Nothing /\ ~w0.panic /\ w0.mem = mem /\ w0.free = free
  BY <1>2, NewWork
<1>4. Work(call[p].new) = w0
  BY <1>2
<1>5. w = Kalloc(w0, Spare, "arg")
  OBVIOUS
<1>6. MemType /\ ShareInv /\ Shares(Held, free)
  BY DEF MemInv, ShareInv
<1>7. /\ x \in Holders /\ y \in Holders /\ x # y /\ D = Range(argv) /\ Held[x] = Owned(call[p].new) /\ x[1] = p
      /\ Held'[x] = Owned(call'[p].new) /\ Held'[y] = Range(call'[p].argv)
  BY HeldIs
<1>8. argv \in Seq(Nat) /\ call[p] \in Locals /\ (\A i, j \in DOMAIN argv : argv[i] = argv[j] => i = j) /\ Pages \subseteq Nat
  BY <1>6, TypesOf DEF ShareInv, OneEach
<1> HIDE DEF w0, w, O
<1>9. /\ Whole(w, O) /\ Kept(w0, w, O)
      /\ w.ok => DOMAIN w.pt = {Spare}
      /\ ~w.ok => w.pt = Nothing
  <2>1. Spare \in PtSlots /\ Spare \notin DOMAIN w0.pt /\ Spare \notin Mapped /\ "arg" \in Contents
    BY <1>3, NothingIs DEF Spare, PtSlots, Mapped, Trampoline, Trapframe, Contents
  <2>2. DOMAIN w0.pt \union {Spare} = {Spare}
    BY <1>3, NothingIs
  <2>3. /\ Whole(w, O) /\ Kept(w0, w, O)
        /\ w.ok => DOMAIN w.pt = DOMAIN w0.pt \union {Spare}
        /\ ~w.ok => w.pt = w0.pt
    BY <1>3, <1>5, <2>1, KallocWhole
  <2> QED
    BY <1>3, <2>2, <2>3
<1>10. CASE w.ok /\ Pool(w) /\ call' = [call EXCEPT ![p].argv = Append(argv, pg)] /\ mpc' = mpc
  <2>1. /\ free' = w.free /\ mem' = w.mem /\ panicked' = FALSE /\ mem' \in [Pages -> Contents] /\ \A q \in O : mem'[q] = mem[q]
    BY <1>3, <1>9, <1>10, PoolIs
  <2>2. /\ w.free \subseteq Pages /\ O \subseteq Pages /\ O \intersect w.free = {} /\ {pg} = Pages \ (w.free \union O)
    <3>1. Own(w.pt) = {Spare}
      BY <1>9, <1>10 DEF Own, Mapped, Spare, Trampoline, Trapframe
    <3>2. Owned(w.pt) = {pg}
      BY <3>1 DEF Owned
    <3> QED
      BY <1>9, <3>2 DEF Whole, Works
  <2> HIDE DEF x, y, D, pg
  <2>3. RestOf(Held, X) = O \ D /\ D \subseteq O
    <3>1. {x} \in SUBSET Holders /\ y \notin {x}
      BY <1>7
    <3> QED
      BY <1>6, <1>7, <3>1, RestMore DEF O, D
  <2>4. /\ Append(argv, pg) \in Seq(Nat) /\ Range(Append(argv, pg)) = D \union {pg}
        /\ \A i, j \in DOMAIN Append(argv, pg) : Append(argv, pg)[i] = Append(argv, pg)[j] => i = j
    <3> DEFINE b == Append(argv, pg)
    <3>1. pg \in Nat /\ pg \notin Range(argv) /\ b = Append(argv, pg)
      BY <1>7, <1>8, <2>2, <2>3
    <3> HIDE DEF b, argv
    <3>2. b \in Seq(Nat) /\ Range(b) = Range(argv) \union {pg} /\ \A i, j \in DOMAIN b : b[i] = b[j] => i = j
      BY <1>8, <3>1, MoreArgs
    <3> QED
      BY <1>7, <3>2 DEF b
  <2>5. /\ call'[p] = [call[p] EXCEPT !.argv = Append(argv, pg)] /\ \A q \in Owners : q # p => call'[q] = call[q]
    BY <1>6, <1>10 DEF MemType
  <2>6. /\ call'[p] \in Locals /\ call'[p].argv = Append(argv, pg) /\ call'[p].new = Nothing /\ call'[p].newsz = 0 /\ call'[p].at = 0
        /\ call'[p].kid = call[p].kid
    <3> DEFINE b == Append(argv, pg)
    <3>1. b \in Seq(Nat) /\ call'[p] = [call[p] EXCEPT !.argv = b]
      BY <2>4, <2>5
    <3> HIDE DEF b, argv
    <3>2. /\ call'[p] \in Locals /\ call'[p].argv = b /\ call'[p].new = call[p].new /\ call'[p].newsz = call[p].newsz /\ call'[p].at = call[p].at
          /\ call'[p].kid = call[p].kid
      BY <1>8, <3>1 DEF Locals
    <3> QED
      BY <1>2, <3>2 DEF b
  <2>7. MemType'
    <3>1. call' \in [Owners -> Locals]
      BY <1>6, <1>10, <2>5, <2>6 DEF MemType
    <3> QED
      BY <1>1, <1>6, <1>10, <2>1, <3>1 DEF MemType
  <2>8. Held'[x] = {} /\ Held'[y] = D \union {pg}
    BY <1>7, <2>4, <2>6, NothingIs
  <2>9. \A z \in Holders \ X : Held'[z] = Held[z]
    <3>1. \A q \in Owners : /\ <<q, "cur">> \in X \/ cur'[q] = cur[q]
                            /\ <<q, "new">> \in X \/ call'[q].new = call[q].new
                            /\ <<q, "argv">> \in X \/ call'[q].argv = call[q].argv
                            /\ <<q, "tf">> \in X \/ tf'[q] = tf[q]
      BY <1>1, <2>5 DEF x, y
    <3> HIDE DEF X
    <3> QED
      BY <3>1, HeldSame
  <2>10. ShareInv'
    <3>1. Reshared(Held, X, Held', free')
      <4>1. \A z \in X : Held'[z] \subseteq Pages /\ Held'[z] \intersect (RestOf(Held, X) \union free') = {}
        BY <2>1, <2>2, <2>3, <2>8
      <4>2. \A q \in Pages : q \in free' \/ q \in RestOf(Held, X) \/ q \in Held'[y]
        BY <2>1, <2>2, <2>3, <2>8
      <4>3. \A z, u \in X : z # u => Held'[z] \intersect Held'[u] = {}
        BY <2>8
      <4>4. free' \subseteq Pages /\ free' \intersect RestOf(Held, X) = {} /\ y \in X
        BY <2>1, <2>2, <2>3
      <4> HIDE DEF X
      <4> QED
        BY <2>9, <4>1, <4>2, <4>3, <4>4 DEF Reshared
    <3>2. X \subseteq Holders
      BY <1>7
    <3>3. Shares(Held', free')
      BY <1>6, <3>1, <3>2, Reshare
    <3>4. Shares(Held, free)'
      BY <3>3 DEF Shares
    <3>5. ASSUME NEW q \in Owners PROVE OneEach(q)'
      <4>1. OneEach(q)
        BY <1>6 DEF ShareInv
      <4>2. CASE q = p
        <5>1. Distinct(call'[p].new)
          BY <2>6, NothingIs
        <5>2. \A i, j \in DOMAIN call'[p].argv : call'[p].argv[i] = call'[p].argv[j] => i = j
          BY <2>4, <2>6
        <5> QED
          BY <1>1, <4>1, <4>2, <5>1, <5>2 DEF OneEach, Distinct, Own
      <4>3. CASE q # p
        BY <1>1, <2>5, <4>1, <4>3 DEF OneEach, Distinct, Own
      <4> QED
        BY <4>2, <4>3
    <3> QED
      BY <3>4, <3>5 DEF ShareInv
  <2>11. \A q \in Owners : q # p => Sound(q)'
    <3>1. \A q \in Owners : q # p => Same(q)
      BY <1>1, <1>10, <2>5 DEF Same
    <3> QED
      BY <1>1, <2>1, <3>1, NewActor DEF O, x
  <2>12. UserImage(p)'
    <3>1. Owned(cur[p]) \subseteq O
      BY CurApart DEF O, x
    <3>2. mpc[p] \in Living /\ mpc[p] # "grow" /\ \A q \in Owned(cur[p]) : mem'[q] = mem[q]
      BY <1>1, <2>1, <3>1 DEF Living, Busy
    <3> QED
      BY <1>1, <3>2, ImageSame
  <2>13. OwnImage(p)'
    BY <1>1, <1>10, <2>12 DEF OwnImage, UserImage, Living, Busy
  <2>14. Loop(p)'
    <3>1. Done(p)' = 0 /\ 0 = 0 * PGSIZE
      BY <1>2, <2>6, MemoryAssumption DEF Done
    <3> QED
      BY <1>1, <1>10, <2>6, <3>1 DEF Loop, Busy
  <2>15. Growing(p)' /\ Loading(p)' /\ Forked(p)'
    BY <1>1, <1>10 DEF Growing, Loading, Forked
  <2>16. KidInv'
    <3>1. \A q \in Owners : mpc'[q] = "fork" => mpc[q] = "fork" /\ call'[q].kid = call[q].kid
      BY <1>10, <2>5, <2>6
    <3> QED
      BY <3>1, KidSame
  <2> QED
    BY <2>7, <2>10, <2>11, <2>13, <2>14, <2>15, <2>16 DEF MemInv, Sound
<1>11. CASE ~w.ok /\ Pool(FreeArgs(w, p)) /\ Return(p)
  <2>1. Emptied(Work(call[p].new), w, O)
    BY <1>4, <1>9, <1>11 DEF Emptied
  <2> QED
    BY <1>1, <1>11, <2>1, ExecFails DEF O
<1> QED
  BY <1>1, <1>10, <1>11

\* A step of exec that changes nothing but the new table and the locals.
Building(p) ==
    /\ mpc[p] \in {"args", "load", "stack"} /\ mpc'[p] \in {"args", "load", "stack"}
    /\ tf' = tf /\ cur' = cur /\ size' = size /\ expect' = expect /\ calls' = calls
    /\ call' \in [Owners -> Locals] /\ mpc' \in [Owners -> Living \union {"unused", "embryo"}]
    /\ call'[p].argv = call[p].argv /\ \A q \in Owners : q # p => call'[q] = call[q] /\ mpc'[q] = mpc[q]

\* What such a step cannot disturb.
Undisturbed(p) ==
    /\ MemType /\ KidInv /\ OwnImage(p) /\ Growing(p) /\ Forked(p)
    /\ \A q \in Owners : q # p => Sound(q)

\* It disturbs nothing outside the new table.
LEMMA BuildingKeeps ==
    ASSUME MemInv, NEW p \in Owners, Building(p), mem' \in [Pages -> Contents], panicked' = FALSE,
           \A pg \in RestOf(Held, {<<p, "new">>}) : mem'[pg] = mem[pg]
    PROVE  Undisturbed(p)'
<1>1. /\ mpc[p] \in {"args", "load", "stack"} /\ mpc'[p] \in {"args", "load", "stack"}
      /\ tf' = tf /\ cur' = cur /\ size' = size /\ expect' = expect /\ calls' = calls
      /\ call' \in [Owners -> Locals] /\ mpc' \in [Owners -> Living \union {"unused", "embryo"}]
      /\ \A q \in Owners : q # p => call'[q] = call[q] /\ mpc'[q] = mpc[q]
  BY DEF Building
<1>2. MemType
  BY DEF MemInv
<1>3. MemType'
  BY <1>1, <1>2 DEF MemType
<1>4. \A q \in Owners : q # p => Sound(q)'
  <2>1. (\A q \in Owners : q # p => Same(q)) /\ mpc[p] # "embryo"
    BY <1>1 DEF Same
  <2> QED
    BY <2>1, NewActor
<1>5. UserImage(p)'
  <2>1. mpc[p] \in Living /\ mpc[p] # "grow" /\ \A pg \in Owned(cur[p]) : mem'[pg] = mem[pg]
    BY <1>1, CurApart DEF Living, Busy
  <2> QED
    BY <1>1, <2>1, ImageSame
<1>6. OwnImage(p)'
  BY <1>1, <1>5 DEF OwnImage, UserImage, Living, Busy
<1>7. Growing(p)' /\ Forked(p)'
  BY <1>1 DEF Growing, Forked
<1>8. KidInv'
  <2>1. \A q \in Owners : mpc'[q] = "fork" => mpc[q] = "fork" /\ call'[q].kid = call[q].kid
    BY <1>1
  <2> QED
    BY <2>1, KidSame
<1> QED
  BY <1>3, <1>4, <1>6, <1>7, <1>8 DEF Undisturbed

\* The pages that such a step takes are in the new table.
LEMMA BuildingTakes ==
    ASSUME MemInv, NEW p \in Owners, Building(p), NEW w, Whole(w, RestOf(Held, {<<p, "new">>})),
           Kept(Work(call[p].new), w, RestOf(Held, {<<p, "new">>})), Pool(w), call'[p].new = w.pt
    PROVE  Undisturbed(p)' /\ ShareInv' /\ mem' = w.mem
<1> DEFINE O == RestOf(Held, {<<p, "new">>})
           w0 == Work(call[p].new)
<1>1. ~w0.panic /\ w0.mem = mem /\ Kept(w0, w, O) /\ Whole(w, O)
  BY NewWork
<1> HIDE DEF w0, O
<1>2. /\ free' = w.free /\ mem' = w.mem /\ panicked' = FALSE /\ mem' \in [Pages -> Contents] /\ \A pg \in O : mem'[pg] = mem[pg]
  BY <1>1, PoolIs
<1>3. ShareInv'
  <2>1. cur' = cur /\ tf' = tf /\ call'[p].argv = call[p].argv /\ \A q \in Owners : q # p => call'[q] = call[q]
    BY DEF Building
  <2> QED
    BY <1>1, <1>2, <2>1, NewShares DEF O
<1> QED
  BY <1>2, <1>3, BuildingKeeps DEF O

\* Then the invariant holds if the loop and the new table are as they should.
LEMMA BuildingInv ==
    ASSUME NEW p \in Owners, Undisturbed(p)', ShareInv', Loop(p)', Loading(p)'
    PROVE  MemInv'
BY DEF Undisturbed, MemInv, Sound

\* exec makes the new table.
LEMMA ExecStartInv ==
    ASSUME MemInv, NEW p \in Owners, NEW prog \in Seq(Nat), ExecStart(p, prog)
    PROVE  MemInv'
<1> DEFINE O == RestOf(Held, {<<p, "new">>})
           w0 == Work(Nothing)
           w == ProcPagetable(w0, tf[p])
           h == Head(prog)
           t == Tail(prog)
<1>1. /\ mpc[p] = "args" /\ prog # <<>> /\ tf' = tf /\ cur' = cur /\ size' = size /\ expect' = expect /\ calls' = calls
      /\ \/ w.ok /\ Pool(w) /\ call' = [call EXCEPT ![p].new = w.pt, ![p].goal = h, ![p].segs = t] /\ mpc' = [mpc EXCEPT ![p] = "load"]
         \/ ~w.ok /\ Pool(FreeArgs(w, p)) /\ Return(p)
  BY DEF ExecStart, Doing
<1>2. call[p].new = Nothing /\ call[p].newsz = 0 /\ call[p].at = 0 /\ Done(p) = 0
  BY <1>1, ArgsIs
<1>3. Whole(w0, O) /\ w0.ok /\ w0.pt = Nothing /\ w0 = Work(call[p].new)
  BY <1>2, NewWork
<1>4. MemType /\ call[p] \in Locals /\ tf[p] \in Nat
  BY TypesOf DEF MemInv
<1>5. h \in Nat /\ t \in Seq(Nat)
  BY <1>1
<1> HIDE DEF O, w0, h, t
<1>6. Made(w0, w, tf[p], O)
  BY <1>3, <1>4, ProcPagetableMade
<1> HIDE DEF w
<1>7. CASE w.ok /\ Pool(w) /\ call' = [call EXCEPT ![p].new = w.pt, ![p].goal = h, ![p].segs = t] /\ mpc' = [mpc EXCEPT ![p] = "load"]
  <2>1. Whole(w, O) /\ Kept(w0, w, O) /\ Leaves(w.pt) = Mapped /\ w.pt[Trapframe] = tf[p] /\ w.pt \in Tables
    BY <1>6, <1>7 DEF Made, Whole, Works
  <2>2. call'[p] = [call[p] EXCEPT !.new = w.pt, !.goal = h, !.segs = t] /\ \A q \in Owners : q # p => call'[q] = call[q]
    BY <1>4, <1>7 DEF MemType
  <2>3. /\ call'[p] \in Locals /\ call'[p].new = w.pt /\ call'[p].goal = h /\ call'[p].argv = call[p].argv /\ call'[p].newsz = call[p].newsz
        /\ call'[p].at = call[p].at
    BY <1>4, <1>5, <2>1, <2>2 DEF Locals
  <2>4. mpc'[p] = "load" /\ (\A q \in Owners : q # p => mpc'[q] = mpc[q]) /\ mpc' \in [Owners -> Living \union {"unused", "embryo"}]
    BY <1>4, <1>7 DEF MemType, Living, Busy
  <2>5. call' \in [Owners -> Locals]
    BY <1>4, <1>7, <2>2, <2>3 DEF MemType
  <2>6. Building(p)
    BY <1>1, <2>2, <2>3, <2>4, <2>5 DEF Building
  <2>7. Undisturbed(p)' /\ ShareInv' /\ mem' = w.mem
    BY <1>3, <1>7, <2>1, <2>3, <2>6, BuildingTakes DEF O
  <2>8. Done(p)' = 0 /\ 0 = 0 * PGSIZE
    BY <1>2, <2>3, MemoryAssumption DEF Done
  <2>9. Loop(p)'
    BY <1>2, <2>3, <2>4, <2>8 DEF Loop, Busy
  <2>10. Loading(p)'
    <3>1. NumPages(0) = 0 /\ Shape(w.pt, 0) /\ NumPages(h) \in Nat
      BY <1>5, <2>1, NoPages, RoundUp DEF Shape
    <3>2. 0 .. 0 - 1 = {} /\ 0 <= NumPages(h) /\ 0 <= h
      BY <1>5, <3>1
    <3> QED
      BY <1>1, <1>2, <2>1, <2>3, <2>4, <2>8, <3>1, <3>2 DEF Loading, Shape
  <2> QED
    BY <2>7, <2>9, <2>10, BuildingInv
<1>8. CASE ~w.ok /\ Pool(FreeArgs(w, p)) /\ Return(p)
  <2>1. Emptied(Work(call[p].new), w, O)
    BY <1>3, <1>6, <1>8 DEF Emptied, Made
  <2> QED
    BY <1>1, <1>8, <2>1, ExecFails DEF O
<1> QED
  BY <1>1, <1>7, <1>8

\* Facts about a process that loads a program.
LEMMA LoadingIs ==
    ASSUME MemInv, NEW p \in Owners, mpc[p] \in {"load", "stack"}
    PROVE  /\ call[p].at = Done(p) * PGSIZE /\ Shape(call[p].new, Done(p)) /\ call[p].new[Trapframe] = tf[p]
           /\ NumPages(call[p].newsz) <= Done(p) /\ Done(p) <= NumPages(call[p].goal) /\ call[p].newsz <= call[p].goal
           /\ (\A n \in 0 .. NumPages(call[p].newsz) - 1 : mem[call[p].new[User(n)]] = "text")
           /\ (mpc[p] = "stack" => call[p].goal = call[p].newsz + 2 * PGSIZE /\ call[p].newsz = PGROUNDUP(call[p].newsz))
<1>1. Loop(p) /\ Loading(p)
  BY DEF MemInv, Sound
<1> QED
  BY <1>1 DEF Loop, Loading

\* The table that exec has built is freed.
LEMMA TableEmptied ==
    ASSUME MemInv, NEW p \in Owners, NEW w, NEW sz, NumPages(sz) \in Nat, Shape(w.pt, NumPages(sz)),
           Whole(w, RestOf(Held, {<<p, "new">>})), Kept(Work(call[p].new), w, RestOf(Held, {<<p, "new">>}))
    PROVE  Emptied(Work(call[p].new), ProcFreePagetable(w, sz), RestOf(Held, {<<p, "new">>}))
<1> DEFINE O == RestOf(Held, {<<p, "new">>})
           w0 == Work(call[p].new)
           v == ProcFreePagetable(w, sz)
<1> HIDE DEF O, w0
<1>1. Kept(w0, w, O) /\ Whole(w, O) /\ Leaves(w.pt) = UserSlots(0, NumPages(sz)) \union Mapped
  BY DEF O, w0, Shape
<1>2. Gone(w, v, O)
  BY <1>1, TableGone
<1> HIDE DEF v
<1>3. Kept(w0, v, O) /\ Whole(v, O) /\ v.pt = Nothing
  BY <1>1, <1>2, KeptGone
<1> QED
  BY <1>3 DEF Emptied, O, w0, v

\* exec gives up while it loads.
LEMMA LoadFailsInv ==
    ASSUME MemInv, NEW p \in Owners, LoadFails(p)
    PROVE  MemInv'
<1> DEFINE c == call[p]
           k == Done(p)
           O == RestOf(Held, {<<p, "new">>})
           w0 == Work(c.new)
<1>1. /\ mpc[p] \in {"load", "stack"} /\ tf' = tf /\ cur' = cur /\ size' = size /\ expect' = expect /\ calls' = calls
      /\ \/ c.at = PGROUNDUP(c.newsz) /\ GiveUpExec(p, w0, c.newsz)
         \/ c.at >= c.goal /\ GiveUpExec(p, w0, c.goal)
  BY DEF LoadFails
<1>2. k \in Nat /\ c.at \in Nat /\ c.goal \in Nat /\ c.newsz \in Nat /\ NumPages(c.goal) \in Nat /\ NumPages(c.newsz) \in Nat
  BY TypesOf
<1>3. c.at = k * PGSIZE /\ Shape(c.new, k) /\ k <= NumPages(c.goal)
  BY <1>1, LoadingIs
<1>4. Whole(w0, O) /\ w0.pt = c.new /\ Kept(w0, w0, O)
  <2>1. Whole(w0, O) /\ w0.pt = c.new
    BY NewWork
  <2> HIDE DEF w0
  <2> QED
    BY <2>1 DEF Kept
<1> HIDE DEF k
<1>5. ASSUME NEW sz, NumPages(sz) = k, GiveUpExec(p, w0, sz) PROVE MemInv'
  <2>1. Emptied(w0, ProcFreePagetable(w0, sz), O)
    BY <1>2, <1>3, <1>4, <1>5, TableEmptied
  <2>2. Pool(FreeArgs(ProcFreePagetable(w0, sz), p)) /\ Return(p)
    BY <1>5 DEF GiveUpExec, ExecBad
  <2> QED
    BY <1>1, <2>1, <2>2, ExecFails
<1>6. CASE c.at = PGROUNDUP(c.newsz) /\ GiveUpExec(p, w0, c.newsz)
  <2> DEFINE a == c.at
             m == NumPages(c.newsz)
  <2>1. a = k * PGSIZE /\ a = m * PGSIZE /\ m \in Nat
    BY <1>2, <1>3, <1>6, RoundUp
  <2> HIDE DEF a, m
  <2>2. k = m
    BY <1>2, <2>1, PageNumber
  <2> QED
    BY <1>5, <1>6, <2>2 DEF m
<1>7. CASE c.at >= c.goal /\ GiveUpExec(p, w0, c.goal)
  <2> DEFINE at == c.at
             g == c.goal
  <2>1. at \in Nat /\ g \in Nat /\ at = k * PGSIZE /\ at >= g /\ k <= NumPages(g) /\ NumPages(g) \in Nat
    BY <1>2, <1>3, <1>7
  <2> HIDE DEF at, g
  <2>2. at < g <=> k < NumPages(g)
    BY <1>2, <2>1, LoopAt
  <2>3. NumPages(g) = k
    BY <1>2, <2>1, <2>2
  <2> QED
    BY <1>5, <1>7, <2>3 DEF g
<1> QED
  BY <1>1, <1>6, <1>7

\* A turn of uvmalloc for exec.
LEMMA ExecPageInv ==
    ASSUME MemInv, NEW p \in Owners, ExecPage(p)
    PROVE  MemInv'
<1> DEFINE O == RestOf(Held, {<<p, "new">>})
           w0 == Work(call[p].new)
           at == call[p].at
           k == Done(p)
           sz == call[p].newsz
           s == NumPages(sz)
           w == AddPage(w0, k, "zero")
           u == UvmDealloc(w, at, PGROUNDUP(sz))
<1>1. /\ mpc[p] \in {"load", "stack"} /\ at < call[p].goal /\ tf' = tf /\ cur' = cur /\ size' = size /\ expect' = expect /\ calls' = calls
      /\ \/ w.ok /\ Pool(w) /\ call' = [call EXCEPT ![p].new = w.pt, ![p].at = @ + PGSIZE] /\ mpc' = mpc
         \/ ~w.ok /\ GiveUpExec(p, u, sz)
  BY DEF ExecPage, Done
<1>2. MemType
  BY DEF MemInv
<1>3. s \in Nat /\ k \in Nat /\ at \in Nat /\ call[p] \in Locals /\ call[p].goal \in Nat /\ sz \in Nat
  BY TypesOf
<1>4. /\ at = k * PGSIZE /\ Shape(call[p].new, k) /\ call[p].new[Trapframe] = tf[p]
      /\ s <= k /\ k <= NumPages(call[p].goal) /\ sz <= call[p].goal
      /\ (\A n \in 0 .. s - 1 : mem[call[p].new[User(n)]] = "text")
      /\ (mpc[p] = "stack" => call[p].goal = sz + 2 * PGSIZE /\ sz = PGROUNDUP(sz))
  BY <1>1, LoadingIs
<1> HIDE DEF k
<1>5. NumPages(at) = k /\ at + PGSIZE = (k + 1) * PGSIZE /\ at + PGSIZE \in Nat /\ k < NumPages(call[p].goal) /\ NumPages(call[p].goal) \in Nat
  <2> DEFINE g == call[p].goal
  <2>1. at \in Nat /\ g \in Nat /\ at < g /\ at = k * PGSIZE
    BY <1>1, <1>3, <1>4
  <2> HIDE DEF g, at
  <2>2. NumPages(at) = k /\ at + PGSIZE = (k + 1) * PGSIZE /\ at + PGSIZE \in Nat /\ (at < g <=> k < NumPages(g)) /\ NumPages(g) \in Nat
    BY <1>3, <2>1, LoopAt
  <2> QED
    BY <2>1, <2>2 DEF g
<1>6. NumPages(PGROUNDUP(sz)) = s
  BY <1>3, RoundUp, WholePages
<1>7. Whole(w0, O) /\ w0.ok /\ w0.pt = call[p].new /\ ~w0.panic /\ w0.mem = mem /\ w0.free = free
  BY NewWork
<1> HIDE DEF w0, O
<1>8. User(k) \notin DOMAIN w0.pt /\ "zero" \in Contents
  BY <1>3, <1>4, <1>7, NextPage DEF Contents
<1>9. Added(w0, w, k, "zero", O)
  BY <1>3, <1>7, <1>8, PageAdded
<1> HIDE DEF w
<1>10. /\ Whole(w, O) /\ Kept(w0, w, O) /\ w.pt \in Tables
       /\ w.ok => w.mem[w.pt[User(k)]] = "zero" /\ Leaves(w.pt) = Leaves(w0.pt) \union {User(k)}
       /\ ~w.ok => Leaves(w.pt) = Leaves(w0.pt)
  BY <1>9 DEF Added, Whole, Works
<1>11. CASE w.ok /\ Pool(w) /\ call' = [call EXCEPT ![p].new = w.pt, ![p].at = @ + PGSIZE] /\ mpc' = mpc
  <2> DEFINE a == at + PGSIZE
  <2>1. Shape(w.pt, k + 1)
    BY <1>3, <1>4, <1>7, <1>10, <1>11, NextPage
  <2>2. /\ call'[p] = [call[p] EXCEPT !.new = w.pt, !.at = a] /\ \A q \in Owners : q # p => call'[q] = call[q]
    BY <1>2, <1>11 DEF MemType
  <2>3. a \in Nat
    BY <1>5
  <2> HIDE DEF a
  <2>4. /\ call'[p] \in Locals /\ call'[p].at = a /\ call'[p].goal = call[p].goal /\ call'[p].new = w.pt
        /\ call'[p].argv = call[p].argv /\ call'[p].newsz = call[p].newsz
    BY <1>3, <1>10, <2>2, <2>3 DEF Locals
  <2>5. call' \in [Owners -> Locals]
    BY <1>2, <1>11, <2>2, <2>4 DEF MemType
  <2>6. Building(p)
    BY <1>1, <1>2, <1>11, <2>2, <2>4, <2>5 DEF Building, MemType
  <2>7. Undisturbed(p)' /\ ShareInv' /\ mem' = w.mem
    BY <1>10, <1>11, <2>4, <2>6, BuildingTakes DEF O, w0
  <2>8. Done(p)' = k + 1 /\ a = (k + 1) * PGSIZE
    BY <1>3, <1>5, <2>4, PageNumber DEF Done, a
  <2>9. Loop(p)'
    BY <1>1, <1>11, <2>4, <2>8 DEF Loop, Busy
  <2>10. /\ \A n \in 0 .. k - 1 : w.pt[User(n)] = call[p].new[User(n)] /\ w.mem[w.pt[User(n)]] = mem[call[p].new[User(n)]]
         /\ w.pt[Trapframe] = call[p].new[Trapframe]
    <3>1. k <= k + 1 /\ k <= k /\ k + 1 \in Nat /\ Shape(w0.pt, k)
      BY <1>3, <1>4, <1>7
    <3> QED
      BY <1>3, <1>7, <1>10, <2>1, <3>1, ImageKept
  <2>11. Loading(p)'
    <3>1. \A n \in 0 .. s - 1 : mem'[w.pt[User(n)]] = "text"
      <4>1. \A n \in 0 .. s - 1 : n \in 0 .. k - 1
        BY <1>3, <1>4
      <4> QED
        BY <1>4, <2>7, <2>10, <4>1
    <3>2. s <= k + 1 /\ k + 1 <= NumPages(call[p].goal)
      BY <1>3, <1>4, <1>5
    <3> QED
      BY <1>1, <1>4, <1>11, <2>1, <2>4, <2>8, <2>10, <3>1, <3>2 DEF Loading, Shape
  <2> QED
    BY <2>7, <2>9, <2>11, BuildingInv
<1>12. CASE ~w.ok /\ GiveUpExec(p, u, sz)
  <2>1. Shape(w.pt, k)
    BY <1>4, <1>7, <1>10, <1>12 DEF Shape
  <2>2. Cut(w, u, O, UserSlots(s, k)) /\ Shape(u.pt, s)
    BY <1>3, <1>4, <1>5, <1>6, <1>10, <2>1, Dealloc
  <2> HIDE DEF u
  <2>3. Whole(u, O) /\ Kept(w, u, O) /\ DOMAIN u.pt \subseteq DOMAIN w.pt
    BY <2>2 DEF Cut
  <2>4. Kept(w0, u, O)
    BY <1>10, <2>3, KeptTrans
  <2>5. Emptied(w0, ProcFreePagetable(u, sz), O)
    BY <1>3, <2>2, <2>3, <2>4, TableEmptied DEF O, w0
  <2>6. Pool(FreeArgs(ProcFreePagetable(u, sz), p)) /\ Return(p)
    BY <1>12 DEF GiveUpExec, ExecBad
  <2> QED
    BY <1>1, <2>5, <2>6, ExecFails DEF O, w0
<1> QED
  BY <1>1, <1>11, <1>12

\* A segment was read into the new table.
LEMMA LoadSegmentInv ==
    ASSUME MemInv, NEW p \in Owners, LoadSegment(p)
    PROVE  MemInv'
<1> DEFINE new == call[p].new
           sz == call[p].goal
           top == PGROUNDUP(sz)
           k == Done(p)
           s == NumPages(call[p].newsz)
           L == {new[User(n)] : n \in s .. k - 1}
           g == top + 2 * PGSIZE
           h == Head(call[p].segs)
           e == IF h < sz THEN sz ELSE h
           t == Tail(call[p].segs)
<1>1. /\ mpc[p] = "load" /\ call[p].at >= sz /\ sz > 0
      /\ mem' = [pg \in Pages |-> IF pg \in NewPages(p, call[p].newsz, sz) THEN "text" ELSE mem[pg]]
      /\ \/ /\ call[p].segs = <<>> /\ call' = [call EXCEPT ![p].newsz = top, ![p].at = top, ![p].goal = g]
            /\ mpc' = [mpc EXCEPT ![p] = "stack"]
         \/ /\ call[p].segs # <<>> /\ call' = [call EXCEPT ![p].newsz = sz, ![p].at = top, ![p].segs = Tail(@), ![p].goal = e]
            /\ mpc' = mpc
      /\ free' = free /\ tf' = tf /\ cur' = cur /\ size' = size /\ expect' = expect /\ panicked' = panicked /\ calls' = calls
  BY DEF LoadSegment, Doing
<1>2. MemType
  BY DEF MemInv
<1>3. /\ s \in Nat /\ k \in Nat /\ call[p].at \in Nat /\ call[p] \in Locals /\ sz \in Nat /\ new \in Tables /\ call[p].segs \in Seq(Nat)
      /\ NumPages(sz) \in Nat /\ mem \in [Pages -> Contents]
  BY TypesOf
<1>4. /\ call[p].at = k * PGSIZE /\ Shape(new, k) /\ new[Trapframe] = tf[p] /\ s <= k /\ k <= NumPages(sz)
      /\ (\A n \in 0 .. s - 1 : mem[new[User(n)]] = "text")
  BY <1>1, LoadingIs
<1> HIDE DEF k
<1>5. NumPages(sz) = k /\ top = k * PGSIZE /\ top \in Nat
  <2> DEFINE at == call[p].at
  <2>1. at \in Nat /\ sz \in Nat /\ at = k * PGSIZE /\ at >= sz
    BY <1>1, <1>3, <1>4
  <2> HIDE DEF at, sz
  <2>2. at < sz <=> k < NumPages(sz)
    BY <1>3, <2>1, LoopAt
  <2>3. NumPages(sz) = k
    BY <1>3, <1>4, <2>1, <2>2
  <2> QED
    BY <2>1, <2>3, RoundUp
<1>6. mem' = [pg \in Pages |-> IF pg \in L THEN "text" ELSE mem[pg]]
  BY <1>1, <1>5 DEF NewPages
<1>7. L \subseteq Owned(new)
  <2>1. \A n \in s .. k - 1 : n \in 0 .. k - 1
    BY <1>3
  <2> QED
    BY <1>3, <1>4, <2>1, UserOwned
<1>8. Owned(new) \subseteq Pages /\ Owned(new) \intersect RestOf(Held, {<<p, "new">>}) = {} /\ RestOf(Held, {<<p, "new">>}) \subseteq Pages
  <2>1. Whole(Work(new), RestOf(Held, {<<p, "new">>})) /\ Work(new).pt = new
    BY NewWork
  <2> QED
    BY <2>1 DEF Whole
<1> HIDE DEF L
<1>9. mem' \in [Pages -> Contents] /\ \A pg \in RestOf(Held, {<<p, "new">>}) : mem'[pg] = mem[pg]
  BY <1>3, <1>6, <1>7, <1>8 DEF Contents
<1>10. ASSUME NEW n \in 0 .. k - 1 PROVE mem'[new[User(n)]] = "text"
  <2>1. new[User(n)] \in Pages
    BY <1>3, <1>4, <1>8, UserOwned
  <2>2. CASE n < s
    <3>1. n \in 0 .. s - 1
      BY <1>3, <2>2
    <3> QED
      BY <1>4, <1>6, <2>1, <3>1
  <2>3. CASE ~(n < s)
    <3>1. n \in s .. k - 1
      BY <1>3, <2>3
    <3> QED
      BY <1>6, <2>1, <3>1 DEF L
  <2> QED
    BY <2>2, <2>3
<1>11. panicked' = FALSE
  BY <1>1, <1>2 DEF MemType
<1>12. (\A q \in Owners : call'[q].new = call[q].new /\ call'[q].argv = call[q].argv) => ShareInv'
  BY <1>1, NoneShares
<1>13. CASE call' = [call EXCEPT ![p].newsz = top, ![p].at = top, ![p].goal = g] /\ mpc' = [mpc EXCEPT ![p] = "stack"]
  <2>1. g \in Nat /\ g = (k + 2) * PGSIZE /\ top <= g
    BY <1>3, <1>5, MemoryAssumption
  <2>2. NumPages(top) = k /\ NumPages(g) = k + 2 /\ PGROUNDUP(top) = top
    BY <1>3, <1>5, <2>1, WholePages
  <2>3. /\ call'[p] = [call[p] EXCEPT !.newsz = top, !.at = top, !.goal = g] /\ \A q \in Owners : q # p => call'[q] = call[q]
    BY <1>2, <1>13 DEF MemType
  <2> HIDE DEF g, top
  <2>4. /\ call'[p] \in Locals /\ call'[p].at = top /\ call'[p].goal = g /\ call'[p].new = new
        /\ call'[p].argv = call[p].argv /\ call'[p].newsz = top
    BY <1>3, <1>5, <2>1, <2>3 DEF Locals
  <2>5. call' \in [Owners -> Locals]
    BY <1>2, <1>13, <2>3, <2>4 DEF MemType
  <2>6. mpc'[p] = "stack" /\ (\A q \in Owners : q # p => mpc'[q] = mpc[q]) /\ mpc' \in [Owners -> Living \union {"unused", "embryo"}]
    BY <1>2, <1>13 DEF MemType, Living, Busy
  <2>7. Building(p)
    BY <1>1, <2>3, <2>4, <2>5, <2>6 DEF Building
  <2>8. Undisturbed(p)'
    BY <1>9, <1>11, <2>7, BuildingKeeps
  <2>9. ShareInv'
    BY <1>12, <2>3, <2>4
  <2>10. Done(p)' = k
    BY <1>3, <1>5, <2>4, PageNumber DEF Done
  <2>11. Loop(p)'
    BY <1>5, <2>4, <2>6, <2>10 DEF Loop, Busy
  <2>12. Loading(p)'
    <3>1. k <= k /\ k <= k + 2
      BY <1>3
    <3>2. g = top + 2 * PGSIZE
      BY DEF g
    <3> QED
      BY <1>1, <1>4, <1>10, <2>1, <2>2, <2>4, <2>10, <3>1, <3>2 DEF Loading, Shape
  <2> QED
    BY <2>8, <2>9, <2>11, <2>12, BuildingInv
<1>14. CASE call[p].segs # <<>> /\ call' = [call EXCEPT ![p].newsz = sz, ![p].at = top, ![p].segs = Tail(@), ![p].goal = e] /\ mpc' = mpc
  <2>1. h \in Nat /\ t \in Seq(Nat)
    BY <1>3, <1>14
  <2>2. e \in Nat /\ sz <= e
    BY <1>3, <2>1
  <2>3. NumPages(sz) <= NumPages(e) /\ NumPages(e) \in Nat
    BY <1>3, <2>2, MorePages
  <2>4. /\ call'[p] = [call[p] EXCEPT !.newsz = sz, !.at = top, !.segs = t, !.goal = e] /\ \A q \in Owners : q # p => call'[q] = call[q]
    BY <1>2, <1>14 DEF MemType
  <2> HIDE DEF e, top, t
  <2>5. /\ call'[p] \in Locals /\ call'[p].at = top /\ call'[p].goal = e /\ call'[p].new = new
        /\ call'[p].argv = call[p].argv /\ call'[p].newsz = sz
    BY <1>3, <1>5, <2>1, <2>2, <2>4 DEF Locals
  <2>6. call' \in [Owners -> Locals]
    BY <1>2, <1>14, <2>4, <2>5 DEF MemType
  <2>7. Building(p)
    BY <1>1, <1>2, <1>14, <2>4, <2>5, <2>6 DEF Building, MemType
  <2>8. Undisturbed(p)'
    BY <1>9, <1>11, <2>7, BuildingKeeps
  <2>9. ShareInv'
    BY <1>12, <2>4, <2>5
  <2>10. Done(p)' = k
    BY <1>3, <1>5, <2>5, PageNumber DEF Done
  <2>11. Loop(p)'
    BY <1>1, <1>5, <1>14, <2>5, <2>10 DEF Loop, Busy
  <2>12. Loading(p)'
    BY <1>1, <1>3, <1>4, <1>5, <1>10, <1>14, <2>2, <2>3, <2>5, <2>10 DEF Loading, Shape
  <2> QED
    BY <2>8, <2>9, <2>11, <2>12, BuildingInv
<1> QED
  BY <1>1, <1>13, <1>14

\* A process is reaped.
LEMMA ReapInv ==
    ASSUME MemInv, NEW p \in Owners, Reap(p)
    PROVE  MemInv'
<1> DEFINE x == <<p, "cur">>
           y == <<p, "tf">>
           X == {x} \union {y}
           O == RestOf(Held, {x})
           w0 == Work(cur[p])
           w == FreeProc(w0, tf[p], size[p])
           Q == O \ {tf[p]}
<1>1. /\ mpc[p] = "user" /\ Pool(w) /\ cur' = [cur EXCEPT ![p] = w.pt] /\ tf' = [tf EXCEPT ![p] = NoPage] /\ size' = [size EXCEPT ![p] = 0]
      /\ expect' = [expect EXCEPT ![p] = <<>>] /\ mpc' = [mpc EXCEPT ![p] = "unused"] /\ call' = call /\ calls' = calls
  BY DEF Reap, InUser, Doing
<1>2. MemType /\ ShareInv /\ Shares(Held, free) /\ Sound(p)
  BY DEF MemInv, ShareInv
<1>3. UserImage(p) /\ NumPages(size[p]) \in Nat
  BY <1>1, ImageOf, TypesOf DEF Living, Busy
<1>4. tf[p] # NoPage /\ Leaves(cur[p]) = UserSlots(0, NumPages(size[p])) \union Mapped
  BY <1>3 DEF UserImage, Shape
<1>5. Whole(w0, O) /\ w0.pt = cur[p] /\ ~w0.panic /\ w0.mem = mem
  BY CurWork
<1>6. /\ x \in Holders /\ y \in Holders /\ x # y /\ x[1] = p /\ y[1] = p
      /\ Held[y] = {tf[p]} /\ Held'[x] = Owned(cur'[p]) /\ Held'[y] = {tf'[p]} \ {NoPage}
  BY <1>4, HeldIs
<1> HIDE DEF w0, x, y
<1>7. RestOf(Held, X) = Q /\ tf[p] \in O
  <2>1. {x} \in SUBSET Holders /\ y \notin {x}
    BY <1>6
  <2>2. RestOf(Held, {x} \union {y}) = RestOf(Held, {x}) \ Held[y] /\ Held[y] \subseteq RestOf(Held, {x})
    BY <1>2, <1>6, <2>1, RestMore
  <2> QED
    BY <1>6, <2>2
<1> HIDE DEF O
<1>8. Gone(w0, w, Q)
  BY <1>3, <1>4, <1>5, <1>7, FreeProcGone
<1> HIDE DEF w, Q
<1>9. Whole(w, Q) /\ Kept(w0, w, Q) /\ w.pt = Nothing
  BY <1>8 DEF Gone
<1>10. /\ free' = w.free /\ mem' = w.mem /\ panicked' = FALSE /\ mem' \in [Pages -> Contents] /\ \A pg \in Q : mem'[pg] = mem[pg]
  BY <1>1, <1>5, <1>9, PoolIs
<1>11. /\ cur'[p] = Nothing /\ tf'[p] = NoPage /\ size'[p] = 0 /\ mpc'[p] = "unused" /\ expect'[p] = <<>>
       /\ \A q \in Owners : q # p => cur'[q] = cur[q] /\ tf'[q] = tf[q] /\ size'[q] = size[q] /\ mpc'[q] = mpc[q] /\ expect'[q] = expect[q]
  BY <1>1, <1>2, <1>9 DEF MemType
<1>12. MemType'
  <2>1. cur' \in [Owners -> Tables] /\ tf' \in [Owners -> Nat] /\ size' \in [Owners -> Nat]
    BY <1>1, <1>2, <1>9, NothingIs DEF MemType, NoPage
  <2>2. mpc' \in [Owners -> Living \union {"unused", "embryo"}]
    BY <1>1, <1>2 DEF MemType
  <2>3. expect' \in [Owners -> Seq(Contents)]
    <3>1. <<>> \in Seq(Contents)
      OBVIOUS
    <3> QED
      BY <1>1, <1>2, <3>1 DEF MemType
  <2> QED
    BY <1>1, <1>2, <1>10, <2>1, <2>2, <2>3 DEF MemType
<1>13. ShareInv'
  <2>1. \A z \in Holders \ X : Held'[z] = Held[z]
    <3>1. \A q \in Owners : /\ <<q, "cur">> \in X \/ cur'[q] = cur[q]
                            /\ <<q, "new">> \in X \/ call'[q].new = call[q].new
                            /\ <<q, "argv">> \in X \/ call'[q].argv = call[q].argv
                            /\ <<q, "tf">> \in X \/ tf'[q] = tf[q]
      BY <1>1, <1>11 DEF x, y
    <3> HIDE DEF X
    <3> QED
      BY <3>1, HeldSame
  <2>2. Held'[x] = {} /\ Held'[y] = {} /\ Owned(w.pt) = {}
    BY <1>6, <1>9, <1>11, NothingIs
  <2>3. \A q \in Owners : OneEach(q)'
    <3> SUFFICES ASSUME NEW q \in Owners
                 PROVE  OneEach(q)'
      OBVIOUS
    <3>1. OneEach(q) /\ Distinct(Nothing)
      BY <1>2, NothingIs DEF ShareInv
    <3>2. CASE q = p
      BY <1>1, <1>11, <3>1, <3>2 DEF OneEach, Distinct, Own
    <3>3. CASE q # p
      BY <1>1, <1>11, <3>1, <3>3 DEF OneEach, Distinct, Own
    <3> QED
      BY <3>2, <3>3
  <2>4. X \in SUBSET Holders /\ x \in X /\ (\A z \in X : z # x => Held'[z] = {}) /\ Held'[x] = Owned(w.pt)
    BY <1>6, <2>2
  <2>5. Whole(w, RestOf(Held, X)) /\ free' = w.free
    BY <1>7, <1>9, <1>10
  <2> HIDE DEF X
  <2> QED
    BY <2>1, <2>3, <2>4, <2>5, PagesMoved
<1>14. \A q \in Owners : q # p => Sound(q)'
  <2>1. \A q \in Owners : q # p => Same(q)
    BY <1>1, <1>11 DEF Same
  <2>2. X \in SUBSET Holders /\ \A z \in X : z[1] = p
    BY <1>6
  <2>3. \A pg \in RestOf(Held, X) : mem'[pg] = mem[pg]
    BY <1>7, <1>10
  <2> HIDE DEF X
  <2> QED
    BY <1>1, <2>1, <2>2, <2>3, OneActor
<1>15. Sound(p)'
  <2>1. Loop(p) /\ call[p] = NoCall(p)
    BY <1>1, <1>2 DEF Sound, Loop, Busy
  <2>2. Loop(p)'
    BY <1>1, <1>11, <2>1 DEF Loop, NoCall, Busy, Done
  <2>3. OwnImage(p)'
    BY <1>11 DEF OwnImage, Living, Busy
  <2>4. Growing(p)' /\ Loading(p)' /\ Forked(p)'
    BY <1>11 DEF Growing, Loading, Forked
  <2> QED
    BY <2>2, <2>3, <2>4 DEF Sound
<1>16. KidInv'
  <2>1. \A q \in Owners : mpc'[q] = "fork" => mpc[q] = "fork" /\ call'[q].kid = call[q].kid
    BY <1>1, <1>11
  <2> QED
    BY <2>1, KidSame
<1> QED
  BY <1>12, <1>13, <1>14, <1>15, <1>16 DEF MemInv

\* The contents of one page are set.
Marked(w, v, pg, c) ==
    /\ v \in Works /\ v.free = w.free /\ v.pt = w.pt /\ v.ok = w.ok /\ v.panic = w.panic
    /\ v.mem[pg] = c /\ \A q \in Pages : q # pg => v.mem[q] = w.mem[q]

\* A work record with such a page.
LEMMA MarkedIs ==
    ASSUME NEW w \in Works, NEW pg \in Pages, NEW c \in Contents
    PROVE  Marked(w, [w EXCEPT !.mem[pg] = c], pg, c)
<1> DEFINE m == [w.mem EXCEPT ![pg] = c]
           v == [w EXCEPT !.mem = m]
<1>1. w.mem \in [Pages -> Contents]
  BY DEF Works
<1>2. m \in [Pages -> Contents] /\ m[pg] = c /\ \A q \in Pages : q # pg => m[q] = w.mem[q]
  BY <1>1
<1> HIDE DEF m
<1>3. v \in Works /\ v.free = w.free /\ v.pt = w.pt /\ v.ok = w.ok /\ v.panic = w.panic /\ v.mem = m
  BY <1>2 DEF Works
<1>4. Marked(w, v, pg, c)
  BY <1>2, <1>3 DEF Marked
<1>5. v = [w EXCEPT !.mem[pg] = c]
  BY DEF m
<1> QED
  BY <1>4, <1>5

\* The image that exec leaves: text, the guard page and the stack.
LEMMA ExecImage ==
    ASSUME NEW m \in Nat, NEW e, e = [i \in 1 .. (m + 2) - 2 |-> "text"] \o <<"guard", "args">>
    PROVE  e \in Seq(Contents) /\ Len(e) = m + 2 /\ (\A i \in 1 .. m : e[i] = "text") /\ e[m + 1] = "guard" /\ e[m + 2] = "args"
<1> DEFINE a == [i \in 1 .. m |-> "text"]
           b == <<"guard", "args">>
<1>1. a \in Seq(Contents) /\ Len(a) = m /\ (\A i \in 1 .. m : a[i] = "text")
  BY DEF Contents
<1>2. b \in Seq(Contents) /\ Len(b) = 2 /\ b[1] = "guard" /\ b[2] = "args"
  BY DEF Contents
<1>3. (m + 2) - 2 = m /\ e = a \o b
  OBVIOUS
<1> HIDE DEF a, b
<1>4. /\ a \o b \in Seq(Contents) /\ Len(a \o b) = m + 2
      /\ \A i \in 1 .. m + 2 : (a \o b)[i] = IF i <= m THEN a[i] ELSE b[i - m]
  <2>1. /\ a \o b \in Seq(Contents) /\ Len(a \o b) = Len(a) + Len(b)
        /\ \A i \in 1 .. Len(a) + Len(b) : (a \o b)[i] = IF i <= Len(a) THEN a[i] ELSE b[i - Len(a)]
    BY <1>1, <1>2, ConcatProperties
  <2>2. Len(a) = m /\ Len(b) = 2
    BY <1>1, <1>2
  <2> HIDE DEF a, b
  <2> QED
    BY <2>1, <2>2
<1>5. \A i \in 1 .. m : e[i] = "text"
  BY <1>1, <1>3, <1>4
<1>6. e[m + 1] = "guard"
  <2>1. m + 1 \in 1 .. m + 2 /\ ~(m + 1 <= m) /\ (m + 1) - m = 1
    OBVIOUS
  <2> QED
    BY <1>2, <1>3, <1>4, <2>1
<1>7. e[m + 2] = "args"
  <2>1. m + 2 \in 1 .. m + 2 /\ ~(m + 2 <= m) /\ (m + 2) - m = 2
    OBVIOUS
  <2> QED
    BY <1>2, <1>3, <1>4, <2>1
<1> QED
  BY <1>3, <1>4, <1>5, <1>6, <1>7

\* Facts about a process whose new image is complete.
LEMMA StackIs ==
    ASSUME MemInv, NEW p \in Owners, mpc[p] = "stack", call[p].at >= call[p].goal
    PROVE  LET m == NumPages(call[p].newsz)
           IN /\ m \in Nat /\ NumPages(call[p].goal) = m + 2 /\ Shape(call[p].new, m + 2) /\ call[p].new[Trapframe] = tf[p]
              /\ \A n \in 0 .. m - 1 : mem[call[p].new[User(n)]] = "text"
<1> DEFINE m == NumPages(call[p].newsz)
           at == call[p].at
           g == call[p].goal
           z == call[p].newsz
           k == Done(p)
<1>1. m \in Nat /\ at \in Nat /\ g \in Nat /\ k \in Nat /\ z \in Nat /\ at >= g /\ NumPages(g) \in Nat
  BY TypesOf
<1>2. /\ at = k * PGSIZE /\ Shape(call[p].new, k) /\ call[p].new[Trapframe] = tf[p] /\ k <= NumPages(g)
      /\ g = z + 2 * PGSIZE /\ z = PGROUNDUP(z)
      /\ \A n \in 0 .. m - 1 : mem[call[p].new[User(n)]] = "text"
  BY LoadingIs
<1> HIDE DEF at, g, k
<1>3. at < g <=> k < NumPages(g)
  BY <1>1, <1>2, LoopAt
<1>4. k = NumPages(g)
  BY <1>1, <1>2, <1>3
<1>5. z = m * PGSIZE
  BY <1>1, <1>2, RoundUp
<1> HIDE DEF m, z
<1>6. g = (m + 2) * PGSIZE /\ m + 2 \in Nat
  BY <1>1, <1>2, <1>5, MemoryAssumption
<1>7. NumPages(g) = m + 2
  BY <1>6, WholePages
<1> QED
  BY <1>1, <1>2, <1>4, <1>7 DEF m, g, z

\* exec replaces the image.
LEMMA ExecCommitInv ==
    ASSUME MemInv, NEW p \in Owners, ExecCommit(p)
    PROVE  MemInv'
<1> DEFINE x == <<p, "cur">>
           y == <<p, "new">>
           z == <<p, "argv">>
           X == ({x} \union {y}) \union {z}
           O == RestOf(Held, {x})
           D == Held[z]
           N == Held[y]
           new == call[p].new
           m == NumPages(call[p].newsz)
           g == new[User(m)]
           a == new[User(m + 1)]
           w0 == Work(cur[p])
           w1 == [w0 EXCEPT !.mem[g] = "guard"]
           w2 == [w1 EXCEPT !.mem[a] = "args"]
           v == ProcFreePagetable(w2, size[p])
           w == Kfree(v, D)
<1>1. /\ mpc[p] = "stack" /\ call[p].at >= call[p].goal
  BY DEF ExecCommit
<1>2. /\ m \in Nat /\ NumPages(call[p].goal) = m + 2 /\ Shape(new, m + 2) /\ new[Trapframe] = tf[p]
      /\ \A n \in 0 .. m - 1 : mem[new[User(n)]] = "text"
  BY <1>1, StackIs
<1>3. MemType /\ ShareInv /\ Shares(Held, free) /\ new \in Tables /\ call[p].goal \in Nat
  BY TypesOf DEF MemInv, ShareInv
<1>4. /\ x \in Holders /\ y \in Holders /\ z \in Holders /\ x # y /\ x # z /\ y # z /\ x[1] = p /\ y[1] = p /\ z[1] = p
      /\ D = Range(call[p].argv) /\ N = Owned(new)
      /\ Held'[x] = Owned(cur'[p]) /\ Held'[y] = Owned(call'[p].new) /\ Held'[z] = Range(call'[p].argv)
  BY HeldIs
<1>5. (m + 2) - 2 = m /\ (m + 2) - 1 = m + 1 /\ m \in 0 .. (m + 2) - 1 /\ m + 1 \in 0 .. (m + 2) - 1 /\ m + 2 \in Nat
  BY <1>2
<1>6. /\ Pool(w) /\ expect' = [expect EXCEPT ![p] = [i \in 1 .. (m + 2) - 2 |-> "text"] \o <<"guard", "args">>]
      /\ cur' = [cur EXCEPT ![p] = new] /\ size' = [size EXCEPT ![p] = call[p].goal] /\ Return(p) /\ tf' = tf /\ calls' = calls
  BY <1>2, <1>4, <1>5 DEF ExecCommit, UvmClear, FreeArgs, OldSize
<1>7. /\ User(m) \in Own(new) /\ g \in N /\ User(m + 1) \in Own(new) /\ a \in N /\ Distinct(new)
  <2> HIDE DEF m
  <2> QED
    BY <1>2, <1>3, <1>4, <1>5, UserOwned DEF ShareInv, OneEach
<1>8. Whole(w0, O) /\ w0.pt = cur[p] /\ ~w0.panic /\ w0.mem = mem
  BY CurWork
<1>9. UserImage(p) /\ NumPages(size[p]) \in Nat
  BY <1>1, ImageOf, TypesOf DEF Living, Busy
<1>10. Leaves(cur[p]) = UserSlots(0, NumPages(size[p])) \union Mapped /\ tf[p] # NoPage
  BY <1>9 DEF UserImage, Shape
<1>11. /\ call'[p] = NoCall(p) /\ mpc'[p] = "user" /\ call'[p].new = Nothing /\ call'[p].argv = <<>>
       /\ call' \in [Owners -> Locals] /\ mpc' \in [Owners -> Living \union {"unused", "embryo"}]
       /\ (\A q \in Owners : q # p => call'[q] = call[q] /\ mpc'[q] = mpc[q])
       /\ KidInv'
  BY <1>6, ReturnIs
<1> HIDE DEF x, y, z, w0, m
<1>12. N \subseteq O /\ D \subseteq O \ N /\ RestOf(Held, X) = (O \ N) \ D
  <2>1. {x} \in SUBSET Holders /\ y \notin {x} /\ {x} \union {y} \in SUBSET Holders /\ z \notin {x} \union {y}
    BY <1>4
  <2>2. RestOf(Held, {x} \union {y}) = RestOf(Held, {x}) \ Held[y] /\ Held[y] \subseteq RestOf(Held, {x})
    BY <1>3, <1>4, <2>1, RestMore
  <2>3. RestOf(Held, X) = RestOf(Held, {x} \union {y}) \ Held[z] /\ Held[z] \subseteq RestOf(Held, {x} \union {y})
    BY <1>3, <1>4, <2>1, RestMore
  <2> QED
    BY <2>2, <2>3
<1> HIDE DEF O, D, N, g, a
<1>13. O \subseteq Pages /\ w0 \in Works /\ g \in Pages /\ a \in Pages /\ "guard" \in Contents /\ "args" \in Contents
  BY <1>7, <1>8, <1>12 DEF Whole, Contents
<1>14. Marked(w0, w1, g, "guard")
  BY <1>13, MarkedIs
<1> HIDE DEF w1
<1>15. Marked(w1, w2, a, "args")
  BY <1>13, <1>14, MarkedIs DEF Marked
<1> HIDE DEF w2
<1>16. /\ w2 \in Works /\ w2.free = w0.free /\ w2.pt = cur[p] /\ w2.panic = w0.panic /\ w2.mem[a] = "args"
       /\ (g # a => w2.mem[g] = "guard") /\ \A q \in Pages : q # g /\ q # a => w2.mem[q] = mem[q]
  BY <1>8, <1>13, <1>14, <1>15 DEF Marked
<1>17. Whole(w2, O)
  BY <1>8, <1>16 DEF Whole
<1>18. Gone(w2, v, O)
  BY <1>9, <1>10, <1>16, <1>17, TableGone
<1> HIDE DEF v
<1>19. Whole(v, O) /\ Kept(w2, v, O) /\ v.pt = Nothing
  BY <1>18 DEF Gone
<1>20. Whole(w, O \ D) /\ Kept(v, w, O \ D) /\ w.pt = Nothing
  <2>1. w = Kfree(v, D) /\ D \in SUBSET O
    BY <1>12
  <2> HIDE DEF w
  <2> QED
    BY <1>19, <2>1, KfreeWhole
<1> HIDE DEF w
<1>21. /\ free' = w.free /\ mem' = w.mem /\ panicked' = FALSE /\ mem' \in [Pages -> Contents] /\ \A q \in O \ D : mem'[q] = w2.mem[q]
  <2>1. w \in Works /\ w.panic = FALSE
    BY <1>8, <1>16, <1>19, <1>20 DEF Kept, Whole, Works
  <2>2. free' = w.free /\ mem' = w.mem /\ panicked' = FALSE
    BY <1>3, <1>6, <2>1 DEF Pool, MemType
  <2>3. \A q \in O \ D : w.mem[q] = w2.mem[q]
    BY <1>19, <1>20 DEF Kept
  <2> QED
    BY <2>1, <2>2, <2>3 DEF Works
<1>22. /\ w.free \subseteq Pages /\ (O \ D) \intersect w.free = {} /\ \A q \in Pages : q \in w.free \/ q \in O \ D
  BY <1>20, NothingIs DEF Whole, Works
<1>23. /\ cur'[p] = new /\ size'[p] = call[p].goal /\ expect'[p] = [i \in 1 .. (m + 2) - 2 |-> "text"] \o <<"guard", "args">>
       /\ \A q \in Owners : q # p => cur'[q] = cur[q] /\ size'[q] = size[q] /\ expect'[q] = expect[q]
  BY <1>3, <1>6 DEF MemType
<1>24. /\ expect'[p] \in Seq(Contents) /\ Len(expect'[p]) = m + 2 /\ (\A i \in 1 .. m : expect'[p][i] = "text")
       /\ expect'[p][m + 1] = "guard" /\ expect'[p][m + 2] = "args"
  <2> DEFINE e == expect'[p]
  <2>1. m \in Nat /\ e = [i \in 1 .. (m + 2) - 2 |-> "text"] \o <<"guard", "args">>
    BY <1>2, <1>23
  <2> HIDE DEF e
  <2>2. e \in Seq(Contents) /\ Len(e) = m + 2 /\ (\A i \in 1 .. m : e[i] = "text") /\ e[m + 1] = "guard" /\ e[m + 2] = "args"
    BY <2>1, ExecImage, Zenon
  <2> QED
    BY <2>2 DEF e
<1>25. MemType'
  <2>1. expect' \in [Owners -> Seq(Contents)]
    BY <1>3, <1>6, <1>23, <1>24 DEF MemType
  <2>2. cur' \in [Owners -> Tables] /\ size' \in [Owners -> Nat]
    BY <1>3, <1>6 DEF MemType
  <2> QED
    BY <1>3, <1>6, <1>11, <1>21, <2>1, <2>2 DEF MemType
<1>26. ShareInv'
  <2>1. \A u \in Holders \ X : Held'[u] = Held[u]
    <3>1. \A q \in Owners : /\ <<q, "cur">> \in X \/ cur'[q] = cur[q]
                            /\ <<q, "new">> \in X \/ call'[q].new = call[q].new
                            /\ <<q, "argv">> \in X \/ call'[q].argv = call[q].argv
                            /\ <<q, "tf">> \in X \/ tf'[q] = tf[q]
      BY <1>6, <1>11, <1>23 DEF x, y, z
    <3> HIDE DEF X
    <3> QED
      BY <3>1, HeldSame
  <2>2. Held'[x] = N /\ Held'[y] = {} /\ Held'[z] = {}
    BY <1>4, <1>11, <1>23, NothingIs DEF Range
  <2>3. Reshared(Held, X, Held', free')
    <3>1. \A u \in X : Held'[u] \subseteq Pages /\ Held'[u] \intersect (RestOf(Held, X) \union free') = {}
      BY <1>12, <1>13, <1>21, <1>22, <2>2
    <3>2. \A q \in Pages : q \in free' \/ q \in RestOf(Held, X) \/ q \in Held'[x]
      BY <1>12, <1>21, <1>22, <2>2
    <3>3. \A u, t \in X : u # t => Held'[u] \intersect Held'[t] = {}
      BY <2>2
    <3>4. free' \subseteq Pages /\ free' \intersect RestOf(Held, X) = {} /\ x \in X
      BY <1>12, <1>21, <1>22
    <3> HIDE DEF X
    <3> QED
      BY <2>1, <3>1, <3>2, <3>3, <3>4 DEF Reshared
  <2>4. X \subseteq Holders
    BY <1>4
  <2>5. Shares(Held', free')
    BY <1>3, <2>3, <2>4, Reshare
  <2>6. Shares(Held, free)'
    BY <2>5 DEF Shares
  <2>7. ASSUME NEW q \in Owners PROVE OneEach(q)'
    <3>1. OneEach(q) /\ Distinct(Nothing)
      BY <1>3, NothingIs DEF ShareInv
    <3>2. CASE q = p
      <4>1. Distinct(cur'[p]) /\ Distinct(call'[p].new) /\ DOMAIN call'[p].argv = {}
        BY <1>7, <1>11, <1>23, <3>1
      <4> QED
        BY <3>2, <4>1 DEF OneEach, Distinct, Own
    <3>3. CASE q # p
      BY <1>11, <1>23, <3>1, <3>3 DEF OneEach, Distinct, Own
    <3> QED
      BY <3>2, <3>3
  <2> QED
    BY <2>6, <2>7 DEF ShareInv
<1>27. \A q \in Owners : q # p => Sound(q)'
  <2>1. \A q \in Owners : q # p => Same(q)
    BY <1>6, <1>11, <1>23 DEF Same
  <2>2. X \in SUBSET Holders /\ \A u \in X : u[1] = p
    BY <1>4
  <2>3. \A q \in RestOf(Held, X) : mem'[q] = mem[q]
    BY <1>7, <1>12, <1>13, <1>16, <1>21
  <2> HIDE DEF X
  <2> QED
    BY <1>1, <2>1, <2>2, <2>3, OneActor
<1>28. UserImage(p)'
  <2>1. g # a
    <3>1. User(m) # User(m + 1)
      BY <1>2, SlotNames
    <3> QED
      BY <1>7, <3>1 DEF Distinct, g, a
  <2>2. ASSUME NEW n \in 0 .. (m + 2) - 1 PROVE mem'[new[User(n)]] = expect'[p][n + 1]
    <3>1. CASE n = m
      <4>1. g \in O \ D
        BY <1>7, <1>12
      <4> QED
        BY <1>16, <1>21, <1>24, <2>1, <3>1, <4>1 DEF g
    <3>2. CASE n = m + 1
      <4>1. a \in O \ D /\ n + 1 = m + 2
        BY <1>2, <1>7, <1>12, <3>2
      <4> QED
        BY <1>16, <1>21, <1>24, <3>2, <4>1 DEF a
    <3>3. CASE n # m /\ n # m + 1
      <4>1. n \in 0 .. m - 1 /\ n + 1 \in 1 .. m
        BY <1>2, <3>3
      <4>2. User(n) \in Own(new) /\ new[User(n)] \in N
        BY <1>2, <1>4, <1>5, UserOwned
      <4>3. User(n) # User(m) /\ User(n) # User(m + 1)
        BY <3>3, SlotNames
      <4>4. new[User(n)] # g /\ new[User(n)] # a
        BY <1>7, <4>2, <4>3 DEF Distinct, g, a
      <4>5. new[User(n)] \in O \ D /\ new[User(n)] \in Pages
        BY <1>12, <1>13, <4>2
      <4>6. mem'[new[User(n)]] = mem[new[User(n)]]
        BY <1>16, <1>21, <4>4, <4>5
      <4> QED
        BY <1>2, <1>24, <4>1, <4>6
    <3> QED
      BY <3>1, <3>2, <3>3
  <2>3. Trapframe \in DOMAIN new
    BY <1>2 DEF Shape, Leaves, Mapped
  <2> QED
    BY <1>2, <1>6, <1>10, <1>23, <1>24, <2>2, <2>3 DEF UserImage, Shape
<1>29. Sound(p)'
  BY <1>11, <1>28, UserSound
<1> QED
  BY <1>11, <1>25, <1>26, <1>27, <1>29 DEF MemInv

\* A step of a process and of the child it makes.
LEMMA TwoActors ==
    ASSUME MemInv, NEW p \in Owners, NEW c \in Owners, mpc[p] # "embryo", \A q \in Owners : mpc[q] = "fork" /\ call[q].kid = c => q = p,
           NEW X \in SUBSET Holders, \A x \in X : x[1] = c,
           \A q \in Owners : q # p /\ q # c => Same(q),
           \A pg \in RestOf(Held, X) : mem'[pg] = mem[pg]
    PROVE  \A q \in Owners : q # p /\ q # c => Sound(q)'
<1> DEFINE A == {p, c}
<1>1. A \in SUBSET Owners /\ \A x \in X : x[1] \in A
  OBVIOUS
<1>2. \A q \in Owners \ A : Same(q) /\ (mpc[q] = "fork" => call[q].kid \notin A)
  BY KidIs
<1> HIDE DEF A
<1>3. \A q \in Owners \ A : Sound(q)'
  BY <1>1, <1>2, OthersSound
<1> QED
  BY <1>3 DEF A

\* The image of another process lies outside what a step on a child works on.
LEMMA ImageApart ==
    ASSUME MemInv, NEW p \in Owners, NEW X \in SUBSET Holders, <<p, "cur">> \notin X
    PROVE  Owned(cur[p]) \subseteq RestOf(Held, X)
<1>1. <<p, "cur">> \in Holders \ X /\ Held[<<p, "cur">>] = Owned(cur[p])
  BY HeldIs
<1>2. Shares(Held, free)
  BY DEF MemInv, ShareInv
<1> QED
  BY <1>1, <1>2, RestIs

\* What an unused entry of the process table has.
LEMMA UnusedIs ==
    ASSUME MemInv, NEW c \in Owners, mpc[c] = "unused"
    PROVE  /\ cur[c] = Nothing /\ tf[c] = NoPage /\ size[c] = 0 /\ call[c] = NoCall(c)
           /\ Held[<<c, "cur">>] = {} /\ Held[<<c, "tf">>] = {}
           /\ \A q \in Owners : mpc[q] = "fork" => call[q].kid # c
<1>1. cur[c] = Nothing /\ tf[c] = NoPage /\ size[c] = 0 /\ call[c] = NoCall(c)
  BY DEF MemInv, Sound, OwnImage, Loop, Busy
<1>2. Held[<<c, "cur">>] = {} /\ Held[<<c, "tf">>] = {}
  BY <1>1, HeldIs, NothingIs
<1> QED
  BY <1>1, <1>2, KidIs

\* A process whose table has no user page yet.
LEMMA EmbryoSound ==
    ASSUME NEW c \in Owners, mpc'[c] = "embryo", call'[c] = NoCall(c), size'[c] = 0, tf'[c] # NoPage,
           Trapframe \in DOMAIN cur'[c], cur'[c][Trapframe] = tf'[c]
    PROVE  Sound(c)'
<1>1. OwnImage(c)'
  BY DEF OwnImage, Living, Busy
<1>2. /\ call'[c].new = Nothing /\ call'[c].newsz = 0 /\ call'[c].argv = <<>> /\ call'[c].at = 0
  BY DEF NoCall
<1>3. call'[c].at = Done(c)' * PGSIZE
  <2>1. PGSIZE \in Nat \ {0}
    BY MemoryAssumption
  <2>2. 0 \div PGSIZE = 0 /\ 0 * PGSIZE = 0
    BY <2>1
  <2> QED
    BY <1>2, <2>2 DEF Done
<1>4. Loop(c)'
  BY <1>2, <1>3 DEF Loop, Busy
<1>5. Growing(c)' /\ Loading(c)' /\ Forked(c)'
  BY DEF Growing, Loading, Forked
<1> QED
  BY <1>1, <1>4, <1>5 DEF Sound

\* A trapframe was taken, and a page table made for it.
Framed(w, pg) ==
    /\ pg \in free /\ pg \in Pages /\ pg \notin RestOf(Held, {}) /\ pg # NoPage /\ pg \in Nat
    /\ Whole(w, RestOf(Held, {}) \union {pg}) /\ Kept(Work(Nothing), w, RestOf(Held, {}))
    /\ w.ok => Leaves(w.pt) = Mapped /\ w.pt[Trapframe] = pg
    /\ ~w.ok => w.pt = Nothing

\* allocproc takes a trapframe and makes a page table.
LEMMA FrameTaken ==
    ASSUME MemInv, NEW f, f = Kalloc(Work(Nothing), Spare, "frame"), f.ok
    PROVE  Framed(ProcPagetable([f EXCEPT !.pt = Nothing], f.pt[Spare]), f.pt[Spare])
<1> DEFINE R == RestOf(Held, {})
           w0 == Work(Nothing)
           pg == f.pt[Spare]
           v == [f EXCEPT !.pt = Nothing]
           w == ProcPagetable(v, pg)
<1>1. Whole(w0, R) /\ w0.ok /\ w0.pt = Nothing /\ w0.free = free
  BY FreshWhole
<1>2. "frame" \in Contents /\ f = Kalloc(w0, Spare, "frame")
  BY DEF Contents
<1> HIDE DEF w0, R
<1>3. pg \in w0.free /\ Whole([f EXCEPT !.pt = w0.pt], R \union {pg}) /\ Kept(w0, [f EXCEPT !.pt = w0.pt], R)
      /\ [f EXCEPT !.pt = w0.pt].ok /\ [f EXCEPT !.pt = w0.pt].pt = w0.pt
  BY <1>1, <1>2, TakePage
<1>4. Whole(v, R \union {pg}) /\ Kept(w0, v, R) /\ v.ok /\ v.pt = Nothing
  BY <1>1, <1>3
<1>5. free \subseteq Pages /\ R \intersect free = {} /\ Pages \subseteq Nat /\ NoPage \notin Pages
  <2>1. free \subseteq Pages /\ R \intersect free = {}
    BY <1>1 DEF Whole, Works
  <2>2. Pages \subseteq Nat /\ NoPage \notin Pages
    BY MemoryAssumption DEF Pages, NoPage
  <2> QED
    BY <2>1, <2>2
<1>6. pg \in free /\ pg \in Pages /\ pg \notin R /\ pg # NoPage /\ pg \in Nat
  BY <1>1, <1>3, <1>5
<1> HIDE DEF pg, v
<1>7. Made(v, w, pg, R \union {pg})
  BY <1>4, <1>6, ProcPagetableMade
<1> HIDE DEF w
<1>8. Whole(w, R \union {pg}) /\ Kept(v, w, R \union {pg})
      /\ (w.ok => Leaves(w.pt) = Mapped /\ w.pt[Trapframe] = pg) /\ (~w.ok => w.pt = Nothing)
  BY <1>7 DEF Made
<1>9. Kept(w0, w, R)
  <2>1. DOMAIN w0.pt = {}
    BY <1>1, NothingIs
  <2>2. \A q \in R : q \in R \union {pg}
    OBVIOUS
  <2>3. w.panic = v.panic /\ v.panic = w0.panic /\ \A q \in R : w.mem[q] = v.mem[q] /\ v.mem[q] = w0.mem[q]
    BY <1>4, <1>8, <2>2 DEF Kept
  <2> QED
    BY <2>1, <2>3 DEF Kept
<1>10. Framed(w, pg)
  BY <1>6, <1>8, <1>9 DEF Framed, w0, R
<1> QED
  BY <1>10 DEF w, v, pg

\* What a new process is given, when the step changed nothing else.
LEMMA FreeKept ==
    ASSUME MemInv, NEW u, Emptied(Work(Nothing), u, RestOf(Held, {})), Pool(u), tf' = tf, cur' = cur, size' = size, expect' = expect,
           call' = call, mpc' = mpc, calls' \in Nat
    PROVE  MemInv'
<1> DEFINE R == RestOf(Held, {})
           w0 == Work(Nothing)
<1>1. Whole(w0, R) /\ w0.pt = Nothing /\ w0.free = free /\ ~w0.panic /\ w0.mem = mem
  BY FreshWhole
<1>2. Whole(u, R) /\ Kept(w0, u, R) /\ u.pt = Nothing
  BY DEF Emptied
<1> HIDE DEF w0, R
<1>3. /\ free' = u.free /\ mem' = u.mem /\ panicked' = FALSE /\ mem' \in [Pages -> Contents] /\ \A pg \in R : mem'[pg] = mem[pg]
  BY <1>1, <1>2, PoolIs
<1>4. free' = free
  <2>1. u.free \subseteq Pages /\ R \intersect u.free = {} /\ Pages \ (u.free \union R) = {}
    BY <1>2, NothingIs DEF Whole, Works
  <2>2. w0.free \subseteq Pages /\ R \intersect w0.free = {} /\ Pages \ (w0.free \union R) = {} /\ R \subseteq Pages
    BY <1>1, NothingIs DEF Whole, Works
  <2> QED
    BY <1>1, <1>3, <2>1, <2>2
<1>5. MemType'
  BY <1>3 DEF MemInv, MemType
<1>6. ShareInv'
  BY <1>4, NoneShares
<1>7. \A q \in Owners : Sound(q)'
  <2> DEFINE A == {}
             X == {}
  <2>1. /\ A \in SUBSET Owners /\ X \in SUBSET Holders /\ (\A x \in X : x[1] \in A) /\ \A pg \in RestOf(Held, X) : mem'[pg] = mem[pg]
    BY <1>3 DEF R
  <2>2. \A q \in Owners \ A : Same(q) /\ (mpc[q] = "fork" => call[q].kid \notin A)
    BY DEF Same
  <2>3. Owners \ A = Owners
    OBVIOUS
  <2> HIDE DEF A, X
  <2> QED
    BY <2>1, <2>2, <2>3, OthersSound
<1>8. KidInv'
  BY KidSame
<1> QED
  BY <1>5, <1>6, <1>7, <1>8 DEF MemInv

\* allocproc, on the way to fork.
LEMMA AllocProcMemoryInv ==
    ASSUME MemInv, NEW p \in Owners, NEW c \in Owners, AllocProcMemory(p, c)
    PROVE  MemInv'
<1> DEFINE f == Kalloc(Work(Nothing), Spare, "frame")
           pg == f.pt[Spare]
           w == ProcPagetable([f EXCEPT !.pt = Nothing], pg)
           u == FreeProc(w, pg, 0)
           R == RestOf(Held, {})
           x == <<c, "cur">>
           y == <<c, "tf">>
           X == {x} \union {y}
<1>1. /\ mpc[p] = "user" /\ mpc[c] = "unused" /\ f.ok /\ calls' = calls + 1 /\ size' = size /\ expect' = expect
      /\ \/ /\ w.ok /\ Pool(w) /\ tf' = [tf EXCEPT ![c] = pg] /\ cur' = [cur EXCEPT ![c] = w.pt]
            /\ call' = [call EXCEPT ![p].kid = c] /\ mpc' = [mpc EXCEPT ![p] = "fork", ![c] = "embryo"]
         \/ ~w.ok /\ Pool(u) /\ tf' = tf /\ cur' = cur /\ mpc' = mpc /\ call' = call
  BY DEF AllocProcMemory, MayCall, InUser
<1>2. Framed(w, pg)
  <2>1. f = Kalloc(Work(Nothing), Spare, "frame")
    OBVIOUS
  <2> HIDE DEF f
  <2> QED
    BY <1>1, <2>1, FrameTaken
<1> HIDE DEF f, pg, w
<1>3. /\ pg \in free /\ pg \in Pages /\ pg \notin R /\ pg # NoPage /\ pg \in Nat
      /\ Whole(w, R \union {pg}) /\ Kept(Work(Nothing), w, R)
      /\ (w.ok => Leaves(w.pt) = Mapped /\ w.pt[Trapframe] = pg) /\ (~w.ok => w.pt = Nothing)
  BY <1>2 DEF Framed
<1>4. MemType /\ ShareInv /\ Shares(Held, free) /\ calls' \in Nat /\ p # c
  BY <1>1 DEF MemInv, MemType, ShareInv
<1>5. CASE ~w.ok /\ Pool(u) /\ tf' = tf /\ cur' = cur /\ mpc' = mpc /\ call' = call
  <2>1. Gone(w, u, (R \union {pg}) \ {pg})
    <3>1. pg \in R \union {pg} /\ NumPages(0) \in Nat /\ w.pt = Nothing
      BY <1>3, <1>5, NoPages
    <3> HIDE DEF R
    <3> QED
      BY <1>3, <3>1, FreeProcGone
  <2>2. (R \union {pg}) \ {pg} = R
    BY <1>3
  <2> HIDE DEF u, R
  <2>3. Whole(u, R) /\ Kept(w, u, R) /\ u.pt = Nothing
    BY <2>1, <2>2 DEF Gone
  <2>4. Kept(Work(Nothing), u, R)
    <3>1. R \in SUBSET R /\ DOMAIN Work(Nothing).pt \intersect DOMAIN u.pt \subseteq DOMAIN w.pt
      BY <2>3, NothingIs
    <3> DEFINE w0 == Work(Nothing)
    <3> HIDE DEF w0
    <3>2. Kept(w0, u, R)
      BY <1>3, <2>3, <3>1, KeptTrans DEF w0
    <3> QED
      BY <3>2 DEF w0
  <2> QED
    BY <1>1, <1>4, <1>5, <2>3, <2>4, FreeKept DEF Emptied, R
<1>6. CASE /\ w.ok /\ Pool(w) /\ tf' = [tf EXCEPT ![c] = pg] /\ cur' = [cur EXCEPT ![c] = w.pt]
           /\ call' = [call EXCEPT ![p].kid = c] /\ mpc' = [mpc EXCEPT ![p] = "fork", ![c] = "embryo"]
  <2>1. w \in Works /\ w.pt \in Tables /\ Distinct(w.pt) /\ Leaves(w.pt) = Mapped /\ w.pt[Trapframe] = pg
    BY <1>3, <1>6 DEF Whole, Works
  <2>2. Work(Nothing).mem = mem /\ ~Work(Nothing).panic
    BY FreshWhole
  <2>3. /\ free' = w.free /\ mem' = w.mem /\ panicked' = FALSE /\ mem' \in [Pages -> Contents] /\ \A q \in R : mem'[q] = mem[q]
    <3>1. w.panic = FALSE /\ \A q \in R : w.mem[q] = mem[q]
      BY <1>3, <2>1, <2>2 DEF Kept, Works
    <3> QED
      BY <1>4, <1>6, <2>1, <3>1 DEF Pool, MemType, Works
  <2>4. /\ cur'[c] = w.pt /\ tf'[c] = pg /\ mpc'[p] = "fork" /\ mpc'[c] = "embryo"
        /\ call'[p] = [call[p] EXCEPT !.kid = c]
        /\ (\A q \in Owners : q # c => cur'[q] = cur[q] /\ tf'[q] = tf[q]) /\ (\A q \in Owners : q # p => call'[q] = call[q])
        /\ \A q \in Owners : q # p /\ q # c => mpc'[q] = mpc[q]
    BY <1>4, <1>6 DEF MemType
  <2>5. call[p] \in Locals /\ call[p] = NoCall(p)
    BY <1>1, TypesOf DEF Sound, Loop, Busy
  <2>6. /\ call'[p] \in Locals /\ call'[p].kid = c /\ call'[p].new = Nothing /\ call'[p].argv = <<>> /\ call'[p].newsz = 0 /\ call'[p].at = 0
        /\ call'[p].new = call[p].new /\ call'[p].argv = call[p].argv
    <3>1. /\ call'[p] \in Locals /\ call'[p].kid = c /\ call'[p].new = call[p].new /\ call'[p].argv = call[p].argv
          /\ call'[p].newsz = call[p].newsz /\ call'[p].at = call[p].at
      BY <2>4, <2>5 DEF Locals
    <3>2. call[p].new = Nothing /\ call[p].argv = <<>> /\ call[p].newsz = 0 /\ call[p].at = 0
      BY <2>5 DEF NoCall
    <3> QED
      BY <3>1, <3>2
  <2>7. MemType'
    <3>1. call' \in [Owners -> Locals]
      BY <1>4, <1>6, <2>4, <2>6 DEF MemType
    <3>2. tf' \in [Owners -> Nat] /\ cur' \in [Owners -> Tables]
      BY <1>3, <1>4, <1>6, <2>1 DEF MemType
    <3>3. mpc' \in [Owners -> Living \union {"unused", "embryo"}]
      BY <1>4, <1>6 DEF MemType, Living, Busy
    <3> QED
      BY <1>1, <1>4, <2>3, <3>1, <3>2, <3>3 DEF MemType
  <2>8. /\ cur[c] = Nothing /\ tf[c] = NoPage /\ size[c] = 0 /\ call[c] = NoCall(c) /\ Held[x] = {} /\ Held[y] = {}
        /\ \A q \in Owners : mpc[q] = "fork" => call[q].kid # c
    BY <1>1, UnusedIs
  <2>9. /\ x \in Holders /\ y \in Holders /\ x # y /\ x[1] = c /\ y[1] = c /\ <<p, "cur">> \notin X
        /\ Held'[x] = Owned(w.pt) /\ Held'[y] = {pg}
    BY <1>3, <1>4, <2>4, HeldIs
  <2> HIDE DEF x, y
  <2>10. RestOf(Held, X) = R
    <3>1. {} \in SUBSET Holders /\ {x} \in SUBSET Holders /\ x \notin {} /\ y \notin {x} /\ {} \union {x} = {x}
      BY <2>9
    <3>2. RestOf(Held, {} \union {x}) = R \ Held[x]
      BY <1>4, <2>9, <3>1, RestMore
    <3>3. RestOf(Held, X) = RestOf(Held, {x}) \ Held[y]
      BY <1>4, <2>9, <3>1, RestMore
    <3> QED
      BY <2>8, <3>1, <3>2, <3>3
  <2>11. X \in SUBSET Holders /\ (\A z \in X : z[1] = c) /\ <<p, "cur">> \notin X
    BY <2>9
  <2>12. ShareInv'
    <3>1. \A z \in Holders \ X : Held'[z] = Held[z]
      <4>1. \A q \in Owners : /\ <<q, "cur">> \in X \/ cur'[q] = cur[q]
                              /\ <<q, "new">> \in X \/ call'[q].new = call[q].new
                              /\ <<q, "argv">> \in X \/ call'[q].argv = call[q].argv
                              /\ <<q, "tf">> \in X \/ tf'[q] = tf[q]
        BY <2>4, <2>6 DEF x, y
      <4> HIDE DEF X
      <4> QED
        BY <4>1, HeldSame
    <3>2. w.free \subseteq Pages /\ R \subseteq Pages /\ (R \union {pg}) \intersect w.free = {} /\ Owned(w.pt) = Pages \ (w.free \union (R \union {pg}))
      BY <1>3 DEF Whole, Works
    <3> HIDE DEF R
    <3>3. Reshared(Held, X, Held', free')
      <4>1. \A z \in X : Held'[z] \subseteq Pages /\ Held'[z] \intersect (RestOf(Held, X) \union free') = {}
        BY <1>3, <2>3, <2>9, <2>10, <3>2
      <4>2. \A q \in Pages : q \in free' \/ q \in RestOf(Held, X) \/ q \in Held'[x] \/ q \in Held'[y]
        BY <2>3, <2>9, <2>10, <3>2
      <4>3. \A z, t \in X : z # t => Held'[z] \intersect Held'[t] = {}
        BY <2>9, <3>2
      <4>4. free' \subseteq Pages /\ free' \intersect RestOf(Held, X) = {} /\ x \in X /\ y \in X
        BY <2>3, <2>10, <3>2
      <4> HIDE DEF X
      <4> QED
        BY <3>1, <4>1, <4>2, <4>3, <4>4 DEF Reshared
    <3>4. Shares(Held', free')
      BY <1>4, <2>11, <3>3, Reshare
    <3>5. Shares(Held, free)'
      BY <3>4 DEF Shares
    <3>6. ASSUME NEW q \in Owners PROVE OneEach(q)'
      <4>1. OneEach(q) /\ call'[q].new = call[q].new /\ call'[q].argv = call[q].argv
        BY <1>4, <2>4, <2>6 DEF ShareInv
      <4>2. Distinct(cur'[q])
        BY <2>1, <2>4, <4>1 DEF OneEach
      <4> QED
        BY <4>1, <4>2 DEF OneEach, Distinct, Own
    <3> QED
      BY <3>5, <3>6 DEF ShareInv
  <2> HIDE DEF X, R
  <2>13. \A q \in RestOf(Held, X) : mem'[q] = mem[q]
    BY <2>3, <2>10
  <2>14. \A q \in Owners : q # p /\ q # c => Sound(q)'
    <3>1. \A q \in Owners : q # p /\ q # c => Same(q)
      BY <1>1, <2>4 DEF Same
    <3> QED
      BY <1>1, <2>8, <2>11, <2>13, <3>1, TwoActors
  <2>15. UserImage(p)'
    <3>1. mpc[p] \in Living /\ mpc[p] # "grow" /\ cur'[p] = cur[p] /\ tf'[p] = tf[p] /\ size'[p] = size[p] /\ expect'[p] = expect[p]
      BY <1>1, <1>4, <2>4 DEF Living, Busy
    <3>2. \A q \in Owned(cur[p]) : mem'[q] = mem[q]
      BY <2>11, <2>13, ImageApart
    <3> QED
      BY <3>1, <3>2, ImageSame
  <2>16. Trapframe \in DOMAIN w.pt
    BY <2>1 DEF Leaves, Mapped
  <2>17. Sound(c)'
    BY <1>1, <1>3, <1>4, <2>1, <2>4, <2>8, <2>16, EmbryoSound
  <2>18. Done(p)' = 0 /\ 0 = 0 * PGSIZE
    BY <2>6, MemoryAssumption DEF Done
  <2>19. Sound(p)'
    <3>1. OwnImage(p)'
      BY <2>4, <2>15 DEF OwnImage, UserImage, Living, Busy
    <3>2. Loop(p)'
      BY <2>4, <2>6, <2>18 DEF Loop, Busy
    <3>3. Growing(p)' /\ Loading(p)'
      BY <2>4 DEF Growing, Loading
    <3>4. Forked(p)'
      <4>1. Shape(w.pt, 0) /\ 0 .. 0 - 1 = {} /\ 0 <= NumPages(size[p])
        BY <2>1, NoPages, TypesOf DEF Shape
      <4>2. Copying(p, c)'
        BY <1>1, <2>4, <2>18, <4>1 DEF Copying, Shape
      <4> QED
        BY <2>6, <4>2 DEF Forked, Copying
    <3> QED
      BY <3>1, <3>2, <3>3, <3>4 DEF Sound
  <2>20. KidInv'
    <3> SUFFICES ASSUME NEW q \in Owners, NEW r \in Owners, mpc'[q] = "fork", mpc'[r] = "fork", call'[q].kid = call'[r].kid
                 PROVE  q = r
      BY DEF KidInv
    <3>1. ASSUME NEW t \in Owners, t # p, mpc'[t] = "fork" PROVE mpc[t] = "fork" /\ call'[t].kid = call[t].kid /\ call[t].kid # c
      BY <2>4, <2>8, <3>1
    <3>2. CASE q = p \/ r = p
      BY <2>6, <3>1, <3>2
    <3>3. CASE q # p /\ r # p
      <4>1. mpc[q] = "fork" /\ mpc[r] = "fork" /\ call[q].kid = call[r].kid
        BY <3>1, <3>3
      <4> QED
        BY <4>1 DEF MemInv, KidInv
    <3> QED
      BY <3>2, <3>3
  <2> QED
    BY <2>7, <2>12, <2>14, <2>17, <2>19, <2>20 DEF MemInv
<1> QED
  BY <1>1, <1>5, <1>6

\* Facts about a fork.
LEMMA ForkIs ==
    ASSUME MemInv, NEW p \in Owners, mpc[p] = "fork"
    PROVE  LET c == call[p].kid
               i == Done(p)
           IN /\ c \in Owners /\ c # p /\ mpc[c] = "embryo" /\ call[p].at = i * PGSIZE /\ i \in Nat /\ i <= NumPages(size[p]) /\ Shape(cur[c], i)
              /\ (\A n \in 0 .. i - 1 : mem[cur[c][User(n)]] = expect[p][n + 1])
              /\ (\A q \in Owners : mpc[q] = "fork" /\ call[q].kid = c => q = p)
              /\ UserImage(p) /\ call[p].new = Nothing /\ call[p].argv = <<>> /\ call[p].newsz = 0
              /\ call[c] = NoCall(c) /\ size[c] = 0 /\ tf[c] # NoPage /\ Trapframe \in DOMAIN cur[c] /\ cur[c][Trapframe] = tf[c]
<1> DEFINE c == call[p].kid
<1>1. c \in Owners /\ mpc[c] = "embryo" /\ Copying(p, c)
  BY KidIs
<1>2. Sound(p) /\ Sound(c) /\ Done(p) \in Nat
  BY <1>1, TypesOf
<1>3. call[p].at = Done(p) * PGSIZE /\ call[p].new = Nothing /\ call[p].argv = <<>> /\ call[p].newsz = 0
  BY <1>2 DEF Sound, Loop
<1>4. call[c] = NoCall(c) /\ size[c] = 0 /\ tf[c] # NoPage /\ Trapframe \in DOMAIN cur[c] /\ cur[c][Trapframe] = tf[c]
  BY <1>1, <1>2 DEF Sound, OwnImage, Loop, Busy
<1>5. UserImage(p)
  BY ImageOf DEF Living, Busy
<1>6. \A q \in Owners : mpc[q] = "fork" /\ call[q].kid = c => q = p
  BY DEF MemInv, KidInv
<1> HIDE DEF c
<1>7. Done(p) <= NumPages(size[p]) /\ Shape(cur[c], Done(p)) /\ \A n \in 0 .. Done(p) - 1 : mem[cur[c][User(n)]] = expect[p][n + 1]
  BY <1>1 DEF Copying
<1>8. c # p
  BY <1>1
<1> QED
  BY <1>1, <1>2, <1>3, <1>4, <1>5, <1>6, <1>7, <1>8 DEF c

\* A turn of uvmcopy that finds a page.
LEMMA CopyOk ==
    ASSUME MemInv, NEW p \in Owners, mpc[p] = "fork", call[p].at < size[p], NEW c, c = call[p].kid, NEW i, i = Done(p),
           NEW w, Added(Work(cur[c]), w, i, expect[p][i + 1], RestOf(Held, {<<c, "cur">>})), w.ok, Pool(w), cur' = [cur EXCEPT ![c] = w.pt],
           call' = [call EXCEPT ![p].at = @ + PGSIZE], tf' = tf, mpc' = mpc, size' = size, expect' = expect, calls' = calls
    PROVE  MemInv'
<1> DEFINE x == <<c, "cur">>
           O == RestOf(Held, {x})
           w0 == Work(cur[c])
           at == call[p].at
           a == at + PGSIZE
<1>1. /\ c \in Owners /\ c # p /\ mpc[c] = "embryo" /\ at = i * PGSIZE /\ i \in Nat /\ i <= NumPages(size[p]) /\ Shape(cur[c], i)
      /\ (\A n \in 0 .. i - 1 : mem[cur[c][User(n)]] = expect[p][n + 1])
      /\ (\A q \in Owners : mpc[q] = "fork" /\ call[q].kid = c => q = p)
      /\ UserImage(p) /\ call[p].new = Nothing /\ call[p].argv = <<>> /\ call[p].newsz = 0
      /\ call[c] = NoCall(c) /\ size[c] = 0 /\ tf[c] # NoPage /\ Trapframe \in DOMAIN cur[c] /\ cur[c][Trapframe] = tf[c]
  BY ForkIs
<1>2. MemType /\ at \in Nat /\ call[p] \in Locals /\ size[p] \in Nat /\ NumPages(size[p]) \in Nat
  BY TypesOf DEF MemInv
<1>3. i < NumPages(size[p]) /\ a = (i + 1) * PGSIZE /\ a \in Nat
  <2> DEFINE g == size[p]
  <2>1. at \in Nat /\ g \in Nat /\ at < g /\ at = i * PGSIZE
    BY <1>1, <1>2
  <2> HIDE DEF g, at
  <2>2. at + PGSIZE = (i + 1) * PGSIZE /\ at + PGSIZE \in Nat /\ (at < g <=> i < NumPages(g))
    BY <1>1, <2>1, LoopAt
  <2> QED
    BY <2>1, <2>2 DEF g
<1>4. Whole(w0, O) /\ w0.pt = cur[c] /\ ~w0.panic /\ w0.mem = mem
  BY <1>1, CurWork
<1> HIDE DEF w0, O
<1>5. /\ Whole(w, O) /\ Kept(w0, w, O) /\ w.pt \in Tables
      /\ w.mem[w.pt[User(i)]] = expect[p][i + 1] /\ Leaves(w.pt) = Leaves(w0.pt) \union {User(i)}
  BY DEF Added, Whole, Works, w0, O
<1>6. Shape(w.pt, i + 1)
  BY <1>1, <1>4, <1>5, NextPage
<1>7. /\ free' = w.free /\ mem' = w.mem /\ panicked' = FALSE /\ mem' \in [Pages -> Contents] /\ \A pg \in O : mem'[pg] = mem[pg]
  BY <1>4, <1>5, PoolIs
<1>8. /\ cur'[c] = w.pt /\ call'[p] = [call[p] EXCEPT !.at = a]
      /\ (\A q \in Owners : q # c => cur'[q] = cur[q]) /\ \A q \in Owners : q # p => call'[q] = call[q]
  BY <1>1, <1>2 DEF MemType
<1> HIDE DEF a
<1>9. /\ call'[p] \in Locals /\ call'[p].at = a /\ call'[p].kid = call[p].kid /\ call'[p].new = call[p].new /\ call'[p].argv = call[p].argv
      /\ call'[p].newsz = call[p].newsz
  <2>1. a \in Nat
    BY <1>3
  <2> DEFINE r == call[p]
             t == call'[p]
  <2>2. r \in Locals /\ t = [r EXCEPT !.at = a]
    BY <1>2, <1>8
  <2> HIDE DEF r, t
  <2>3. t \in Locals /\ t.at = a /\ t.kid = r.kid /\ t.new = r.new /\ t.argv = r.argv /\ t.newsz = r.newsz
    BY <2>1, <2>2 DEF Locals
  <2> QED
    BY <2>3 DEF r, t
<1>10. MemType'
  <2>1. cur' \in [Owners -> Tables]
    BY <1>2, <1>5 DEF MemType
  <2>2. call' \in [Owners -> Locals]
    BY <1>2, <1>8, <1>9 DEF MemType
  <2> QED
    BY <1>2, <1>7, <2>1, <2>2 DEF MemType
<1>11. ShareInv'
  <2>1. \A q \in Owners : call'[q].new = call[q].new /\ call'[q].argv = call[q].argv
    BY <1>8, <1>9
  <2> QED
    BY <1>1, <1>5, <1>7, <2>1, CurShares DEF O
<1>20. x \in Holders /\ x[1] = c /\ <<p, "cur">> # x
  BY <1>1, HeldIs
<1> HIDE DEF x
<1>12. {x} \in SUBSET Holders /\ (\A z \in {x} : z[1] = c) /\ <<p, "cur">> \notin {x}
  BY <1>20
<1>13. \A q \in Owners : q # p /\ q # c => Sound(q)'
  <2>1. \A q \in Owners : q # p /\ q # c => Same(q)
    BY <1>8 DEF Same
  <2>2. \A pg \in RestOf(Held, {x}) : mem'[pg] = mem[pg]
    BY <1>7 DEF O
  <2> QED
    BY <1>1, <1>12, <2>1, <2>2, TwoActors
<1>14. UserImage(p)'
  <2>1. \A q \in Owned(cur[p]) : mem'[q] = mem[q]
    BY <1>7, <1>12, ImageApart DEF O
  <2>2. mpc[p] \in Living /\ mpc[p] # "grow" /\ cur'[p] = cur[p]
    BY <1>1, <1>8 DEF Living, Busy
  <2> QED
    BY <2>1, <2>2, ImageSame
<1>15. /\ \A n \in 0 .. i - 1 : w.pt[User(n)] = cur[c][User(n)] /\ w.mem[w.pt[User(n)]] = mem[cur[c][User(n)]]
       /\ w.pt[Trapframe] = cur[c][Trapframe] /\ Trapframe \in DOMAIN w.pt
  <2>1. i <= i + 1 /\ i <= i /\ i + 1 \in Nat /\ Shape(w0.pt, i)
    BY <1>1, <1>4
  <2> QED
    BY <1>1, <1>4, <1>5, <1>6, <2>1, ImageKept
<1>16. Sound(c)'
  BY <1>1, <1>8, <1>15, EmbryoSound
<1>17. Done(p)' = i + 1
  <2> DEFINE j == i + 1
  <2>3. j \in Nat /\ a = j * PGSIZE
    BY <1>1, <1>3
  <2>4. Done(p)' = a \div PGSIZE
    BY <1>9 DEF Done
  <2>1. j \in Nat /\ a = j * PGSIZE /\ Done(p)' = a \div PGSIZE
    BY <2>3, <2>4
  <2> HIDE DEF j
  <2>2. a \div PGSIZE = j
    BY <2>1, PageNumber
  <2> QED
    BY <2>1, <2>2 DEF j
<1>18. Sound(p)'
  <2>1. OwnImage(p)'
    BY <1>14 DEF OwnImage, UserImage, Living, Busy
  <2>2. Loop(p)'
    BY <1>1, <1>3, <1>9, <1>17 DEF Loop, Busy
  <2>3. Growing(p)' /\ Loading(p)'
    BY DEF Growing, Loading
  <2>4. Forked(p)'
    <3>1. ASSUME NEW n \in 0 .. (i + 1) - 1 PROVE mem'[w.pt[User(n)]] = expect[p][n + 1]
      <4>1. CASE n = i
        BY <1>5, <1>7, <4>1
      <4>2. CASE n # i
        <5>1. n \in 0 .. i - 1
          BY <1>1, <4>2
        <5> QED
          BY <1>1, <1>7, <1>15, <5>1
      <4> QED
        BY <4>1, <4>2
    <3>2. i + 1 <= NumPages(size[p])
      BY <1>1, <1>2, <1>3
    <3>3. Copying(p, c)'
      BY <1>1, <1>6, <1>8, <1>17, <3>1, <3>2 DEF Copying, Shape
    <3> QED
      BY <1>9, <3>3 DEF Forked, Copying
  <2> QED
    BY <2>1, <2>2, <2>3, <2>4 DEF Sound
<1>19. KidInv'
  <2>1. \A q \in Owners : mpc'[q] = "fork" => mpc[q] = "fork" /\ call'[q].kid = call[q].kid
    BY <1>8, <1>9
  <2> QED
    BY <2>1, KidSame
<1> QED
  BY <1>10, <1>11, <1>13, <1>16, <1>18, <1>19 DEF MemInv

\* What uvmcopy mapped is unmapped, and the child freed.
LEMMA ChildGone ==
    ASSUME NEW w, NEW O, Whole(w, O), NEW i \in Nat, Shape(w.pt, i), NEW frame \in O
    PROVE  Gone(w, FreeProc(Undone(w, i), frame, 0), O \ {frame})
<1> DEFINE S == UserSlots(0, i)
           v == Undone(w, i)
           u == FreeProc(v, frame, 0)
           Q == O \ {frame}
<1>1. S \subseteq Own(w.pt) /\ S \intersect Mapped = {}
  BY UserSlotsIs DEF Shape, Own, Leaves
<1>2. Cut(w, v, O, S)
  BY <1>1, UnmapFrees DEF Undone
<1> HIDE DEF v, S
<1>3. Whole(v, O) /\ Kept(w, v, O) /\ v.ok = w.ok /\ Leaves(v.pt) = Leaves(w.pt) \ S /\ DOMAIN v.pt = DOMAIN w.pt \ S
  BY <1>2 DEF Cut
<1>4. Leaves(v.pt) = UserSlots(0, NumPages(0)) \union Mapped /\ NumPages(0) \in Nat
  BY <1>1, <1>3, NoPages DEF Shape, S
<1>5. Gone(v, u, Q)
  BY <1>3, <1>4, FreeProcGone
<1> HIDE DEF u, Q
<1>6. Whole(u, Q) /\ Kept(v, u, Q) /\ u.ok = v.ok /\ u.pt = Nothing
  BY <1>5 DEF Gone
<1>7. Kept(w, u, Q)
  <2>1. Q \in SUBSET O /\ DOMAIN w.pt \intersect DOMAIN u.pt \subseteq DOMAIN v.pt
    BY <1>6, NothingIs DEF Q
  <2> QED
    BY <1>3, <1>6, <2>1, KeptTrans
<1> QED
  BY <1>3, <1>6, <1>7 DEF Gone, u, v, Q

\* A turn of uvmcopy that does not: fork fails.
LEMMA CopyFails ==
    ASSUME MemInv, NEW p \in Owners, mpc[p] = "fork", NEW c, c = call[p].kid,
           NEW u, Emptied(Work(cur[c]), u, RestOf(Held, {<<c, "cur">>}) \ {tf[c]}), Pool(u),
           cur' = [cur EXCEPT ![c] = u.pt], tf' = [tf EXCEPT ![c] = NoPage], mpc' = [mpc EXCEPT ![p] = "user", ![c] = "unused"],
           call' = [call EXCEPT ![p] = NoCall(p)], size' = size, expect' = expect, calls' = calls
    PROVE  MemInv'
<1> DEFINE x == <<c, "cur">>
           y == <<c, "tf">>
           X == {x} \union {y}
           O == RestOf(Held, {x})
           Q == O \ {tf[c]}
           w0 == Work(cur[c])
<1>1. /\ c \in Owners /\ c # p /\ mpc[c] = "embryo" /\ tf[c] # NoPage /\ size[c] = 0 /\ call[c] = NoCall(c)
      /\ (\A q \in Owners : mpc[q] = "fork" /\ call[q].kid = c => q = p)
      /\ call[p].new = Nothing /\ call[p].argv = <<>>
  BY ForkIs
<1>2. MemType /\ ShareInv /\ Shares(Held, free)
  BY DEF MemInv, ShareInv
<1>3. Whole(w0, O) /\ ~w0.panic /\ w0.mem = mem
  BY <1>1, CurWork
<1>4. Whole(u, Q) /\ Kept(w0, u, Q) /\ u.pt = Nothing
  BY DEF Emptied
<1>5. /\ x \in Holders /\ y \in Holders /\ x # y /\ x[1] = c /\ y[1] = c /\ <<p, "cur">> \notin X
      /\ Held[y] = {tf[c]} /\ Held'[x] = Owned(cur'[c]) /\ Held'[y] = {tf'[c]} \ {NoPage}
  BY <1>1, HeldIs
<1> HIDE DEF w0, x, y
<1>6. RestOf(Held, X) = Q
  <2>1. {x} \in SUBSET Holders /\ y \notin {x}
    BY <1>5
  <2>2. RestOf(Held, {x} \union {y}) = RestOf(Held, {x}) \ Held[y]
    BY <1>2, <1>5, <2>1, RestMore
  <2> QED
    BY <1>5, <2>2
<1> HIDE DEF O, Q
<1>7. /\ free' = u.free /\ mem' = u.mem /\ panicked' = FALSE /\ mem' \in [Pages -> Contents] /\ \A pg \in Q : mem'[pg] = mem[pg]
  BY <1>3, <1>4, PoolIs
<1>8. /\ cur'[c] = Nothing /\ tf'[c] = NoPage /\ mpc'[p] = "user" /\ mpc'[c] = "unused" /\ call'[p] = NoCall(p)
      /\ (\A q \in Owners : q # c => cur'[q] = cur[q] /\ tf'[q] = tf[q]) /\ (\A q \in Owners : q # p => call'[q] = call[q])
      /\ \A q \in Owners : q # p /\ q # c => mpc'[q] = mpc[q]
  BY <1>1, <1>2, <1>4 DEF MemType
<1>9. NoCall(p) \in Locals /\ NoCall(p).new = Nothing /\ NoCall(p).argv = <<>>
  BY NothingIs DEF NoCall, Locals
<1>10. MemType'
  <2>1. cur' \in [Owners -> Tables] /\ tf' \in [Owners -> Nat] /\ call' \in [Owners -> Locals]
    BY <1>2, <1>4, <1>9, NothingIs DEF MemType, NoPage
  <2>2. mpc' \in [Owners -> Living \union {"unused", "embryo"}]
    BY <1>2 DEF MemType, Living, Busy
  <2> QED
    BY <1>2, <1>7, <2>1, <2>2 DEF MemType
<1>11. X \in SUBSET Holders /\ x \in X /\ (\A z \in X : z[1] = c) /\ <<p, "cur">> \notin X
  BY <1>5
<1>12. ShareInv'
  <2>1. \A z \in Holders \ X : Held'[z] = Held[z]
    <3>1. \A q \in Owners : /\ <<q, "cur">> \in X \/ cur'[q] = cur[q]
                            /\ <<q, "new">> \in X \/ call'[q].new = call[q].new
                            /\ <<q, "argv">> \in X \/ call'[q].argv = call[q].argv
                            /\ <<q, "tf">> \in X \/ tf'[q] = tf[q]
      BY <1>1, <1>8, <1>9 DEF x, y
    <3> HIDE DEF X
    <3> QED
      BY <3>1, HeldSame
  <2>2. Held'[x] = {} /\ Held'[y] = {} /\ Owned(u.pt) = {}
    BY <1>4, <1>5, <1>8, NothingIs
  <2>3. \A q \in Owners : OneEach(q)'
    <3> SUFFICES ASSUME NEW q \in Owners
                 PROVE  OneEach(q)'
      OBVIOUS
    <3>1. OneEach(q) /\ Distinct(Nothing) /\ call'[q].new = call[q].new /\ call'[q].argv = call[q].argv
      BY <1>1, <1>2, <1>8, <1>9, NothingIs DEF ShareInv
    <3>2. Distinct(cur'[q])
      BY <1>8, <3>1 DEF OneEach
    <3> QED
      BY <3>1, <3>2 DEF OneEach, Distinct, Own
  <2>4. (\A z \in X : z # x => Held'[z] = {}) /\ Held'[x] = Owned(u.pt)
    BY <2>2
  <2>5. Whole(u, RestOf(Held, X)) /\ free' = u.free
    BY <1>4, <1>6, <1>7
  <2> HIDE DEF X
  <2> QED
    BY <1>11, <2>1, <2>3, <2>4, <2>5, PagesMoved
<1> HIDE DEF X
<1>13. \A pg \in RestOf(Held, X) : mem'[pg] = mem[pg]
  BY <1>6, <1>7
<1>14. \A q \in Owners : q # p /\ q # c => Sound(q)'
  <2>1. \A q \in Owners : q # p /\ q # c => Same(q)
    BY <1>8 DEF Same
  <2> QED
    BY <1>1, <1>11, <1>13, <2>1, TwoActors
<1>15. UserImage(p)'
  <2>1. \A q \in Owned(cur[p]) : mem'[q] = mem[q]
    BY <1>11, <1>13, ImageApart
  <2>2. mpc[p] \in Living /\ mpc[p] # "grow" /\ cur'[p] = cur[p] /\ tf'[p] = tf[p]
    BY <1>1, <1>8 DEF Living, Busy
  <2> QED
    BY <2>1, <2>2, ImageSame
<1>16. Sound(p)'
  BY <1>8, <1>15, UserSound
<1>17. Sound(c)'
  <2>1. Loop(c)
    BY <1>1 DEF MemInv, Sound
  <2>2. Loop(c)'
    <3>1. call'[c] = NoCall(c) /\ call[c] = NoCall(c)
      BY <1>1, <1>8
    <3>2. NoCall(c).new = Nothing /\ NoCall(c).newsz = 0 /\ NoCall(c).argv = <<>> /\ NoCall(c).at = 0
      BY DEF NoCall
    <3> QED
      BY <1>8, <2>1, <3>1, <3>2 DEF Loop, Busy, Done
  <2>3. OwnImage(c)'
    BY <1>1, <1>8 DEF OwnImage, Living, Busy
  <2>4. Growing(c)' /\ Loading(c)' /\ Forked(c)'
    BY <1>8 DEF Growing, Loading, Forked
  <2> QED
    BY <2>2, <2>3, <2>4 DEF Sound
<1>18. KidInv'
  <2>1. \A q \in Owners : mpc'[q] = "fork" => mpc[q] = "fork" /\ call'[q].kid = call[q].kid
    BY <1>1, <1>8
  <2> QED
    BY <2>1, KidSame
<1> QED
  BY <1>10, <1>12, <1>14, <1>16, <1>17, <1>18 DEF MemInv

\* A turn of uvmcopy.
LEMMA CopyPageInv ==
    ASSUME MemInv, NEW p \in Owners, CopyPage(p)
    PROVE  MemInv'
<1> DEFINE c == call[p].kid
           i == Done(p)
           O == RestOf(Held, {<<c, "cur">>})
           w0 == Work(cur[c])
           b == mem[cur[p][User(i)]]
           w == AddPage(w0, i, b)
           u == FreeProc(Undone(w, i), tf[c], 0)
<1>1. /\ mpc[p] = "fork" /\ call[p].at < size[p] /\ size' = size /\ expect' = expect /\ calls' = calls
      /\ \/ w.ok /\ Pool(w) /\ cur' = [cur EXCEPT ![c] = w.pt] /\ call' = [call EXCEPT ![p].at = @ + PGSIZE] /\ tf' = tf /\ mpc' = mpc
         \/ /\ ~w.ok /\ Pool(u) /\ cur' = [cur EXCEPT ![c] = u.pt] /\ tf' = [tf EXCEPT ![c] = NoPage]
            /\ mpc' = [mpc EXCEPT ![p] = "user", ![c] = "unused"] /\ call' = [call EXCEPT ![p] = NoCall(p)]
  BY DEF CopyPage, Done
<1>2. /\ c \in Owners /\ call[p].at = i * PGSIZE /\ i \in Nat /\ Shape(cur[c], i) /\ UserImage(p) /\ tf[c] # NoPage
  BY <1>1, ForkIs
<1>3. call[p].at \in Nat /\ size[p] \in Nat /\ NumPages(size[p]) \in Nat /\ expect[p] \in Seq(Contents)
  BY TypesOf
<1>4. i \in 0 .. NumPages(size[p]) - 1
  <2> DEFINE g == size[p]
             at == call[p].at
  <2>1. at \in Nat /\ g \in Nat /\ at < g /\ at = i * PGSIZE /\ i \in Nat
    BY <1>1, <1>2, <1>3
  <2> HIDE DEF g, at, i
  <2>2. at < g <=> i < NumPages(g)
    BY <2>1, LoopAt
  <2> QED
    BY <1>3, <2>1, <2>2 DEF g
<1>5. b = expect[p][i + 1] /\ b \in Contents
  <2>1. b = expect[p][i + 1] /\ Len(expect[p]) = NumPages(size[p])
    BY <1>2, <1>4 DEF UserImage
  <2>2. i + 1 \in 1 .. NumPages(size[p])
    BY <1>3, <1>4
  <2> HIDE DEF b, i
  <2> QED
    BY <1>3, <2>1, <2>2
<1>6. Whole(w0, O) /\ w0.ok /\ w0.pt = cur[c]
  BY <1>2, CurWork
<1>7. tf[c] \in O
  <2> DEFINE x == <<c, "cur">>
             y == <<c, "tf">>
  <2>1. Shares(Held, free) /\ x \in Holders /\ y \in Holders /\ y \notin {x} /\ Held[y] = {tf[c]}
    BY <1>2, HeldIs DEF MemInv, ShareInv
  <2> HIDE DEF x, y
  <2>2. {x} \in SUBSET Holders
    BY <2>1
  <2>3. Held[y] \subseteq RestOf(Held, {x})
    BY <2>1, <2>2, RestMore
  <2> QED
    BY <2>1, <2>3 DEF x
<1> HIDE DEF w0, O, b, i, c
<1>8. Added(w0, w, i, b, O)
  <2>1. User(i) \notin DOMAIN w0.pt
    BY <1>2, <1>6, NextPage
  <2> QED
    BY <1>2, <1>5, <1>6, <2>1, PageAdded
<1> HIDE DEF w
<1>9. CASE w.ok /\ Pool(w) /\ cur' = [cur EXCEPT ![c] = w.pt] /\ call' = [call EXCEPT ![p].at = @ + PGSIZE] /\ tf' = tf /\ mpc' = mpc
  <2>1. c = call[p].kid /\ i = Done(p) /\ Added(Work(cur[c]), w, i, expect[p][i + 1], RestOf(Held, {<<c, "cur">>}))
    BY <1>5, <1>8 DEF c, i, O, w0
  <2> QED
    BY <1>1, <1>9, <2>1, CopyOk
<1>10. CASE /\ ~w.ok /\ Pool(u) /\ cur' = [cur EXCEPT ![c] = u.pt] /\ tf' = [tf EXCEPT ![c] = NoPage]
            /\ mpc' = [mpc EXCEPT ![p] = "user", ![c] = "unused"] /\ call' = [call EXCEPT ![p] = NoCall(p)]
  <2>1. Whole(w, O) /\ Kept(w0, w, O) /\ Shape(w.pt, i) /\ DOMAIN w0.pt \subseteq DOMAIN w.pt
    BY <1>2, <1>6, <1>8, <1>10 DEF Added, Shape
  <2>2. Gone(w, u, O \ {tf[c]})
    BY <1>2, <1>7, <2>1, ChildGone
  <2> HIDE DEF u
  <2> DEFINE Q == O \ {tf[c]}
  <2>3. Whole(u, Q) /\ Kept(w, u, Q) /\ u.pt = Nothing /\ Q \in SUBSET O
    BY <2>2 DEF Gone
  <2> HIDE DEF Q
  <2>4. Kept(w0, u, Q)
    BY <2>1, <2>3, KeptTrans
  <2>5. Emptied(w0, u, Q)
    BY <2>3, <2>4 DEF Emptied
  <2>6. c = call[p].kid /\ Emptied(Work(cur[c]), u, RestOf(Held, {<<c, "cur">>}) \ {tf[c]})
    BY <2>5 DEF c, Q, O, w0
  <2> QED
    BY <1>1, <1>10, <2>6, CopyFails
<1> QED
  BY <1>1, <1>9, <1>10

\* fork has copied the memory: the child runs, with the image of its parent.
LEMMA ForkDoneKeeps ==
    ASSUME MemInv, NEW p \in Owners, NEW c, c = call[p].kid, NEW i, i = Done(p), ForkDone(p)
    PROVE  MemInv'
<1>1. /\ mpc[p] = "fork" /\ call[p].at >= size[p] /\ size' = [size EXCEPT ![c] = size[p]] /\ expect' = [expect EXCEPT ![c] = expect[p]]
      /\ mpc' = [mpc EXCEPT ![p] = "user", ![c] = "user"] /\ call' = [call EXCEPT ![p] = NoCall(p)]
      /\ free' = free /\ mem' = mem /\ tf' = tf /\ cur' = cur /\ panicked' = panicked /\ calls' = calls
  BY DEF ForkDone
<1>2. /\ c \in Owners /\ c # p /\ mpc[c] = "embryo" /\ call[p].at = i * PGSIZE /\ i \in Nat /\ i <= NumPages(size[p]) /\ Shape(cur[c], i)
      /\ (\A n \in 0 .. i - 1 : mem[cur[c][User(n)]] = expect[p][n + 1])
      /\ (\A q \in Owners : mpc[q] = "fork" /\ call[q].kid = c => q = p)
      /\ UserImage(p) /\ call[p].new = Nothing /\ call[p].argv = <<>>
      /\ call[c] = NoCall(c) /\ tf[c] # NoPage /\ Trapframe \in DOMAIN cur[c] /\ cur[c][Trapframe] = tf[c]
  BY <1>1, ForkIs
<1>3. MemType /\ call[p].at \in Nat /\ size[p] \in Nat /\ NumPages(size[p]) \in Nat /\ expect[p] \in Seq(Contents)
  BY TypesOf DEF MemInv
<1>4. i = NumPages(size[p])
  <2> DEFINE g == size[p]
             at == call[p].at
  <2>1. at \in Nat /\ g \in Nat /\ at >= g /\ at = i * PGSIZE /\ i \in Nat
    BY <1>1, <1>2, <1>3
  <2> HIDE DEF g, at
  <2>2. at < g <=> i < NumPages(g)
    BY <2>1, LoopAt
  <2> QED
    BY <1>2, <1>3, <2>1, <2>2 DEF g
<1>5. /\ size'[c] = size[p] /\ expect'[c] = expect[p] /\ mpc'[p] = "user" /\ mpc'[c] = "user" /\ call'[p] = NoCall(p)
      /\ (\A q \in Owners : q # c => size'[q] = size[q] /\ expect'[q] = expect[q]) /\ (\A q \in Owners : q # p => call'[q] = call[q])
      /\ \A q \in Owners : q # p /\ q # c => mpc'[q] = mpc[q]
  BY <1>1, <1>2, <1>3 DEF MemType
<1>6. NoCall(p) \in Locals /\ NoCall(p).new = Nothing /\ NoCall(p).argv = <<>>
  BY NothingIs DEF NoCall, Locals
<1>7. MemType'
  <2>1. size' \in [Owners -> Nat] /\ expect' \in [Owners -> Seq(Contents)] /\ call' \in [Owners -> Locals]
    BY <1>1, <1>3, <1>6 DEF MemType
  <2>2. mpc' \in [Owners -> Living \union {"unused", "embryo"}]
    BY <1>1, <1>3 DEF MemType, Living, Busy
  <2> QED
    BY <1>1, <1>3, <2>1, <2>2 DEF MemType
<1>8. ShareInv'
  <2>1. \A q \in Owners : call'[q].new = call[q].new /\ call'[q].argv = call[q].argv
    BY <1>2, <1>5, <1>6
  <2> QED
    BY <1>1, <2>1, NoneShares
<1>9. \A q \in Owners : q # p /\ q # c => Sound(q)'
  <2> DEFINE X == {}
  <2>1. \A q \in Owners : q # p /\ q # c => Same(q)
    BY <1>1, <1>5 DEF Same
  <2>2. X \in SUBSET Holders /\ (\A z \in X : z[1] = c) /\ \A pg \in RestOf(Held, X) : mem'[pg] = mem[pg]
    BY <1>1
  <2> HIDE DEF X
  <2> QED
    BY <1>1, <1>2, <2>1, <2>2, TwoActors
<1>10. UserImage(p)'
  <2>1. mpc[p] \in Living /\ mpc[p] # "grow"
    BY <1>1 DEF Living, Busy
  <2> QED
    BY <1>1, <1>2, <1>5, <2>1, ImageSame
<1>11. UserImage(c)'
  <2>1. Len(expect[p]) = NumPages(size[p])
    BY <1>2 DEF UserImage
  <2> QED
    BY <1>1, <1>2, <1>4, <1>5, <2>1 DEF UserImage, Shape
<1>12. Sound(p)'
  BY <1>5, <1>10, UserSound
<1>13. Sound(c)'
  BY <1>2, <1>5, <1>11, UserSound
<1>14. KidInv'
  <2>1. \A q \in Owners : mpc'[q] = "fork" => mpc[q] = "fork" /\ call'[q].kid = call[q].kid
    BY <1>2, <1>5
  <2> QED
    BY <2>1, KidSame
<1> QED
  BY <1>7, <1>8, <1>9, <1>12, <1>13, <1>14 DEF MemInv

\* ForkDone keeps the invariant.
LEMMA ForkDoneInv ==
    ASSUME MemInv, NEW p \in Owners, ForkDone(p)
    PROVE  MemInv'
BY ForkDoneKeeps

-----------------------------------------------------------------------------
(* userinit: there are pages enough, so it succeeds.                         *)

\* An operation succeeded, k pages are left, and the slots S were filled.
Leaving(w, v, k, S) == v \in Works /\ v.ok /\ Cardinality(v.free) >= k /\ DOMAIN v.pt = DOMAIN w.pt \union S

\* The pool is finite.
LEMMA PoolFinite ==
    ASSUME NEW F, F \subseteq Pages
    PROVE  IsFiniteSet(F) /\ Cardinality(F) \in Nat
<1>1. IsFiniteSet(Pages)
  BY MemoryAssumption, FS_Interval DEF Pages
<1> QED
  BY <1>1, FS_Subset, FS_CardinalityType

\* kalloc succeeds when there is a page.
LEMMA KallocLeaves ==
    ASSUME NEW w \in Works, w.ok, NEW k \in Nat, Cardinality(w.free) >= k + 1, NEW slot \in PtSlots, NEW c \in Contents
    PROVE  Leaving(w, Kalloc(w, slot, c), k, {slot})
<1>1. w.free \subseteq Pages /\ w.pt \in Tables
  BY DEF Works
<1>2. IsFiniteSet(w.free) /\ Cardinality(w.free) \in Nat
  BY <1>1, PoolFinite
<1>3. w.free # {}
  BY <1>2, FS_EmptySet
<1>4. PICK pg \in w.free : Kalloc(w, slot, c) = [w EXCEPT !.free = w.free \ {pg}, !.mem[pg] = c, !.pt = Put(w.pt, slot, pg)]
  BY <1>3, KallocIs
<1> DEFINE t == Put(w.pt, slot, pg)
           v == Kalloc(w, slot, c)
<1>5. v = [w EXCEPT !.free = w.free \ {pg}, !.mem[pg] = c, !.pt = t]
  BY <1>4
<1> HIDE DEF v
<1>6. /\ t \in Tables /\ DOMAIN t = DOMAIN w.pt \union {slot}
      /\ t[slot] = pg /\ \A s \in DOMAIN w.pt : s # slot => t[s] = w.pt[s]
  <2>1. pg \in Nat
    BY <1>1, MemoryAssumption DEF Pages
  <2> QED
    BY <1>1, <2>1, PutIs
<1> HIDE DEF t
<1>7. Took(w, v, pg, c, t)
  BY <1>5, <1>6, TookIs
<1>8. Cardinality(w.free \ {pg}) = Cardinality(w.free) - 1
  BY <1>2, FS_RemoveElement
<1>9. Cardinality(w.free) - 1 >= k
  BY <1>2
<1> QED
  BY <1>6, <1>7, <1>8, <1>9 DEF Took, Leaving, v

\* walk needs a page at most for each of its tables.
LEMMA TableLeaves ==
    ASSUME NEW w \in Works, w.ok, NEW k \in Nat, Cardinality(w.free) >= k + 1, NEW t \in TableSlots
    PROVE  Leaving(w, AddTable(w, t), k, {t})
<1>1. CASE t \in DOMAIN w.pt
  <2>1. AddTable(w, t) = w /\ DOMAIN w.pt = DOMAIN w.pt \union {t}
    BY <1>1 DEF AddTable
  <2>2. Cardinality(w.free) \in Nat
    BY PoolFinite DEF Works
  <2>3. Cardinality(w.free) >= k
    BY <2>2
  <2> QED
    BY <2>1, <2>3 DEF Leaving
<1>2. CASE t \notin DOMAIN w.pt
  <2>1. AddTable(w, t) = Kalloc(w, t, "table") /\ t \in PtSlots /\ "table" \in Contents
    BY <1>2, TableSlotIs DEF AddTable, Contents
  <2> QED
    BY <2>1, KallocLeaves
<1> QED
  BY <1>1, <1>2

\* walk needs two pages at most.
LEMMA WalkLeaves ==
    ASSUME NEW w \in Works, w.ok, NEW k \in Nat, Cardinality(w.free) >= k + 2, NEW slot \in PtSlots
    PROVE  Leaving(w, WalkAlloc(w, slot), k, {TablesOf(slot)[1], TablesOf(slot)[2]})
<1> DEFINE a == TablesOf(slot)[1]
           b == TablesOf(slot)[2]
           u == AddTable(w, a)
           j == k + 1
<1>1. a \in TableSlots /\ b \in TableSlots
  BY TablesOfIs
<1>2. WalkAlloc(w, slot) = AddTable(u, b)
  BY DEF WalkAlloc
<1>3. j \in Nat /\ Cardinality(w.free) >= j + 1
  <2>1. Cardinality(w.free) \in Nat
    BY PoolFinite DEF Works
  <2> QED
    BY <2>1
<1> HIDE DEF a, b, j
<1>4. Leaving(w, u, j, {a})
  BY <1>1, <1>3, TableLeaves
<1> HIDE DEF u
<1>5. u \in Works /\ u.ok /\ Cardinality(u.free) >= k + 1 /\ DOMAIN u.pt = DOMAIN w.pt \union {a}
  BY <1>4 DEF Leaving, j
<1>6. Leaving(u, AddTable(u, b), k, {b})
  BY <1>1, <1>5, TableLeaves
<1> QED
  BY <1>2, <1>5, <1>6 DEF Leaving, a, b

\* mappages needs two pages at most, and none when the tables are there.
LEMMA MapLeaves ==
    ASSUME NEW w \in Works, w.ok, NEW k \in Nat, NEW slot \in PtSlots, slot \notin DOMAIN w.pt, slot \notin TableSlots, NEW page \in Nat,
           \/ Cardinality(w.free) >= k + 2
           \/ Cardinality(w.free) >= k /\ TablesOf(slot)[1] \in DOMAIN w.pt /\ TablesOf(slot)[2] \in DOMAIN w.pt
    PROVE  Leaving(w, MapPage(w, slot, page), k, {TablesOf(slot)[1], TablesOf(slot)[2], slot})
<1> DEFINE a == TablesOf(slot)[1]
           b == TablesOf(slot)[2]
           u == WalkAlloc(w, slot)
           v == MapPage(w, slot, page)
<1>1. a \in TableSlots /\ b \in TableSlots
  BY TablesOfIs
<1>2. Leaving(w, u, k, {a, b})
  <2>1. CASE Cardinality(w.free) >= k + 2
    BY <2>1, WalkLeaves
  <2>2. CASE Cardinality(w.free) >= k /\ a \in DOMAIN w.pt /\ b \in DOMAIN w.pt
    <3>1. u = w
      BY <2>2 DEF WalkAlloc, AddTable
    <3> QED
      BY <2>2, <3>1 DEF Leaving
  <2> QED
    BY <2>1, <2>2
<1>3. MapPage(w, slot, page) = IF ~u.ok THEN u ELSE IF slot \in DOMAIN u.pt THEN [u EXCEPT !.panic = TRUE] ELSE [u EXCEPT !.pt = Put(@, slot, page)]
  BY DEF MapPage
<1> HIDE DEF a, b, u
<1>4. u \in Works /\ u.ok /\ Cardinality(u.free) >= k /\ DOMAIN u.pt = DOMAIN w.pt \union {a, b}
  BY <1>2 DEF Leaving
<1>5. MapsAt(u, v, slot, page)
  BY <1>1, <1>3, <1>4 DEF MapsAt
<1> HIDE DEF v
<1>6. PutIn(u, v, slot, page)
  BY <1>4, <1>5, PutRecord
<1>7. Leaving(w, v, k, {a, b, slot})
  BY <1>4, <1>6 DEF PutIn, Leaving
<1> QED
  BY <1>7 DEF a, b, v

\* What userinit begins with: all pages but the trapframe.
Booted == [Kinit EXCEPT !.free = @ \ {1}]

\* proc_pagetable and uvmfirst of the first process succeed.
LEMMA UserInitMade ==
    LET v == ProcPagetable(Booted, 1)
        w == UvmFirst(v)
    IN Whole(Booted, {1}) /\ Made(Booted, v, 1, {1}) /\ v.ok /\ Added(v, w, 0, "text", {1}) /\ w.ok /\ ~w.panic
<1> DEFINE root == UvmCreate(Booted)
           one == MapPage(root, Trampoline, TrampolinePage)
           two == MapPage(one, Trapframe, 1)
           v == ProcPagetable(Booted, 1)
           w == UvmFirst(v)
<1>1. Booted \in Works /\ Booted.ok /\ Booted.pt = Nothing /\ Booted.free = Pages \ {1} /\ ~Booted.panic
  <2> DEFINE m == [pg \in Pages |-> "freed"]
  <2>1. m \in [Pages -> Contents]
    BY DEF Contents
  <2>2. Kinit = [free |-> Pages, mem |-> m, pt |-> Nothing, ok |-> TRUE, panic |-> FALSE]
    BY DEF Kinit
  <2> HIDE DEF m
  <2>3. Kinit \in Works /\ Kinit.free = Pages /\ Kinit.pt = Nothing /\ Kinit.ok /\ ~Kinit.panic
    BY <2>1, <2>2, NothingIs DEF Works
  <2> QED
    BY <2>3 DEF Booted, Works
<1>2. 1 \in Pages /\ 1 \in Nat
  BY MemoryAssumption DEF Pages
<1>3. Whole(Booted, {1})
  <2>1. Distinct(Booted.pt) /\ Owned(Booted.pt) = {}
    BY <1>1, NothingIs
  <2> QED
    BY <1>1, <1>2, <2>1 DEF Whole
<1>4. Cardinality(Booted.free) >= 6
  <2>1. IsFiniteSet(Pages) /\ Cardinality(Pages) = NPAGES
    BY MemoryAssumption, FS_Interval DEF Pages
  <2>2. Cardinality(Pages \ {1}) = NPAGES - 1
    BY <1>2, <2>1, FS_RemoveElement
  <2> QED
    BY <1>1, <2>2, MemoryAssumption
<1>5. Made(Booted, v, 1, {1})
  BY <1>1, <1>2, <1>3, ProcPagetableMade
<1>6. Leaving(Booted, root, 5, {Root})
  <2>1. Root \in PtSlots /\ "table" \in Contents /\ 5 \in Nat /\ Cardinality(Booted.free) >= 5 + 1
    BY <1>4, SlotNames DEF Contents
  <2>2. Leaving(Booted, Kalloc(Booted, Root, "table"), 5, {Root})
    BY <1>1, <2>1, KallocLeaves
  <2> QED
    BY <2>2 DEF UvmCreate
<1> HIDE DEF root
<1>7. TablesOf(Trampoline)[1] = TablesOf(Trapframe)[1] /\ TablesOf(Trampoline)[2] = TablesOf(Trapframe)[2]
  BY DEF TablesOf, Trampoline, Trapframe
<1>8. Trampoline \in PtSlots /\ Trapframe \in PtSlots /\ Trampoline \notin TableSlots /\ Trapframe \notin TableSlots /\ Trampoline # Trapframe
      /\ TrampolinePage \in Nat /\ Trampoline # Root /\ Trapframe # Root
  BY SlotNames, TableSlotIs, MemoryAssumption DEF Mapped, TrampolinePage, Root
<1> DEFINE a == TablesOf(Trampoline)[1]
           b == TablesOf(Trampoline)[2]
<1>9. a \in TableSlots /\ b \in TableSlots
  BY <1>8, TablesOfIs
<1>10. root \in Works /\ root.ok /\ Cardinality(root.free) >= 3 + 2 /\ DOMAIN root.pt = {Root}
  BY <1>1, <1>6, NothingIs DEF Leaving
<1>11. Leaving(root, one, 3, {a, b, Trampoline})
  <2>1. Trampoline \notin DOMAIN root.pt /\ 3 \in Nat
    BY <1>8, <1>10
  <2> QED
    BY <1>8, <1>10, <2>1, MapLeaves
<1> HIDE DEF one
<1>12. one \in Works /\ one.ok /\ Cardinality(one.free) >= 3 /\ DOMAIN one.pt = {Root, a, b, Trampoline}
  BY <1>10, <1>11 DEF Leaving
<1>13. Leaving(one, two, 3, {TablesOf(Trapframe)[1], TablesOf(Trapframe)[2], Trapframe})
  <2>1. Trapframe \notin DOMAIN one.pt /\ 3 \in Nat
    BY <1>8, <1>9, <1>12
  <2>2. TablesOf(Trapframe)[1] \in DOMAIN one.pt /\ TablesOf(Trapframe)[2] \in DOMAIN one.pt
    BY <1>7, <1>12
  <2> QED
    BY <1>2, <1>8, <1>12, <2>1, <2>2, MapLeaves
<1>14. two.ok /\ two \in Works /\ Cardinality(two.free) >= 3
  BY <1>13 DEF Leaving
<1>15. v = two
  BY <1>10, <1>12, <1>14 DEF ProcPagetable, root, one
<1> HIDE DEF v, two
<1>16. v.ok /\ v \in Works /\ Cardinality(v.free) >= 2 + 1 /\ Whole(v, {1}) /\ Leaves(v.pt) = Mapped
  BY <1>5, <1>14, <1>15 DEF Made
<1>17. User(0) \in PtSlots /\ User(0) \notin DOMAIN v.pt /\ User(0) \notin TableSlots /\ 0 \in Nat /\ "text" \in Contents
  <2>1. User(0) \in PtSlots /\ User(0) \notin Mapped /\ User(0)[1] = "user"
    BY SlotNames
  <2> QED
    BY <1>16, <2>1, TableSlotIs DEF Leaves, Contents
<1>18. w = AddPage(v, 0, "text")
  BY DEF UvmFirst
<1>19. Added(v, w, 0, "text", {1})
  BY <1>16, <1>17, <1>18, PageAdded
<1>20. w.ok
  <2> DEFINE f == Kalloc(v, Spare, "text")
             pg == f.pt[Spare]
             g == [f EXCEPT !.pt = v.pt]
             m == MapPage(g, User(0), pg)
  <2>1. Leaving(v, f, 2, {Spare})
    BY <1>16, <1>17, SlotNames, KallocLeaves
  <2>2. f.ok /\ f \in Works /\ Cardinality(f.free) >= 2
    BY <2>1 DEF Leaving
  <2>3. pg \in v.free /\ Whole(g, {1} \union {pg}) /\ g.ok /\ g.pt = v.pt
    BY <1>16, <1>17, <2>2, TakePage
  <2>4. g \in Works /\ pg \in Nat /\ g.free = f.free
    <3>1. g.free = f.free
      BY <2>2 DEF Works
    <3>2. pg \in Pages
      BY <1>16, <2>3 DEF Works
    <3> QED
      BY <2>3, <3>1, <3>2, MemoryAssumption DEF Whole, Pages
  <2> HIDE DEF g, f
  <2>5. Leaving(g, m, 0, {TablesOf(User(0))[1], TablesOf(User(0))[2], User(0)})
    <3>1. Cardinality(g.free) >= 0 + 2 /\ User(0) \notin DOMAIN g.pt
      BY <1>17, <2>2, <2>3, <2>4
    <3> HIDE DEF pg
    <3> QED
      BY <1>17, <2>3, <2>4, <3>1, MapLeaves
  <2>6. m.ok
    BY <2>5 DEF Leaving
  <2>7. AddPage(v, 0, "text") = m
    <3>1. AddPage(v, 0, "text") = IF ~f.ok THEN f ELSE IF m.ok THEN m ELSE Kfree(m, {pg})
      BY DEF AddPage, f, g
    <3> QED
      BY <2>2, <2>6, <3>1
  <2> QED
    BY <1>18, <2>6, <2>7
<1>21. ~w.panic
  <2>1. Booted.panic = FALSE
    BY <1>1 DEF Works
  <2> QED
    BY <1>5, <1>19, <2>1 DEF Made, Added, Kept
<1> QED
  BY <1>3, <1>5, <1>16, <1>19, <1>20, <1>21 DEF v

\* A slot of the process table without a process.
LEMMA UnusedSound ==
    ASSUME NEW p \in Owners, mpc[p] = "unused", cur[p] = Nothing, tf[p] = NoPage, size[p] = 0, call[p] = NoCall(p), Done(p) = 0
    PROVE  Sound(p)
<1>1. PGSIZE \in Nat
  BY MemoryAssumption
<1>2. OwnImage(p) /\ Growing(p) /\ Loading(p) /\ Forked(p)
  BY DEF OwnImage, Growing, Loading, Forked, Living, Busy
<1>3. Loop(p)
  BY <1>1 DEF Loop, NoCall
<1> QED
  BY <1>2, <1>3 DEF Sound

\* userinit: the invariant holds when the first process is made.
LEMMA MemInitInv == MemInit => MemInv
<1> SUFFICES ASSUME MemInit
             PROVE  MemInv
  OBVIOUS
<1> DEFINE F == FirstOwner
           v == ProcPagetable(Booted, 1)
           w == UvmFirst(v)
<1>1. /\ free = w.free /\ mem = [w.mem EXCEPT ![1] = "frame"] /\ panicked = w.panic
      /\ tf = [p \in Owners |-> IF p = F THEN 1 ELSE NoPage]
      /\ cur = [p \in Owners |-> IF p = F THEN w.pt ELSE Nothing]
      /\ size = [p \in Owners |-> IF p = F THEN PGSIZE ELSE 0]
      /\ mpc = [p \in Owners |-> IF p = F THEN "user" ELSE "unused"]
      /\ expect = [p \in Owners |-> IF p = F THEN <<"text">> ELSE <<>>]
      /\ call = [p \in Owners |-> NoCall(p)] /\ calls = 0
  BY DEF MemInit, Booted
<1>2. /\ Made(Booted, v, 1, {1}) /\ v.ok /\ Added(v, w, 0, "text", {1}) /\ w.ok /\ ~w.panic
  BY UserInitMade
<1> HIDE DEF v, w
<1>3. /\ Whole(w, {1}) /\ Kept(v, w, {1}) /\ DOMAIN v.pt \subseteq DOMAIN w.pt
      /\ w.mem[w.pt[User(0)]] = "text" /\ Leaves(w.pt) = Leaves(v.pt) \union {User(0)}
      /\ Leaves(v.pt) = Mapped /\ v.pt[Trapframe] = 1
  BY <1>2 DEF Made, Added
<1>4. w \in Works /\ w.mem \in [Pages -> Contents] /\ w.pt \in Tables /\ w.panic = FALSE /\ w.free \subseteq Pages
      /\ 1 \notin w.free /\ Distinct(w.pt) /\ Owned(w.pt) = Pages \ (w.free \union {1}) /\ 1 \in Pages
  BY <1>2, <1>3 DEF Whole, Works
<1>5. Shape(w.pt, 1)
  <2>1. Shape(v.pt, 0)
    BY <1>3, NoPages DEF Shape
  <2>2. 0 \in Nat /\ 0 + 1 = 1
    OBVIOUS
  <2> QED
    BY <1>3, <2>1, <2>2, NextPage
<1>6. Trapframe \in DOMAIN w.pt /\ w.pt[Trapframe] = 1
  BY <1>3 DEF Kept, Leaves, Mapped
<1>7. F \in Owners /\ PGSIZE \in Nat /\ NumPages(PGSIZE) = 1 /\ 0 * PGSIZE = 0 /\ 0 \div PGSIZE = 0
  <2>1. F \in Owners /\ PGSIZE \in Nat /\ 1 * PGSIZE = PGSIZE /\ 0 * PGSIZE = 0
    BY MemoryAssumption
  <2>2. NumPages(1 * PGSIZE) = 1 /\ (0 * PGSIZE) \div PGSIZE = 0
    BY WholePages, PageNumber
  <2> QED
    BY <2>1, <2>2
<1>8. \A p \in Owners : call[p] = NoCall(p) /\ call[p].at = 0 /\ Done(p) = 0 /\ call[p].new = Nothing /\ call[p].argv = <<>> /\ call[p].newsz = 0
  BY <1>1, <1>7 DEF NoCall, Done
<1>9. MemType
  <2>1. mem \in [Pages -> Contents]
    BY <1>1, <1>4 DEF Contents
  <2>2. tf \in [Owners -> Nat] /\ size \in [Owners -> Nat] /\ cur \in [Owners -> Tables]
    BY <1>1, <1>4, <1>7, NothingIs DEF NoPage
  <2>3. mpc \in [Owners -> Living \union {"unused", "embryo"}]
    BY <1>1 DEF Living
  <2>4. \A p \in Owners : NoCall(p) \in Locals
    BY NothingIs DEF NoCall, Locals
  <2>5. call \in [Owners -> Locals]
    BY <1>1, <2>4
  <2>6. expect \in [Owners -> Seq(Contents)]
    <3>1. "text" \in Contents
      BY DEF Contents
    <3>2. <<"text">> \in Seq(Contents) /\ <<>> \in Seq(Contents)
      BY <3>1
    <3> QED
      BY <1>1, <3>2
  <2> QED
    BY <1>1, <1>4, <2>1, <2>2, <2>3, <2>5, <2>6 DEF MemType
<1>10. ShareInv
  <2>1. \A p \in Owners : OneEach(p)
    BY <1>1, <1>4, <1>8, NothingIs DEF OneEach
  <2> DEFINE x == <<F, "cur">>
             y == <<F, "tf">>
  <2>2. x \in Holders /\ y \in Holders /\ x # y /\ Held[x] = Owned(w.pt) /\ Held[y] = {1}
    <3>1. cur[F] = w.pt /\ tf[F] = 1 /\ F \in Owners
      BY <1>1, <1>7
    <3>2. x \in Holders /\ y \in Holders /\ Held[x] = Owned(cur[F]) /\ Held[y] = {tf[F]} \ {NoPage}
      BY <3>1, HeldIs
    <3> QED
      BY <3>1, <3>2 DEF NoPage
  <2>3. \A z \in Holders : z # x /\ z # y => Held[z] = {}
    <3> SUFFICES ASSUME NEW z \in Holders, z # x, z # y
                 PROVE  Held[z] = {}
      OBVIOUS
    <3>1. PICK p \in Owners, kind \in {"cur", "new", "argv", "tf"} : z = <<p, kind>>
      BY DEF Holders
    <3>2. /\ Held[<<p, "cur">>] = Owned(cur[p]) /\ Held[<<p, "new">>] = Owned(call[p].new)
          /\ Held[<<p, "argv">>] = Range(call[p].argv) /\ Held[<<p, "tf">>] = {tf[p]} \ {NoPage}
      BY HeldIs
    <3>3. Range(call[p].argv) = {} /\ Owned(call[p].new) = {}
      BY <1>8, NothingIs DEF Range
    <3>4. p # F => Owned(cur[p]) = {} /\ {tf[p]} \ {NoPage} = {}
      BY <1>1, NothingIs
    <3> QED
      BY <3>1, <3>2, <3>3, <3>4
  <2> HIDE DEF x, y
  <2>4. Shares(Held, free)
    <3>1. Held[x] = Pages \ (free \union {1}) /\ Held[y] = {1} /\ 1 \in Pages \ free /\ free \subseteq Pages
      BY <1>1, <1>4, <2>2
    <3> QED
      BY <2>2, <2>3, <3>1 DEF Shares
  <2> QED
    BY <2>1, <2>4 DEF ShareInv
<1>11. Sound(F)
  <2>1. /\ cur[F] = w.pt /\ tf[F] = 1 /\ size[F] = PGSIZE /\ expect[F] = <<"text">> /\ mpc[F] = "user" /\ NumPages(size[F]) = 1
    BY <1>1, <1>7
  <2>2. \A n \in 0 .. NumPages(size[F]) - 1 : mem[cur[F][User(n)]] = expect[F][n + 1]
    <3>1. 0 \in 0 .. 1 - 1 /\ 1 \in Nat
      OBVIOUS
    <3>2. w.pt[User(0)] \in Owned(w.pt)
      BY <1>5, <3>1, UserOwned
    <3>3. mem[w.pt[User(0)]] = "text"
      BY <1>1, <1>3, <1>4, <3>2
    <3>4. \A n \in 0 .. NumPages(size[F]) - 1 : n = 0
      BY <2>1
    <3>5. expect[F][0 + 1] = "text"
      BY <2>1
    <3> QED
      BY <2>1, <3>3, <3>4, <3>5
  <2>3. OwnImage(F)
    <3>1. tf[F] # NoPage /\ Len(expect[F]) = 1
      BY <2>1 DEF NoPage
    <3> QED
      BY <1>5, <1>6, <2>1, <2>2, <3>1 DEF OwnImage
  <2>4. Loop(F)
    BY <1>7, <1>8, <2>1 DEF Loop, Busy
  <2>5. Growing(F) /\ Loading(F) /\ Forked(F)
    BY <2>1 DEF Growing, Loading, Forked
  <2> QED
    BY <2>3, <2>4, <2>5 DEF Sound
<1>12. \A p \in Owners : p # F => Sound(p)
  <2> SUFFICES ASSUME NEW p \in Owners, p # F
               PROVE  Sound(p)
    OBVIOUS
  <2>1. mpc[p] = "unused" /\ cur[p] = Nothing /\ tf[p] = NoPage /\ size[p] = 0
    BY <1>1
  <2> QED
    BY <1>8, <2>1, UnusedSound
<1>13. KidInv
  BY <1>1 DEF KidInv
<1> QED
  BY <1>9, <1>10, <1>11, <1>12, <1>13 DEF MemInv

\* Every step of every process keeps the invariant of physical memory.
LEMMA MemNextInv == MemInv /\ [MemNext]_memVars => MemInv'
<1> SUFFICES ASSUME MemInv, [MemNext]_memVars
             PROVE  MemInv'
  OBVIOUS
<1>1. CASE UNCHANGED memVars
  <2>1. /\ free' = free /\ mem' = mem /\ tf' = tf /\ cur' = cur /\ size' = size /\ mpc' = mpc /\ call' = call /\ expect' = expect
        /\ calls' = calls /\ panicked' = panicked
    BY <1>1 DEF memVars
  <2>2. MemType'
    BY <2>1 DEF MemInv, MemType
  <2>3. ShareInv'
    BY <2>1, NoneShares
  <2>4. KidInv'
    BY <2>1, KidSame
  <2>5. \A q \in Owners : Sound(q)'
    BY <2>1 DEF MemInv, Sound, OwnImage, Loop, Growing, Loading, Forked, Copying, Done
  <2> QED
    BY <2>2, <2>3, <2>4, <2>5 DEF MemInv
<1>2. ASSUME NEW p \in Owners, MemStep(p)
      PROVE  MemInv'
  <2>1. Increments \subseteq Int /\ Programs \subseteq Seq(Nat)
    BY MemoryAssumption
  <2>2. CASE \E n \in 1 .. NPAGES : UserWrite(p, n)
    BY <2>2, UserWriteInv
  <2>3. CASE \E n \in Increments : SbrkShrink(p, n) \/ SbrkGrow(p, n)
    BY <2>1, <2>3, SbrkShrinkInv, SbrkGrowInv
  <2>4. CASE GrowPage(p) \/ GrowDone(p)
    BY <2>4, GrowPageInv, GrowDoneInv
  <2>5. CASE \E c \in Owners : AllocProcMemory(p, c)
    BY <2>5, AllocProcMemoryInv
  <2>6. CASE CopyPage(p) \/ ForkDone(p) \/ Reap(p)
    BY <2>6, CopyPageInv, ForkDoneInv, ReapInv
  <2>7. CASE SysExec(p) \/ ExecArg(p) \/ ExecRefused(p)
    BY <2>7, SysExecInv, ExecArgInv, ExecRefusedInv
  <2>8. CASE \E prog \in Programs : ExecStart(p, prog)
    BY <2>1, <2>8, ExecStartInv
  <2>9. CASE ExecPage(p) \/ LoadSegment(p) \/ LoadFails(p) \/ ExecCommit(p)
    BY <2>9, ExecPageInv, LoadSegmentInv, LoadFailsInv, ExecCommitInv
  <2> QED
    BY <1>2, <2>2, <2>3, <2>4, <2>5, <2>6, <2>7, <2>8, <2>9 DEF MemStep
<1> QED
  BY <1>1, <1>2 DEF MemNext

\* Physical memory: the inductive invariant of the page pool, the page tables
\* and the loops of sbrk, fork and exec holds in every state.
THEOREM MemInvariant == MemSpec => []MemInv
BY MemInitInv, MemNextInv, PTL DEF MemSpec

\* A holding is a slot of a page table, an argument or a trapframe.
Holding(p, h) ==
    \/ \E s \in Own(cur[p]) : h = <<p, "cur", s, cur[p][s]>>
    \/ \E s \in Own(call[p].new) : h = <<p, "new", s, call[p].new[s]>>
    \/ \E i \in DOMAIN call[p].argv : h = <<p, "argv", <<"arg", i>>, call[p].argv[i]>>
    \/ tf[p] # NoPage /\ h = <<p, "tf", Root, tf[p]>>

\* What PagesAccounted counts.
LEMMA HoldingIs == \A h : h \in Holdings <=> \E p \in Owners : Holding(p, h)
<1> DEFINE Part(p) == OwnedBy(p, "cur", cur[p]) \union OwnedBy(p, "new", call[p].new)
                      \union {<<p, "argv", <<"arg", i>>, call[p].argv[i]>> : i \in DOMAIN call[p].argv}
                      \union {<<p, "tf", Root, pg>> : pg \in {tf[p]} \ {NoPage}}
<1>1. ASSUME NEW p \in Owners, NEW h PROVE h \in Part(p) <=> Holding(p, h)
  <2>1. h \in OwnedBy(p, "cur", cur[p]) <=> \E s \in Own(cur[p]) : h = <<p, "cur", s, cur[p][s]>>
    BY DEF OwnedBy, Own, Mapped
  <2>2. h \in OwnedBy(p, "new", call[p].new) <=> \E s \in Own(call[p].new) : h = <<p, "new", s, call[p].new[s]>>
    BY DEF OwnedBy, Own, Mapped
  <2>3. h \in {<<p, "argv", <<"arg", i>>, call[p].argv[i]>> : i \in DOMAIN call[p].argv}
        <=> \E i \in DOMAIN call[p].argv : h = <<p, "argv", <<"arg", i>>, call[p].argv[i]>>
    OBVIOUS
  <2>4. h \in {<<p, "tf", Root, pg>> : pg \in {tf[p]} \ {NoPage}} <=> tf[p] # NoPage /\ h = <<p, "tf", Root, tf[p]>>
    OBVIOUS
  <2> QED
    BY <2>1, <2>2, <2>3, <2>4 DEF Holding
<1>2. Holdings = UNION {Part(p) : p \in Owners}
  BY DEF Holdings
<1> HIDE DEF Part
<1> QED
  BY <1>1, <1>2

\* The holder of a holding has its page.
LEMMA HoldingHeld ==
    ASSUME NEW p \in Owners, NEW h, Holding(p, h)
    PROVE  h[1] = p /\ <<p, h[2]>> \in Holders /\ h[4] \in Held[<<p, h[2]>>]
<1>1. /\ <<p, "cur">> \in Holders /\ <<p, "new">> \in Holders /\ <<p, "argv">> \in Holders /\ <<p, "tf">> \in Holders
      /\ Held[<<p, "cur">>] = Owned(cur[p]) /\ Held[<<p, "new">>] = Owned(call[p].new)
      /\ Held[<<p, "argv">>] = Range(call[p].argv) /\ Held[<<p, "tf">>] = {tf[p]} \ {NoPage}
  BY HeldIs
<1>2. CASE \E s \in Own(cur[p]) : h = <<p, "cur", s, cur[p][s]>>
  <2>1. PICK s \in Own(cur[p]) : h = <<p, "cur", s, cur[p][s]>>
    BY <1>2
  <2>2. h[1] = p /\ h[2] = "cur" /\ h[4] = cur[p][s]
    BY <2>1
  <2> QED
    BY <1>1, <2>2 DEF Owned
<1>3. CASE \E s \in Own(call[p].new) : h = <<p, "new", s, call[p].new[s]>>
  <2>1. PICK s \in Own(call[p].new) : h = <<p, "new", s, call[p].new[s]>>
    BY <1>3
  <2>2. h[1] = p /\ h[2] = "new" /\ h[4] = call[p].new[s]
    BY <2>1
  <2> QED
    BY <1>1, <2>2 DEF Owned
<1>4. CASE \E i \in DOMAIN call[p].argv : h = <<p, "argv", <<"arg", i>>, call[p].argv[i]>>
  <2>1. PICK i \in DOMAIN call[p].argv : h = <<p, "argv", <<"arg", i>>, call[p].argv[i]>>
    BY <1>4
  <2>2. h[1] = p /\ h[2] = "argv" /\ h[4] = call[p].argv[i]
    BY <2>1
  <2> QED
    BY <1>1, <2>2 DEF Range
<1>5. CASE tf[p] # NoPage /\ h = <<p, "tf", Root, tf[p]>>
  BY <1>1, <1>5
<1> QED
  BY <1>2, <1>3, <1>4, <1>5 DEF Holding

\* A holder has a page in one place only.
LEMMA HoldingOnce ==
    ASSUME NEW p \in Owners, OneEach(p), NEW h, NEW g, Holding(p, h), Holding(p, g), h[2] = g[2], h[4] = g[4]
    PROVE  h = g
<1> DEFINE At(a, k, s, x) == a = <<p, k, s, x>> /\ a[2] = k /\ a[4] = x
           Place(a) == \/ \E s \in Own(cur[p]) : At(a, "cur", s, cur[p][s])
                       \/ \E s \in Own(call[p].new) : At(a, "new", s, call[p].new[s])
                       \/ \E i \in DOMAIN call[p].argv : At(a, "argv", <<"arg", i>>, call[p].argv[i])
                       \/ At(a, "tf", Root, tf[p])
<1>1. Place(h) /\ Place(g)
  BY DEF Holding
<1>2. /\ \A s, t \in Own(cur[p]) : cur[p][s] = cur[p][t] => s = t
      /\ \A s, t \in Own(call[p].new) : call[p].new[s] = call[p].new[t] => s = t
      /\ \A i, j \in DOMAIN call[p].argv : call[p].argv[i] = call[p].argv[j] => i = j
  BY DEF OneEach, Distinct
<1>3. CASE h[2] = "cur"
  <2>1. PICK s \in Own(cur[p]) : h = <<p, "cur", s, cur[p][s]>> /\ h[4] = cur[p][s]
    BY <1>1, <1>3
  <2>2. PICK t \in Own(cur[p]) : g = <<p, "cur", t, cur[p][t]>> /\ g[4] = cur[p][t]
    BY <1>1, <1>3
  <2> QED
    BY <1>2, <2>1, <2>2
<1>4. CASE h[2] = "new"
  <2>1. PICK s \in Own(call[p].new) : h = <<p, "new", s, call[p].new[s]>> /\ h[4] = call[p].new[s]
    BY <1>1, <1>4
  <2>2. PICK t \in Own(call[p].new) : g = <<p, "new", t, call[p].new[t]>> /\ g[4] = call[p].new[t]
    BY <1>1, <1>4
  <2> QED
    BY <1>2, <2>1, <2>2
<1>5. CASE h[2] = "argv"
  <2>1. PICK i \in DOMAIN call[p].argv : h = <<p, "argv", <<"arg", i>>, call[p].argv[i]>> /\ h[4] = call[p].argv[i]
    BY <1>1, <1>5
  <2>2. PICK j \in DOMAIN call[p].argv : g = <<p, "argv", <<"arg", j>>, call[p].argv[j]>> /\ g[4] = call[p].argv[j]
    BY <1>1, <1>5
  <2> QED
    BY <1>2, <2>1, <2>2
<1>6. CASE h[2] = "tf"
  BY <1>1, <1>6
<1> QED
  BY <1>1, <1>3, <1>4, <1>5, <1>6

\* What a holder has is a holding.
LEMMA HeldHolding ==
    ASSUME NEW x \in Holders, NEW pg \in Held[x]
    PROVE  \E h \in Holdings : h[4] = pg
<1>1. PICK p \in Owners, kind \in {"cur", "new", "argv", "tf"} : x = <<p, kind>>
  BY DEF Holders
<1>2. /\ Held[<<p, "cur">>] = Owned(cur[p]) /\ Held[<<p, "new">>] = Owned(call[p].new)
      /\ Held[<<p, "argv">>] = Range(call[p].argv) /\ Held[<<p, "tf">>] = {tf[p]} \ {NoPage}
  BY HeldIs
<1>3. \E h : Holding(p, h) /\ h[4] = pg
  <2>1. CASE kind = "cur"
    <3>1. PICK s \in Own(cur[p]) : pg = cur[p][s]
      BY <1>1, <1>2, <2>1 DEF Owned
    <3>2. Holding(p, <<p, "cur", s, cur[p][s]>>)
      BY DEF Holding
    <3> QED
      BY <3>1, <3>2
  <2>2. CASE kind = "new"
    <3>1. PICK s \in Own(call[p].new) : pg = call[p].new[s]
      BY <1>1, <1>2, <2>2 DEF Owned
    <3>2. Holding(p, <<p, "new", s, call[p].new[s]>>)
      BY DEF Holding
    <3> QED
      BY <3>1, <3>2
  <2>3. CASE kind = "argv"
    <3>1. PICK i \in DOMAIN call[p].argv : pg = call[p].argv[i]
      BY <1>1, <1>2, <2>3 DEF Range
    <3>2. Holding(p, <<p, "argv", <<"arg", i>>, call[p].argv[i]>>)
      BY DEF Holding
    <3> QED
      BY <3>1, <3>2
  <2>4. CASE kind = "tf"
    <3>1. tf[p] # NoPage /\ pg = tf[p]
      BY <1>1, <1>2, <2>4
    <3>2. Holding(p, <<p, "tf", Root, tf[p]>>)
      BY <3>1 DEF Holding
    <3> QED
      BY <3>1, <3>2
  <2> QED
    BY <2>1, <2>2, <2>3, <2>4
<1> QED
  BY <1>3, HoldingIs

\* Every page that is not free is in one holding.
LEMMA PagesCounted == MemInv => PagesAccounted
<1> SUFFICES ASSUME MemInv
             PROVE  PagesAccounted
  OBVIOUS
<1> DEFINE U == Pages \ free
<1>1. Shares(Held, free) /\ \A p \in Owners : OneEach(p)
  BY DEF MemInv, ShareInv
<1>2. free \subseteq Pages /\ (\A x \in Holders : Held[x] \subseteq U)
      /\ (\A x, y \in Holders : x # y => Held[x] \intersect Held[y] = {}) /\ \A pg \in U : \E x \in Holders : pg \in Held[x]
  BY <1>1 DEF Shares
<1>3. IsFiniteSet(Pages) /\ Cardinality(Pages) = NPAGES /\ IsFiniteSet(free) /\ IsFiniteSet(U)
      /\ Cardinality(free) \in Nat /\ Cardinality(U) \in Nat
  <2>1. IsFiniteSet(Pages) /\ Cardinality(Pages) = NPAGES
    BY MemoryAssumption, FS_Interval DEF Pages
  <2> QED
    BY <1>2, <2>1, PoolFinite
<1> HIDE DEF U
<1>4. \A h \in Holdings : \E p \in Owners : Holding(p, h) /\ h[1] = p /\ <<p, h[2]>> \in Holders /\ h[4] \in Held[<<p, h[2]>>]
  BY HoldingIs, HoldingHeld
<1>5. \A h \in Holdings : h[4] \in U
  BY <1>2, <1>4
<1>6. \A pg \in U : \E h \in Holdings : h[4] = pg
  BY <1>2, HeldHolding
<1>7. \A h, g \in Holdings : h[4] = g[4] => h = g
  <2> SUFFICES ASSUME NEW h \in Holdings, NEW g \in Holdings, h[4] = g[4]
               PROVE  h = g
    OBVIOUS
  <2>1. PICK p \in Owners : Holding(p, h) /\ <<p, h[2]>> \in Holders /\ h[4] \in Held[<<p, h[2]>>]
    BY <1>4
  <2>2. PICK q \in Owners : Holding(q, g) /\ <<q, g[2]>> \in Holders /\ g[4] \in Held[<<q, g[2]>>]
    BY <1>4
  <2>3. <<p, h[2]>> = <<q, g[2]>>
    BY <1>2, <2>1, <2>2
  <2>4. p = q /\ h[2] = g[2]
    BY <2>3
  <2> QED
    BY <1>1, <2>1, <2>2, <2>4, HoldingOnce
<1>8. ExistsBijection(U, Holdings)
  <2> DEFINE f == [pg \in U |-> CHOOSE h \in Holdings : h[4] = pg]
  <2>1. \A pg \in U : f[pg] \in Holdings /\ f[pg][4] = pg
    BY <1>6
  <2>2. f \in [U -> Holdings]
    BY <2>1
  <2> HIDE DEF f
  <2>3. \A b, d \in U : f[b] = f[d] => b = d
    BY <2>1
  <2>4. \A h \in Holdings : \E pg \in U : f[pg] = h
    BY <1>5, <1>7, <2>1
  <2>5. f \in Bijection(U, Holdings)
    BY <2>2, <2>3, <2>4 DEF Bijection, Injection, Surjection, IsInjective
  <2> QED
    BY <2>5 DEF ExistsBijection
<1>9. Cardinality(Holdings) = Cardinality(U)
  BY <1>3, <1>8, FS_Bijection
<1>10. Cardinality(U) + Cardinality(free) = NPAGES
  <2>1. U \union free = Pages /\ U \intersect free = {}
    BY <1>2 DEF U
  <2>2. Cardinality(U \union free) = Cardinality(U) + Cardinality(free) - Cardinality(U \intersect free) /\ Cardinality(U \intersect free) = 0
    BY <1>3, <2>1, FS_Union, FS_EmptySet
  <2> QED
    BY <1>3, <2>1, <2>2
<1>11. {h[4] : h \in Holdings} = U
  BY <1>5, <1>6
<1> QED
  BY <1>9, <1>10, <1>11 DEF PagesAccounted, U

\* Every page of memory is free or is held in exactly one place - a page table,
\* a trapframe, an argument of exec - whatever the number of processes and of
\* pages, and wherever a loop of sbrk, fork or exec ran out of them.
THEOREM PagesAccountedAlways == MemSpec => []PagesAccounted
BY MemInvariant, PagesCounted, PTL

\* A process between two calls has the image its size promises.
LEMMA ImagesIntact == MemInv => ImageIntact
<1> SUFFICES ASSUME MemInv
             PROVE  ImageIntact
  OBVIOUS
<1>1. ~panicked
  BY DEF MemInv, MemType
<1>2. ASSUME NEW p \in Owners, mpc[p] = "user"
      PROVE  /\ {s \in DOMAIN cur[p] : s[1] = "user"} = UserSlots(0, NumPages(size[p]))
             /\ cur[p][Trapframe] = tf[p]
             /\ \A n \in 1 .. Len(expect[p]) : mem[cur[p][User(n - 1)]] = expect[p][n]
  <2> DEFINE k == NumPages(size[p])
  <2>1. UserImage(p) /\ k \in Nat
    BY <1>2, ImageOf, TypesOf DEF Living
  <2>2. Leaves(cur[p]) = UserSlots(0, k) \union Mapped /\ Len(expect[p]) = k /\ cur[p][Trapframe] = tf[p]
        /\ \A n \in 0 .. k - 1 : mem[cur[p][User(n)]] = expect[p][n + 1]
    BY <2>1 DEF UserImage, Shape
  <2> HIDE DEF k
  <2>3. {s \in DOMAIN cur[p] : s[1] = "user"} = UserSlots(0, k)
    <3>1. \A s \in UserSlots(0, k) : s[1] = "user"
      BY <2>1, UserSlotsIs
    <3>2. \A s \in Mapped : s[1] # "user"
      BY SlotNames DEF Mapped
    <3> QED
      BY <2>2, <3>1, <3>2 DEF Leaves
  <2>4. \A n \in 1 .. Len(expect[p]) : mem[cur[p][User(n - 1)]] = expect[p][n]
    <3> SUFFICES ASSUME NEW n \in 1 .. Len(expect[p])
                 PROVE  mem[cur[p][User(n - 1)]] = expect[p][n]
      OBVIOUS
    <3> DEFINE m == n - 1
    <3>1. m \in 0 .. k - 1 /\ m + 1 = n
      BY <2>1, <2>2
    <3> HIDE DEF m
    <3>2. mem[cur[p][User(m)]] = expect[p][m + 1]
      BY <2>2, <3>1
    <3> QED
      BY <3>1, <3>2 DEF m
  <2> QED
    BY <2>2, <2>3, <2>4 DEF k
<1>3. ASSUME NEW p \in Owners, mpc[p] = "unused"
      PROVE  cur[p] = Nothing /\ tf[p] = NoPage /\ size[p] = 0
  BY <1>3 DEF MemInv, Sound, OwnImage
<1> QED
  BY <1>1, <1>2, <1>3 DEF ImageIntact

\* No panic of vm.c is reached, and a process finds in its memory what it wrote
\* or was given there, whichever calls of its own or of others failed half way.
THEOREM ImageIntactAlways == MemSpec => []ImageIntact
BY MemInvariant, ImagesIntact, PTL
=============================================================================
