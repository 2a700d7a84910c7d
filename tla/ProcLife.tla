------------------------------ MODULE ProcLife ------------------------------
(* The life of processes (kernel/proc.c): fork, exit, wait, kill, sleep,     *)
(* wakeup and the schedulers of several CPUs.  Every acquire and release of  *)
(* p->lock and wait_lock that another CPU can observe is a step boundary; a  *)
(* lock taken and released without a change in between is one step.          *)
EXTENDS Naturals, FiniteSets

CONSTANTS Slots,   \* the entries of the process table
          Init1,   \* initproc, which waits for ever (user/init.c)
          Shell,   \* the first child of init, which never exits
          CPUs,
          Nobody

ASSUME ProcAssumption ==
    /\ {Init1, Shell} \subseteq Slots /\ Init1 # Shell
    /\ Nobody \notin Slots /\ IsFiniteSet(Slots)

VARIABLES
    pstate, parent, killedFlag,  \* p->state, p->parent, p->killed
    chan,       \* p->chan
    plk,        \* who holds p->lock: a process, itself also while it switches
    waitLock,   \* who holds wait_lock
    cpu,        \* the process each CPU runs
    kpc,        \* where a process is in the kernel, or "user"
    child,      \* fork: the new process
    wakes,      \* wakeup: the channels still to be woken
    scan        \* wakeup: the processes still to be looked at

tableVars == <<pstate, parent, killedFlag, chan>>
lifeVars == <<tableVars, plk, waitLock, cpu, kpc, child, wakes, scan>>

\* init sleeps in wait() and the shell runs.
ProcInit ==
    /\ pstate = [p \in Slots |-> CASE p = Init1 -> "SLEEPING" [] p = Shell -> "RUNNABLE" [] OTHER -> "UNUSED"]
    /\ parent = [p \in Slots |-> IF p = Shell THEN Init1 ELSE Nobody]
    /\ killedFlag = [p \in Slots |-> FALSE]
    /\ chan = [p \in Slots |-> IF p = Init1 THEN Init1 ELSE Nobody]
    /\ plk = [p \in Slots |-> Nobody]
    /\ waitLock = Nobody
    /\ cpu = [c \in CPUs |-> Nobody]
    /\ kpc = [p \in Slots |-> IF p = Init1 THEN "slept" ELSE "forkret"]
    /\ child = [p \in Slots |-> Nobody]
    /\ wakes = [p \in Slots |-> {}]
    /\ scan = [p \in Slots |-> {}]

KGoto(p, where) == kpc' = [kpc EXCEPT ![p] = where]
Running(p) == \E c \in CPUs : cpu[c] = p
KAt(p, where) == Running(p) /\ kpc[p] = where

-----------------------------------------------------------------------------
(* Scheduling.                                                               *)

\* scheduler: the lock of the chosen process stays held while it starts to run.
Schedule_Unlocked(c, p) ==
    /\ cpu[c] = Nobody /\ pstate[p] = "RUNNABLE"
    /\ cpu' = [cpu EXCEPT ![c] = p]
    /\ pstate' = [pstate EXCEPT ![p] = "RUNNING"]
    /\ plk' = [plk EXCEPT ![p] = p]
    /\ UNCHANGED <<parent, killedFlag, chan, waitLock, kpc, child, wakes, scan>>

Schedule(c, p) ==
    /\ cpu[c] = Nobody /\ plk[p] = Nobody /\ pstate[p] = "RUNNABLE"
    /\ cpu' = [cpu EXCEPT ![c] = p]
    /\ pstate' = [pstate EXCEPT ![p] = "RUNNING"]
    /\ plk' = [plk EXCEPT ![p] = p]
    /\ UNCHANGED <<parent, killedFlag, chan, waitLock, kpc, child, wakes, scan>>

\* sched: the CPU goes back to its scheduler, which releases the lock.
Sched(c) ==
    LET p == cpu[c] IN
    /\ p # Nobody /\ kpc[p] \in {"sched", "slept", "zombie"} /\ pstate[p] # "RUNNING"
    /\ cpu' = [cpu EXCEPT ![c] = Nobody]
    /\ plk' = [plk EXCEPT ![p] = Nobody]
    /\ UNCHANGED <<tableVars, waitLock, kpc, child, wakes, scan>>

\* The first steps after a switch: forkret, the end of yield, the end of sleep.
Resume(p) ==
    /\ Running(p) /\ pstate[p] = "RUNNING" /\ plk[p] = p /\ kpc[p] \in {"forkret", "sched", "slept"}
    /\ chan' = [chan EXCEPT ![p] = IF kpc[p] = "slept" THEN Nobody ELSE @]
    /\ plk' = [plk EXCEPT ![p] = Nobody]
    /\ KGoto(p, IF kpc[p] = "slept" THEN "wait" ELSE "user")
    /\ UNCHANGED <<pstate, parent, killedFlag, waitLock, cpu, child, wakes, scan>>

\* yield, on a timer interrupt in user mode.
Yield(p) ==
    /\ KAt(p, "user") /\ ~killedFlag[p] /\ plk[p] = Nobody
    /\ plk' = [plk EXCEPT ![p] = p]
    /\ pstate' = [pstate EXCEPT ![p] = "RUNNABLE"]
    /\ KGoto(p, "sched")
    /\ UNCHANGED <<parent, killedFlag, chan, waitLock, cpu, child, wakes, scan>>

-----------------------------------------------------------------------------
(* fork                                                                      *)

\* A killed process exits before its system call is looked at (usertrap).
MaySyscall(p) == KAt(p, "user") /\ ~killedFlag[p]

\* allocproc and the copy of the parent, the lock of the child held.
AllocProc(p, np) ==
    /\ MaySyscall(p) /\ p # Init1
    /\ pstate[np] = "UNUSED" /\ plk[np] = Nobody
    /\ pstate' = [pstate EXCEPT ![np] = "USED"]
    /\ plk' = [plk EXCEPT ![np] = p]
    /\ child' = [child EXCEPT ![p] = np]
    /\ KGoto(p, "fork")
    /\ UNCHANGED <<parent, killedFlag, chan, waitLock, cpu, wakes, scan>>

\* What freeproc resets; the caller holds p->lock.
Freed(np) ==
    /\ pstate' = [pstate EXCEPT ![np] = "UNUSED"]
    /\ parent' = [parent EXCEPT ![np] = Nobody]
    /\ killedFlag' = [killedFlag EXCEPT ![np] = FALSE]
    /\ chan' = [chan EXCEPT ![np] = Nobody]

\* Memory runs out: the child is given back.
ForkFails(p) ==
    /\ KAt(p, "fork")
    /\ Freed(child[p])
    /\ plk' = [plk EXCEPT ![child[p]] = Nobody]
    /\ child' = [child EXCEPT ![p] = Nobody]
    /\ KGoto(p, "user")
    /\ UNCHANGED <<waitLock, cpu, wakes, scan>>

ForkCopied(p) ==
    /\ KAt(p, "fork")
    /\ plk' = [plk EXCEPT ![child[p]] = Nobody]
    /\ KGoto(p, "fork_parent")
    /\ UNCHANGED <<tableVars, waitLock, cpu, child, wakes, scan>>

ForkParent(p) ==
    /\ KAt(p, "fork_parent") /\ waitLock = Nobody
    /\ parent' = [parent EXCEPT ![child[p]] = p]
    /\ KGoto(p, "fork_ready")
    /\ UNCHANGED <<pstate, killedFlag, chan, plk, waitLock, cpu, child, wakes, scan>>

ForkReady(p) ==
    /\ KAt(p, "fork_ready") /\ plk[child[p]] = Nobody
    /\ pstate' = [pstate EXCEPT ![child[p]] = "RUNNABLE"]
    /\ kpc' = [kpc EXCEPT ![p] = "user", ![child[p]] = "forkret"]
    /\ child' = [child EXCEPT ![p] = Nobody]
    /\ UNCHANGED <<parent, killedFlag, chan, plk, waitLock, cpu, wakes, scan>>

-----------------------------------------------------------------------------
(* exit                                                                      *)

Children(p) == {q \in Slots : parent[q] = p}

\* reparent, under wait_lock; init is woken if it got a child.
Adopted(p) == [q \in Slots |-> IF parent[q] = p THEN Init1 ELSE parent[q]]
WakesOfExit(p) == {parent[p]} \union {Init1 : q \in Children(p)}

ExitProc(p) ==
    /\ KAt(p, "user") /\ p \notin {Init1, Shell}
    /\ waitLock = Nobody
    /\ waitLock' = p
    /\ parent' = Adopted(p)
    /\ wakes' = [wakes EXCEPT ![p] = WakesOfExit(p)]
    /\ scan' = [scan EXCEPT ![p] = Slots \ {p}]
    /\ KGoto(p, "exit")
    /\ UNCHANGED <<pstate, killedFlag, chan, plk, cpu, child>>

\* wakeup looks at one process after the other, each under its own lock.
Wakeup(p, q) ==
    /\ KAt(p, "exit") /\ q \in scan[p] /\ plk[q] = Nobody
    /\ pstate' = [pstate EXCEPT ![q] = IF @ = "SLEEPING" /\ chan[q] \in wakes[p] THEN "RUNNABLE" ELSE @]
    /\ scan' = [scan EXCEPT ![p] = @ \ {q}]
    /\ UNCHANGED <<parent, killedFlag, chan, plk, waitLock, cpu, kpc, child, wakes>>

\* ZOMBIE, then wait_lock is released and the CPU given up for good.
Zombie(p) ==
    /\ KAt(p, "exit") /\ scan[p] = {} /\ plk[p] = Nobody
    /\ plk' = [plk EXCEPT ![p] = p]
    /\ pstate' = [pstate EXCEPT ![p] = "ZOMBIE"]
    /\ waitLock' = Nobody
    /\ wakes' = [wakes EXCEPT ![p] = {}]
    /\ KGoto(p, "zombie")
    /\ UNCHANGED <<parent, killedFlag, chan, cpu, child, scan>>

-----------------------------------------------------------------------------
(* wait                                                                      *)

WaitCall(p) ==
    /\ MaySyscall(p)
    /\ KGoto(p, "wait")
    /\ UNCHANGED <<tableVars, plk, waitLock, cpu, child, wakes, scan>>

WaitScan(p) ==
    /\ KAt(p, "wait") /\ waitLock = Nobody
    /\ waitLock' = p
    /\ KGoto(p, "scan")
    /\ UNCHANGED <<tableVars, plk, cpu, child, wakes, scan>>

\* A zombie child is freed once its lock is free: it has left its CPU.
Reapable(q) == pstate[q] = "ZOMBIE" /\ plk[q] = Nobody

WaitReaps(p, q) ==
    /\ KAt(p, "scan") /\ parent[q] = p /\ Reapable(q)
    /\ Freed(q)
    /\ waitLock' = Nobody
    /\ KGoto(p, "user")
    /\ UNCHANGED <<plk, cpu, child, wakes, scan>>

\* The status cannot be copied to the caller: the child stays a zombie.
WaitBadAddress(p, q) ==
    /\ KAt(p, "scan") /\ p # Init1 /\ parent[q] = p /\ Reapable(q)
    /\ waitLock' = Nobody
    /\ KGoto(p, "user")
    /\ UNCHANGED <<tableVars, plk, cpu, child, wakes, scan>>

NoZombie(p) == \A q \in Children(p) : pstate[q] # "ZOMBIE"

WaitFails(p) ==
    /\ KAt(p, "scan") /\ NoZombie(p)
    /\ Children(p) = {} \/ killedFlag[p]
    /\ waitLock' = Nobody
    /\ KGoto(p, "user")
    /\ UNCHANGED <<tableVars, plk, cpu, child, wakes, scan>>

\* There is somebody to wait for and the caller is not killed: it goes to
\* sleep.  kill takes p->lock only, so it may still come before the sleep.
WaitStays(p) ==
    /\ KAt(p, "scan") /\ NoZombie(p) /\ Children(p) # {} /\ ~killedFlag[p]
    /\ KGoto(p, "doze")
    /\ UNCHANGED <<tableVars, plk, waitLock, cpu, child, wakes, scan>>

\* sleep: p->lock is taken before the lock of the condition is released.
SleepLock_ReleasesFirst(p) ==
    /\ KAt(p, "doze")
    /\ waitLock' = Nobody
    /\ KGoto(p, "sleep")
    /\ UNCHANGED <<tableVars, plk, cpu, child, wakes, scan>>

SleepLock(p) ==
    /\ KAt(p, "doze") /\ plk[p] = Nobody
    /\ plk' = [plk EXCEPT ![p] = p]
    /\ waitLock' = Nobody
    /\ KGoto(p, "sleep")
    /\ UNCHANGED <<tableVars, cpu, child, wakes, scan>>

Sleep(p) ==
    /\ KAt(p, "sleep") /\ plk[p] \in {p, Nobody}
    /\ plk' = [plk EXCEPT ![p] = p]
    /\ chan' = [chan EXCEPT ![p] = p]
    /\ pstate' = [pstate EXCEPT ![p] = "SLEEPING"]
    /\ KGoto(p, "slept")
    /\ UNCHANGED <<parent, killedFlag, waitLock, cpu, child, wakes, scan>>

-----------------------------------------------------------------------------
\* kill: the victim is woken if it sleeps, and exits on its way to user mode.
KillProcess(p, q) ==
    /\ MaySyscall(p) /\ q \notin {Init1, Shell}
    /\ pstate[q] # "UNUSED" /\ plk[q] = Nobody
    /\ killedFlag' = [killedFlag EXCEPT ![q] = TRUE]
    /\ pstate' = [pstate EXCEPT ![q] = IF @ = "SLEEPING" THEN "RUNNABLE" ELSE @]
    /\ UNCHANGED <<parent, chan, plk, waitLock, cpu, kpc, child, wakes, scan>>

-----------------------------------------------------------------------------
\* What a process does by itself once it is in the kernel.
KernelStep(p) ==
    \/ Resume(p) \/ ForkFails(p) \/ ForkCopied(p) \/ ForkParent(p) \/ ForkReady(p)
    \/ Zombie(p) \/ WaitScan(p) \/ WaitFails(p) \/ WaitStays(p) \/ SleepLock(p) \/ Sleep(p)
    \/ \E q \in Slots : Wakeup(p, q) \/ WaitReaps(p, q) \/ WaitBadAddress(p, q)

UserStep(p) == Yield(p) \/ ExitProc(p) \/ WaitCall(p) \/ \E q \in Slots : AllocProc(p, q) \/ KillProcess(p, q)

ProcNext ==
    \/ \E p \in Slots : KernelStep(p) \/ UserStep(p)
    \/ \E c \in CPUs : Sched(c) \/ \E p \in Slots : Schedule(c, p)

ProcSpec == ProcInit /\ [][ProcNext]_lifeVars

-----------------------------------------------------------------------------
(* Properties.                                                               *)

\* A process runs on at most one CPU, and its entry is neither reused nor
\* rescheduled before that CPU has left its stack.
OneCpuEach ==
    /\ \A c, d \in CPUs : cpu[c] = cpu[d] /\ cpu[c] # Nobody => c = d
    /\ \A p \in Slots : pstate[p] = "RUNNING" => Running(p)
    /\ \A c \in CPUs : cpu[c] # Nobody => pstate[cpu[c]] # "UNUSED"
                                        /\ (pstate[cpu[c]] # "RUNNING" => plk[cpu[c]] = cpu[c])

\* Nobody waits in vain and no zombie is forgotten: every process that lives or
\* waits to be reaped has a parent that can still call wait, because orphans are
\* handed to init before their parent is gone; and no parent sleeps in wait
\* while a child of its own is a zombie, unless a process that is just exiting
\* is about to wake it.
ZombiesNoticed ==
    /\ \A q \in Slots \ {Init1} :
        pstate[q] \in {"RUNNABLE", "RUNNING", "SLEEPING", "ZOMBIE"} =>
            /\ parent[q] # Nobody
            /\ pstate[parent[q]] \in {"RUNNABLE", "RUNNING", "SLEEPING"}
    /\ \A p, q \in Slots :
        pstate[p] = "SLEEPING" /\ parent[q] = p /\ pstate[q] = "ZOMBIE" =>
            \E r \in Slots : KAt(r, "exit") /\ p \in wakes[r] /\ p \in scan[r]
=============================================================================
