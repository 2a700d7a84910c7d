----------------------------- MODULE Interrupts -----------------------------
(* Spin locks and interrupts (kernel/spinlock.c), timer interrupts of user   *)
(* and kernel code (kernel/trap.c), and the process that waits for ticks     *)
(* (sys_sleep): a lock that system calls and the interrupt handler share.    *)
(* The code a thread has still to run is a sequence of operations; an        *)
(* interrupt puts the operations of the handler in front of it.  A lock that *)
(* is taken and released around one change is one step; tickslock, and       *)
(* p->lock across a switch, are held over several.                           *)
EXTENDS Naturals, Sequences, FiniteSets

CONSTANTS Harts, Cpu0,   \* the CPUs, and the one that counts ticks
          ProcTable,     \* the processes, in the order of the table
          TickMod,       \* ticks counts modulo this (2^32 in the code)
          SleepTimes,    \* the n of sleep(n)
          Victims,       \* the processes that may be killed
          NoThread

Threads == {ProcTable[i] : i \in DOMAIN ProcTable}
TicksLock == "tickslock"

ASSUME InterruptAssumption ==
    /\ ProcTable \in Seq(Threads) /\ TicksLock \notin Threads
    /\ Cpu0 \in Harts /\ NoThread \notin Threads \union Harts /\ Threads \intersect Harts = {} /\ Victims \subseteq Threads
    /\ TickMod \in Nat \ {0} /\ \A n \in SleepTimes : n \in 1 .. TickMod - 1

SpinLocks == Threads \union {TicksLock}   \* a process stands for its p->lock

VARIABLES
    hart,     \* per CPU: interrupts enabled, noff, intena, the process it runs
    spin,     \* the CPU that holds a lock
    todo,     \* what the thread of a process, or the scheduler of a CPU, has to do
    tstate,   \* p->state
    tkilled,  \* p->killed
    saved,    \* the intena that sched() keeps
    ticks,
    since,    \* ticks0 and n of sys_sleep
    seen,     \* ghost: the ticks at the last look of sys_sleep
    ipanic

intrVars == <<hart, spin, todo, tstate, tkilled, saved, ticks, since, seen, ipanic>>

Op(name, arg) == <<name, arg>>
Acquire(l) == Op("acquire", l)
Release(l) == Op("release", l)

\* usertrapret keeps interrupts off up to its sret: one step to user mode.
UserTrapRet == <<Op("sret", TicksLock)>>

\* fork has made the processes runnable; they start in forkret.
IntrInit ==
    /\ hart = [c \in Harts |-> [intr |-> FALSE, noff |-> 0, intena |-> FALSE, proc |-> NoThread]]
    /\ spin = [l \in SpinLocks |-> NoThread]
    /\ todo = [t \in Threads \union Harts |-> IF t \in Threads THEN <<Release(t)>> \o UserTrapRet ELSE <<>>]
    /\ tstate = [p \in Threads |-> "RUNNABLE"]
    /\ tkilled = [p \in Threads |-> FALSE]
    /\ saved = [p \in Threads |-> FALSE]
    /\ ticks = 0
    /\ since = [p \in Threads |-> [t0 |-> 0, n |-> 0]]
    /\ seen = [p \in Threads |-> 0]
    /\ ipanic = FALSE

\* The thread on a CPU: its process, or its scheduler.
ThreadOf(c) == IF hart[c].proc = NoThread THEN c ELSE hart[c].proc
Ahead(c) == todo[ThreadOf(c)]
At(c, name) == Ahead(c) # <<>> /\ Head(Ahead(c))[1] = name /\ ~ipanic
Arg(c) == Head(Ahead(c))[2]

\* The operation at the head is replaced by others.
Becomes(c, ops) == todo' = [todo EXCEPT ![ThreadOf(c)] = ops \o Tail(@)]
Starts(c, ops) == todo' = [todo EXCEPT ![ThreadOf(c)] = ops \o @]
Done(c) == Becomes(c, <<>>)

-----------------------------------------------------------------------------
(* spinlock.c                                                                *)

PushOff(h) == [h EXCEPT !.intr = FALSE, !.noff = @ + 1, !.intena = IF h.noff = 0 THEN h.intr ELSE @]

\* intena is dead once noff is 0, until the next push_off sets it.
PopOff(h) == [h EXCEPT !.noff = @ - 1, !.intr = h.noff = 1 /\ h.intena, !.intena = h.noff > 1 /\ @]

Holding(c, l) == spin[l] = c

\* acquire: interrupts go off before the CPU starts to spin.
AcquireLock(c) ==
    LET l == Arg(c) IN
    /\ At(c, "acquire")
    /\ hart' = [hart EXCEPT ![c] = PushOff(@)]
    /\ ipanic' = Holding(c, l)
    /\ IF spin[l] = NoThread THEN spin' = [spin EXCEPT ![l] = c] /\ Done(c)
                            ELSE Becomes(c, <<Op("spin", l)>>) /\ UNCHANGED spin
    /\ UNCHANGED <<tstate, tkilled, saved, ticks, since, seen>>

SpinLock(c) ==
    /\ At(c, "spin") /\ spin[Arg(c)] = NoThread
    /\ spin' = [spin EXCEPT ![Arg(c)] = c]
    /\ Done(c)
    /\ UNCHANGED <<hart, tstate, tkilled, saved, ticks, since, seen, ipanic>>

ReleaseLock(c) ==
    /\ At(c, "release")
    /\ ipanic' = (~Holding(c, Arg(c)) \/ hart[c].intr \/ hart[c].noff < 1)
    /\ spin' = [spin EXCEPT ![Arg(c)] = NoThread]
    /\ hart' = [hart EXCEPT ![c] = PopOff(@)]
    /\ Done(c)
    /\ UNCHANGED <<tstate, tkilled, saved, ticks, since, seen>>

\* intr_on, and sret, which turns on what the trap had turned off.
IntrOn(c) ==
    /\ At(c, "intr_on") \/ At(c, "sret") \/ At(c, "iret")
    /\ hart' = [hart EXCEPT ![c].intr = TRUE]
    /\ Done(c)
    /\ UNCHANGED <<spin, tstate, tkilled, saved, ticks, since, seen, ipanic>>

-----------------------------------------------------------------------------
(* The scheduler and the switch.                                             *)

Yield(p) == <<Acquire(p), Op("sched", "RUNNABLE"), Op("resume", p), Release(p)>>

\* sleep: p->lock before the lock of the condition is released.
SleepOn_ReleasesFirst(p) ==
    <<Release(TicksLock), Acquire(p), Op("sched", "SLEEPING"), Op("resume", p), Release(p), Acquire(TicksLock)>>
SleepOn(p) ==
    <<Acquire(p), Release(TicksLock), Op("sched", "SLEEPING"), Op("resume", p), Release(p), Acquire(TicksLock)>>
ExitNow(p) == <<Acquire(p), Op("sched", "ZOMBIE")>>

\* The scheduler looks at one process after the other; intr_on comes at the
\* start of a round of the table only, which any look may be.
Scheduler(c, p) ==
    /\ hart[c].proc = NoThread /\ todo[c] = <<>> /\ ~ipanic
    /\ \E on \in {TRUE, hart[c].intr} : hart' = [hart EXCEPT ![c].intr = on]
    /\ Starts(c, <<Acquire(p), Op("pick", p), Release(p)>>)
    /\ UNCHANGED <<spin, tstate, tkilled, saved, ticks, since, seen, ipanic>>

Pick(c) ==
    LET p == Arg(c) IN
    /\ At(c, "pick")
    /\ Done(c)
    /\ \/ /\ tstate[p] = "RUNNABLE"
          /\ tstate' = [tstate EXCEPT ![p] = "RUNNING"]
          /\ hart' = [hart EXCEPT ![c].proc = p]
       \/ tstate[p] # "RUNNABLE" /\ UNCHANGED <<tstate, hart>>
    /\ UNCHANGED <<spin, tkilled, saved, ticks, since, seen, ipanic>>

\* sched: with p->lock as the only lock, back to the scheduler.
SwitchAway(c) ==
    LET p == hart[c].proc IN
    /\ At(c, "sched")
    /\ ipanic' = (~Holding(c, p) \/ hart[c].noff # 1 \/ hart[c].intr)
    /\ tstate' = [tstate EXCEPT ![p] = Arg(c)]
    /\ saved' = [saved EXCEPT ![p] = hart[c].intena]
    /\ hart' = [hart EXCEPT ![c].proc = NoThread]
    /\ Done(c)
    /\ UNCHANGED <<spin, tkilled, ticks, since, seen>>

\* intena belongs to the thread, not to the CPU.
Resume_KeepsIntena(c) ==
    /\ At(c, "resume")
    /\ Done(c)
    /\ UNCHANGED <<hart, spin, tstate, tkilled, saved, ticks, since, seen, ipanic>>

Resume(c) ==
    /\ At(c, "resume")
    /\ hart' = [hart EXCEPT ![c].intena = saved[Arg(c)]]
    /\ saved' = [saved EXCEPT ![Arg(c)] = FALSE]
    /\ Done(c)
    /\ UNCHANGED <<spin, tstate, tkilled, ticks, since, seen, ipanic>>

-----------------------------------------------------------------------------
(* Traps.                                                                    *)

\* A system call: usertrap looks whether the process is killed, then enables
\* interrupts; on the way out it looks again.
SystemCall(p, body) ==
    <<Op("killed", p), Op("intr_on", p)>> \o body \o <<Op("killed", p)>> \o UserTrapRet

InUserMode(c) == hart[c].proc # NoThread /\ Ahead(c) = <<>> /\ ~ipanic

SysSleep(c, n) ==
    LET p == hart[c].proc IN
    /\ InUserMode(c)
    /\ Starts(c, SystemCall(p, <<Acquire(TicksLock), Op("start", p), Op("loop", p)>>))
    /\ since' = [since EXCEPT ![p].n = n]
    /\ hart' = [hart EXCEPT ![c].intr = FALSE]
    /\ UNCHANGED <<spin, tstate, tkilled, saved, ticks, seen, ipanic>>

SysKill(c, q) ==
    /\ InUserMode(c) /\ q \in Victims /\ ~tkilled[q]
    /\ Starts(c, SystemCall(hart[c].proc, <<Op("kill", q)>>))
    /\ hart' = [hart EXCEPT ![c].intr = FALSE]
    /\ UNCHANGED <<spin, tstate, tkilled, saved, ticks, since, seen, ipanic>>

\* wakeup goes through the process table.
Wakeup == [i \in DOMAIN ProcTable |-> Op("wake", ProcTable[i])]

\* devintr: the first CPU counts the tick in clockintr.
ClockIntr(c) == <<Acquire(TicksLock), Op("tick", c)>> \o Wakeup \o <<Release(TicksLock)>>
DevIntr(c) == IF c = Cpu0 THEN ClockIntr(c) ELSE <<>>

\* A timer interrupt: usertrap from user mode, kerneltrap from the kernel.
Interrupt(c) ==
    /\ hart[c].intr /\ ~ipanic
    /\ hart' = [hart EXCEPT ![c].intr = FALSE]
    /\ Starts(c, DevIntr(c) \o
                 IF InUserMode(c)
                 THEN <<Op("killed", hart[c].proc)>> \o Yield(hart[c].proc) \o UserTrapRet
                 ELSE <<Op("resched", c), Op("iret", c)>>)
    /\ UNCHANGED <<spin, tstate, tkilled, saved, ticks, since, seen, ipanic>>

\* kerneltrap: the interrupted process gives up the CPU.
Resched(c) ==
    LET p == hart[c].proc IN
    /\ At(c, "resched")
    /\ IF p # NoThread THEN Becomes(c, IF tstate[p] = "RUNNING" THEN Yield(p) ELSE <<>>) ELSE Done(c)
    /\ UNCHANGED <<hart, spin, tstate, tkilled, saved, ticks, since, seen, ipanic>>

Tick(c) ==
    /\ At(c, "tick")
    /\ ticks' = (ticks + 1) % TickMod
    /\ Done(c)
    /\ UNCHANGED <<hart, spin, tstate, tkilled, saved, since, seen, ipanic>>

Woken(q) == [tstate EXCEPT ![q] = IF @ = "SLEEPING" THEN "RUNNABLE" ELSE @]

\* One round of wakeup, which passes over the process that runs here.
WakeTick(c) ==
    /\ At(c, "wake")
    /\ \/ Arg(c) = hart[c].proc /\ UNCHANGED tstate
       \/ Arg(c) # hart[c].proc /\ spin[Arg(c)] = NoThread /\ tstate' = Woken(Arg(c))
    /\ Done(c)
    /\ UNCHANGED <<hart, spin, tkilled, saved, ticks, since, seen, ipanic>>

KillOne(c) ==
    /\ At(c, "kill") /\ spin[Arg(c)] = NoThread
    /\ tkilled' = [tkilled EXCEPT ![Arg(c)] = TRUE]
    /\ tstate' = Woken(Arg(c))
    /\ Done(c)
    /\ UNCHANGED <<hart, spin, saved, ticks, since, seen, ipanic>>

\* if(killed(p)) exit(-1)
KilledExits(c) ==
    /\ At(c, "killed") /\ spin[Arg(c)] = NoThread
    /\ IF tkilled[Arg(c)] THEN todo' = [todo EXCEPT ![Arg(c)] = ExitNow(Arg(c))] ELSE Done(c)
    /\ UNCHANGED <<hart, spin, tstate, tkilled, saved, ticks, since, seen, ipanic>>

-----------------------------------------------------------------------------
(* sys_sleep, with tickslock held.                                           *)

SleepStart(c) ==
    /\ At(c, "start")
    /\ since' = [since EXCEPT ![Arg(c)].t0 = ticks]
    /\ Done(c)
    /\ UNCHANGED <<hart, spin, tstate, tkilled, saved, ticks, seen, ipanic>>

Elapsed(p) == (ticks + TickMod - since[p].t0) % TickMod

SleepLoop(c) ==
    LET p == Arg(c) IN
    /\ At(c, "loop") /\ spin[p] = NoThread
    /\ \/ /\ Elapsed(p) < since[p].n /\ ~tkilled[p]
          /\ Becomes(c, SleepOn(p) \o <<Op("loop", p)>>)
          /\ seen' = [seen EXCEPT ![p] = ticks]
          /\ UNCHANGED since
       \/ /\ Elapsed(p) >= since[p].n \/ tkilled[p]
          /\ Becomes(c, <<Release(TicksLock)>>)
          /\ seen' = [seen EXCEPT ![p] = 0]
          /\ since' = [since EXCEPT ![p] = [t0 |-> 0, n |-> 0]]
    /\ UNCHANGED <<hart, spin, tstate, tkilled, saved, ticks, ipanic>>

-----------------------------------------------------------------------------
HartStep(c) ==
    \/ AcquireLock(c) \/ SpinLock(c) \/ ReleaseLock(c) \/ IntrOn(c)
    \/ Pick(c) \/ SwitchAway(c) \/ Resume(c) \/ Resched(c)
    \/ Tick(c) \/ WakeTick(c) \/ KillOne(c) \/ KilledExits(c)
    \/ SleepStart(c) \/ SleepLoop(c)

IntrNext ==
    \E c \in Harts :
        \/ HartStep(c)
        \/ Interrupt(c)
        \/ \E p \in Threads : Scheduler(c, p) \/ SysKill(c, p)
        \/ \E n \in SleepTimes : SysSleep(c, n)

IntrSpec == IntrInit /\ [][IntrNext]_intrVars

-----------------------------------------------------------------------------
(* Properties.                                                               *)

\* The lock a CPU spins for, if any.
SpinsFor(c) == {l \in SpinLocks : At(c, "spin") /\ Arg(c) = l}
WaitsOn(c) == {spin[l] : l \in SpinsFor(c)} \ {NoThread}

\* No interrupt can make a CPU wait for a lock that it holds itself: whenever a
\* CPU holds a spin lock its interrupts are off, noff counts the locks it holds
\* and the one it spins for, also for a thread that was switched out in an interrupt handler and goes on on
\* another CPU; a handler stays uninterruptible to its end; and no two CPUs
\* spin for each other's locks.
InterruptsSafe ==
    /\ ~ipanic
    /\ \A c \in Harts :
        LET locks == {l \in SpinLocks : Holding(c, l)}
            h == hart[c]
        IN /\ h.intr => h.noff = 0 /\ locks = {}
           /\ h.noff = Cardinality(locks) + Cardinality(SpinsFor(c))
           /\ (\E i \in DOMAIN Ahead(c) : Ahead(c)[i][1] = "iret") => ~h.intr
           /\ \A d \in WaitsOn(c) : c \notin WaitsOn(d) /\ d # c

\* No tick is missed: a process that sleeps in sys_sleep has looked at the
\* present value of ticks, or the handler that counted is about to wake it.
TicksNoticed ==
    \A p \in Threads : tstate[p] = "SLEEPING" =>
        \/ seen[p] = ticks
        \/ \E c \in Harts : \E i \in DOMAIN Ahead(c) : Ahead(c)[i] = Op("wake", p)
=============================================================================
