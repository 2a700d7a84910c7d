------------------------------- MODULE FsLog -------------------------------
(* The write-ahead log of the file system (kernel/log.c): begin_op, the      *)
(* writes of a system call, end_op, the commit by the last one to finish,    *)
(* and the recovery after a crash.  The buffer cache below is what bio.c     *)
(* promises: at most one copy of a block in memory, used by one process at a *)
(* time, that may be dropped when it is neither in use nor pinned.           *)
EXTENDS Naturals, Sequences, FiniteSets

CONSTANTS Procs, Blocks, Values,
          LOGSIZE,      \* param.h: data blocks in the log
          MAXOPBLOCKS,  \* param.h: blocks a call may write
          LogBlocks,    \* sb->nlog, the blocks of the log with its header
          OpWrites,     \* bound: log_writes of one call in the model
          NoBuf         \* the block is not in the cache

ASSUME LogAssumption ==
    /\ LOGSIZE \in Nat /\ MAXOPBLOCKS \in Nat \ {0} /\ OpWrites \in 0..MAXOPBLOCKS
    /\ LogBlocks \in Nat /\ LogBlocks > LOGSIZE
    /\ Values # {} /\ NoBuf \notin Values \union Blocks

VARIABLES
    home,         \* disk: the blocks at their home location
    dlog, dhead,  \* disk: the data blocks of the log, the block numbers in its header
    cache, pins,  \* memory: the cached copy of a block, how often it is pinned
    lh,           \* log.lh: the blocks of the open transaction
    outstanding, committing,
    pc,           \* where each process is
    held,         \* the block whose buffer a process holds, or NoBuf
    writes,       \* log_writes of the running call
    tail,         \* the loop variable of write_log and install_trans
    boot,         \* recover_from_log: "head", "install", then "up"
    panicked

diskVars == <<home, dlog, dhead>>
cacheVars == <<cache, pins>>
logVars == <<lh, outstanding, committing, tail>>
procVars == <<pc, held, writes>>
fsLogVars == <<diskVars, cacheVars, logVars, procVars, boot, panicked>>

LogSlots == 1..LOGSIZE

\* A block of the log that no header counts is dead until write_log writes it
\* again; the model resets it, so that states that differ in it are the same.
DeadLog == [i \in LogSlots |-> CHOOSE v \in Values : TRUE]

LogInit ==
    /\ home \in [Blocks -> Values]
    /\ dlog = DeadLog
    /\ dhead = <<>>
    /\ cache = [b \in Blocks |-> NoBuf]
    /\ pins = [b \in Blocks |-> 0]
    /\ lh = <<>> /\ outstanding = 0 /\ committing = FALSE /\ tail = 1
    /\ pc = [p \in Procs |-> "user"]
    /\ held = [p \in Procs |-> NoBuf]
    /\ writes = [p \in Procs |-> 0]
    /\ boot = "head"
    /\ panicked = FALSE

-----------------------------------------------------------------------------
(* The buffer cache as log.c uses it.                                        *)

\* bread: the cached copy, or the one on the disk.
Contents(b) == IF cache[b] = NoBuf THEN home[b] ELSE cache[b]

\* A buffer that nobody uses and nobody pinned may be recycled.
Recycle(b) ==
    /\ cache[b] # NoBuf /\ pins[b] = 0
    /\ \A p \in Procs : held[p] # b
    /\ cache' = [cache EXCEPT ![b] = NoBuf]
    /\ UNCHANGED <<diskVars, pins, logVars, procVars, boot, panicked>>

-----------------------------------------------------------------------------
(* System calls.                                                             *)

WakeLog_Missing(f) == f

\* wakeup(&log)
WakeLog(f) == [p \in Procs |-> IF f[p] = "asleep" THEN "woken" ELSE f[p]]

\* begin_op must wait: a commit runs, or the log could become too small.
NoRoom_Unreserved == Len(lh) + MAXOPBLOCKS > LOGSIZE
NoRoom == Len(lh) + (outstanding + 1) * MAXOPBLOCKS > LOGSIZE

BeginOp(p) ==
    /\ boot = "up" /\ pc[p] \in {"user", "woken"}
    /\ IF committing \/ NoRoom
       THEN pc' = [pc EXCEPT ![p] = "asleep"] /\ UNCHANGED <<outstanding, writes>>
       ELSE /\ pc' = [pc EXCEPT ![p] = "op"]
            /\ outstanding' = outstanding + 1
            /\ writes' = [writes EXCEPT ![p] = 0]
    /\ UNCHANGED <<diskVars, cacheVars, lh, committing, tail, held, boot, panicked>>

\* The call reads a block and changes it, its buffer locked.
Modify(p, b, v) ==
    /\ pc[p] = "op" /\ writes[p] < OpWrites
    /\ \A q \in Procs : held[q] # b
    /\ cache' = [cache EXCEPT ![b] = v]
    /\ held' = [held EXCEPT ![p] = b]
    /\ pc' = [pc EXCEPT ![p] = "modified"]
    /\ UNCHANGED <<diskVars, pins, logVars, writes, boot, panicked>>

Logged(b) == \E i \in DOMAIN lh : lh[i] = b

\* The block numbers and pins after b was logged: a block that is already in
\* the transaction is absorbed.
Absorb_NoPin(b) == IF Logged(b) THEN [lh |-> lh, pins |-> pins] ELSE [lh |-> Append(lh, b), pins |-> pins]
Absorb(b) ==
    IF Logged(b) THEN [lh |-> lh, pins |-> pins]
                 ELSE [lh |-> Append(lh, b), pins |-> [pins EXCEPT ![b] = @ + 1]]

\* log_write and brelse
LogWrite(p) ==
    /\ pc[p] = "modified" /\ ~panicked
    /\ IF Len(lh) >= LOGSIZE \/ Len(lh) >= LogBlocks - 1 \/ outstanding < 1
       THEN panicked' = TRUE /\ UNCHANGED <<lh, pins, pc, held, writes>>
       ELSE /\ lh' = Absorb(held[p]).lh
            /\ pins' = Absorb(held[p]).pins
            /\ pc' = [pc EXCEPT ![p] = "op"]
            /\ held' = [held EXCEPT ![p] = NoBuf]
            /\ writes' = [writes EXCEPT ![p] = @ + 1]
            /\ UNCHANGED panicked
    /\ UNCHANGED <<diskVars, cache, outstanding, committing, tail, boot>>

\* end_op: the last call to finish commits for all of them.
EndOp(p) ==
    /\ pc[p] = "op" /\ ~panicked
    /\ outstanding' = outstanding - 1
    /\ IF committing
       THEN panicked' = TRUE /\ UNCHANGED <<pc, committing>>
       ELSE /\ UNCHANGED panicked
            /\ IF outstanding = 1
               THEN committing' = TRUE /\ pc' = [pc EXCEPT ![p] = "commit"]
               ELSE /\ pc' = WakeLog([pc EXCEPT ![p] = "user"])
                    /\ UNCHANGED committing
    /\ UNCHANGED <<diskVars, cacheVars, lh, tail, held, writes, boot>>

-----------------------------------------------------------------------------
(* commit, run by the process whose end_op was the last.                     *)

\* An empty transaction skips everything.
CommitStart(p) ==
    /\ pc[p] = "commit"
    /\ pc' = [pc EXCEPT ![p] = IF lh = <<>> THEN "finish" ELSE "write_log"]
    /\ tail' = 1
    /\ UNCHANGED <<diskVars, cacheVars, lh, outstanding, committing, held, writes, boot, panicked>>

\* write_log: one block from the cache to the log.
WriteLog(p) ==
    /\ pc[p] = "write_log"
    /\ IF tail <= Len(lh)
       THEN /\ dlog' = [dlog EXCEPT ![tail] = Contents(lh[tail])]
            /\ cache' = [cache EXCEPT ![lh[tail]] = Contents(lh[tail])]
            /\ tail' = tail + 1 /\ UNCHANGED pc
       ELSE pc' = [pc EXCEPT ![p] = "write_head"] /\ UNCHANGED <<dlog, cache, tail>>
    /\ UNCHANGED <<home, dhead, pins, lh, outstanding, committing, held, writes, boot, panicked>>

\* write_head: one block with the whole header, the point of the commit.
WriteHead(p) ==
    /\ pc[p] = "write_head"
    /\ dhead' = lh
    /\ tail' = 1
    /\ pc' = [pc EXCEPT ![p] = "install"]
    /\ UNCHANGED <<home, dlog, cacheVars, lh, outstanding, committing, held, writes, boot, panicked>>

\* One round of install_trans: the block of the log becomes the cached and the
\* home copy; a commit also drops the pin of log_write.
InstallOne(unpin) ==
    LET b == lh[tail] IN
    /\ tail <= Len(lh)
    /\ cache' = [cache EXCEPT ![b] = dlog[tail]]
    /\ home' = [home EXCEPT ![b] = dlog[tail]]
    /\ pins' = [pins EXCEPT ![b] = IF unpin THEN @ - 1 ELSE @]
    /\ tail' = tail + 1

InstallTrans(p) ==
    /\ pc[p] = "install"
    /\ \/ InstallOne(TRUE) /\ UNCHANGED pc
       \/ /\ tail > Len(lh)
          /\ pc' = [pc EXCEPT ![p] = "clear"]
          /\ UNCHANGED <<cache, home, pins, tail>>
    /\ UNCHANGED <<dlog, dhead, lh, outstanding, committing, held, writes, boot, panicked>>

\* log.lh.n = 0; write_head(): the transaction is erased from the log.
ClearLog(p) ==
    /\ pc[p] = "clear"
    /\ lh' = <<>>
    /\ dhead' = <<>> /\ dlog' = DeadLog
    /\ pc' = [pc EXCEPT ![p] = "finish"]
    /\ UNCHANGED <<home, cacheVars, outstanding, committing, tail, held, writes, boot, panicked>>

\* The end of end_op: waiting calls may go on.
FinishCommit(p) ==
    /\ pc[p] = "finish"
    /\ committing' = FALSE
    /\ pc' = WakeLog([pc EXCEPT ![p] = "user"])
    /\ UNCHANGED <<diskVars, cacheVars, lh, outstanding, tail, held, writes, boot, panicked>>

-----------------------------------------------------------------------------
(* Crash and recovery.                                                       *)

\* The machine stops; the disk stays as it is.
PowerOff ==
    /\ boot' = "head"
    /\ cache' = [b \in Blocks |-> NoBuf]
    /\ pins' = [b \in Blocks |-> 0]
    /\ lh' = <<>> /\ outstanding' = 0 /\ committing' = FALSE /\ tail' = 1
    /\ pc' = [p \in Procs |-> "user"]
    /\ held' = [p \in Procs |-> NoBuf]
    /\ writes' = [p \in Procs |-> 0]
    /\ UNCHANGED <<diskVars, panicked>>

\* initlog and read_head
ReadHead ==
    /\ boot = "head"
    /\ lh' = dhead
    /\ tail' = 1
    /\ boot' = "install"
    /\ UNCHANGED <<diskVars, cacheVars, outstanding, committing, procVars, panicked>>

Recover_ClearsFirst ==
    /\ boot = "install"
    /\ \/ InstallOne(FALSE) /\ dhead' = <<>> /\ UNCHANGED <<lh, dlog, boot>>
       \/ /\ tail > Len(lh)
          /\ lh' = <<>> /\ dhead' = <<>> /\ dlog' = DeadLog /\ boot' = "up"
          /\ UNCHANGED <<cache, home, pins, tail>>
    /\ UNCHANGED <<outstanding, committing, procVars, panicked>>

\* install_trans(1), then the log is cleared and the file system is up.
Recover ==
    /\ boot = "install"
    /\ \/ InstallOne(FALSE) /\ UNCHANGED <<lh, dhead, dlog, boot>>
       \/ /\ tail > Len(lh)
          /\ lh' = <<>> /\ dhead' = <<>> /\ dlog' = DeadLog /\ boot' = "up"
          /\ UNCHANGED <<cache, home, pins, tail>>
    /\ UNCHANGED <<outstanding, committing, procVars, panicked>>

-----------------------------------------------------------------------------
CommitStep(p) ==
    CommitStart(p) \/ WriteLog(p) \/ WriteHead(p) \/ InstallTrans(p) \/ ClearLog(p) \/ FinishCommit(p)

LogNext ==
    \/ \E p \in Procs : BeginOp(p) \/ LogWrite(p) \/ EndOp(p) \/ CommitStep(p)
    \/ \E p \in Procs, b \in Blocks, v \in Values : Modify(p, b, v)
    \/ \E b \in Blocks : Recycle(b)
    \/ PowerOff \/ ReadHead \/ Recover

LogSpec == LogInit /\ [][LogNext]_fsLogVars
-----------------------------------------------------------------------------
(* Properties.                                                               *)

\* The space that begin_op reserves is enough for every mix of calls: neither
\* "too big a transaction" nor any other panic of log.c is reached.
NoPanic == ~panicked

\* The blocks of the transaction that install_trans has already written.
Installed(i) == \E p \in Procs : \/ pc[p] = "install" /\ i < tail
                                \/ pc[p] \in {"clear", "finish"}

\* While the file system is up, a block is pinned exactly once from its first
\* log_write to its installation, and nothing stays pinned afterwards: the
\* cache can neither lose a logged block nor fill up with forgotten ones.
PinnedUntilInstalled ==
    boot = "up" =>
        \A b \in Blocks : pins[b] = Cardinality({i \in DOMAIN lh : lh[i] = b /\ ~Installed(i)})
                         /\ pins[b] <= 1

\* No call sleeps in begin_op when it could go on: each change that makes room
\* (an end_op that gives back its reservation, the end of a commit) wakes it.
NoNeedlessSleep == (\E p \in Procs : pc[p] = "asleep") => committing \/ NoRoom

\* What a crash would leave after recovery: the home blocks, overwritten by the
\* committed transaction in the log.
Survives ==
    [b \in Blocks |->
        IF \E i \in DOMAIN dhead : dhead[i] = b
        THEN dlog[CHOOSE i \in DOMAIN dhead : dhead[i] = b] ELSE home[b]]

\* What a call reads.
Visible == [b \in Blocks |-> IF cache[b] = NoBuf THEN Survives[b] ELSE cache[b]]

\* log.c implements the atomic store: a commit makes whole calls stable, and a
\* crash at any point, recovery included, falls back to the last commit.
Store == INSTANCE AtomicStore WITH
    stable <- Survives, current <- Visible,
    active <- {p \in Procs : pc[p] \in {"op", "modified"}}
ImplementsStore == Store!StoreSpec
=============================================================================
