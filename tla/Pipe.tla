-------------------------------- MODULE Pipe --------------------------------
(* Pipes (kernel/pipe.c) between processes that each have one end open.      *)
(* pi->lock is held from the first step of a call to its return or sleep;    *)
(* kill does not take it.                                                    *)
EXTENDS Naturals, Sequences, FiniteSets

CONSTANTS PipeProcs, Bytes,
          PIPESIZE,
          PipeMod,     \* nread and nwrite count modulo this (2^32 in the code)
          Requests,    \* bound: how many bytes a call may ask for
          Ends,        \* the ways in which the processes share the two ends
          MaxPipeCalls, \* bound: calls of a process before it closes its end
          NoProc

ASSUME PipeAssumption ==
    /\ PIPESIZE \in Nat \ {0} /\ Bytes # {}
    /\ PipeMod \in Nat /\ PipeMod % PIPESIZE = 0 /\ PipeMod > PIPESIZE
    /\ Requests \subseteq Nat \ {0} /\ MaxPipeCalls \in Nat
    /\ \A e \in Ends : e \in [PipeProcs -> {"r", "w"}] /\ {e[p] : p \in PipeProcs} = {"r", "w"}
    /\ NoProc \notin PipeProcs

VARIABLES
    data, nread, nwrite,   \* the ring
    readopen, writeopen,   \* pi->readopen, pi->writeopen
    freed,                 \* how often kfree(pi) was called
    plock,                 \* pi->lock
    end,                   \* the end a process has open: "r", "w" or "none"
    ppc, left,             \* where a process is, what is left of its n bytes
    pkilled, pcalls,
    taken,                 \* the byte that was read last
    silent                 \* history: a killed writer left without a wakeup

ringVars == <<data, nread, nwrite, taken>>
pipeVars == <<ringVars, readopen, writeopen, freed, plock, end, ppc, left, pkilled, pcalls, silent>>

\* The state that pipealloc and a fork leave behind: each end is open somewhere.
PipeInit ==
    /\ data \in [0..(PIPESIZE - 1) -> {CHOOSE c \in Bytes : TRUE}]
    /\ nread = 0 /\ nwrite = 0
    /\ readopen = TRUE /\ writeopen = TRUE /\ freed = 0
    /\ plock = NoProc
    /\ end \in Ends
    /\ ppc = [p \in PipeProcs |-> "user"]
    /\ left = [p \in PipeProcs |-> 0]
    /\ pkilled = [p \in PipeProcs |-> FALSE] /\ pcalls = [p \in PipeProcs |-> 0]
    /\ taken \in {CHOOSE c \in Bytes : TRUE} /\ silent = FALSE

Empty == nread = nwrite
Full_NoWrap == nwrite = nread + PIPESIZE
Full == nwrite = (nread + PIPESIZE) % PipeMod

\* wakeup(&pi->nread) and wakeup(&pi->nwrite)
WakeReaders(f) == [p \in PipeProcs |-> IF f[p] = "read_sleep" THEN "read" ELSE f[p]]
WakeWriters_One(f) ==
    IF \E p \in PipeProcs : f[p] = "write_sleep"
    THEN [f EXCEPT ![CHOOSE p \in PipeProcs : f[p] = "write_sleep"] = "write"] ELSE f
WakeWriters(f) == [p \in PipeProcs |-> IF f[p] = "write_sleep" THEN "write" ELSE f[p]]

MayRun(p) == plock \in {NoProc, p}

-----------------------------------------------------------------------------
PipeCall(p, n) ==
    /\ ppc[p] = "user" /\ end[p] # "none" /\ pcalls[p] < MaxPipeCalls /\ ~pkilled[p]
    /\ ppc' = [ppc EXCEPT ![p] = IF end[p] = "r" THEN "read" ELSE "write"]
    /\ left' = [left EXCEPT ![p] = n]
    /\ pcalls' = [pcalls EXCEPT ![p] = @ + 1]
    /\ UNCHANGED <<ringVars, readopen, writeopen, freed, plock, end, pkilled, silent>>

(* pipewrite: one round of its loop per step.                                *)

\* Everything is written, or copyin failed.
WriteDone(p) ==
    /\ ppc[p] = "write" /\ MayRun(p)
    /\ left[p] = 0 \/ (readopen /\ ~pkilled[p] /\ ~Full)
    /\ ppc' = WakeReaders([ppc EXCEPT ![p] = "user"]) /\ silent' = FALSE
    /\ plock' = NoProc
    /\ left' = [left EXCEPT ![p] = 0]
    /\ UNCHANGED <<ringVars, readopen, writeopen, freed, end, pkilled, pcalls>>

\* The reader is gone, or this process is killed: nobody is woken.
WriteFails(p) ==
    /\ ppc[p] = "write" /\ MayRun(p) /\ left[p] > 0
    /\ ~readopen \/ pkilled[p]
    /\ ppc' = [ppc EXCEPT ![p] = "user"]
    /\ plock' = NoProc
    /\ left' = [left EXCEPT ![p] = 0]
    /\ silent' = (silent \/ pkilled[p])
    /\ UNCHANGED <<ringVars, readopen, writeopen, freed, end, pkilled, pcalls>>

\* Not killed, and the ring is full: wake the readers and call sleep.
WriteWaits(p) ==
    /\ ppc[p] = "write" /\ MayRun(p) /\ left[p] > 0
    /\ readopen /\ ~pkilled[p] /\ Full
    /\ ppc' = WakeReaders([ppc EXCEPT ![p] = "write_wait"]) /\ silent' = FALSE
    /\ plock' = p
    /\ UNCHANGED <<ringVars, readopen, writeopen, freed, end, left, pkilled, pcalls>>

WriteByte(p, c) ==
    /\ ppc[p] = "write" /\ MayRun(p) /\ left[p] > 0
    /\ readopen /\ ~pkilled[p] /\ ~Full
    /\ data' = [data EXCEPT ![nwrite % PIPESIZE] = c]
    /\ nwrite' = (nwrite + 1) % PipeMod
    /\ left' = [left EXCEPT ![p] = @ - 1]
    /\ plock' = p
    /\ UNCHANGED <<nread, taken, readopen, writeopen, freed, end, ppc, pkilled, pcalls, silent>>

(* piperead: wait for data or the end of file, then copy what there is.      *)

ReadWaits(p) ==
    /\ ppc[p] = "read" /\ MayRun(p) /\ Empty /\ writeopen /\ ~pkilled[p]
    /\ ppc' = [ppc EXCEPT ![p] = "read_wait"]
    /\ plock' = p
    /\ UNCHANGED <<ringVars, readopen, writeopen, freed, end, left, pkilled, pcalls, silent>>

ReadFails(p) ==
    /\ ppc[p] = "read" /\ MayRun(p) /\ Empty /\ writeopen /\ pkilled[p]
    /\ ppc' = [ppc EXCEPT ![p] = "user"]
    /\ plock' = NoProc
    /\ left' = [left EXCEPT ![p] = 0]
    /\ UNCHANGED <<ringVars, readopen, writeopen, freed, end, pkilled, pcalls, silent>>

ReadStarts(p) ==
    /\ ppc[p] = "read" /\ MayRun(p) /\ ~(Empty /\ writeopen)
    /\ ppc' = [ppc EXCEPT ![p] = "copy"]
    /\ plock' = p
    /\ UNCHANGED <<ringVars, readopen, writeopen, freed, end, left, pkilled, pcalls, silent>>

\* The byte has left the ring before copyout can fail.
ReadByte(p) ==
    /\ ppc[p] = "copy" /\ left[p] > 0 /\ ~Empty
    /\ taken' = data[nread % PIPESIZE]
    /\ nread' = (nread + 1) % PipeMod
    /\ \/ left' = [left EXCEPT ![p] = @ - 1] /\ UNCHANGED <<ppc, plock>>
       \/ /\ ppc' = WakeWriters([ppc EXCEPT ![p] = "user"])
          /\ plock' = NoProc /\ left' = [left EXCEPT ![p] = 0]
    /\ UNCHANGED <<data, nwrite, readopen, writeopen, freed, end, pkilled, pcalls, silent>>

ReadDone(p) ==
    /\ ppc[p] = "copy" /\ (left[p] = 0 \/ Empty)
    /\ ppc' = WakeWriters([ppc EXCEPT ![p] = "user"])
    /\ plock' = NoProc
    /\ left' = [left EXCEPT ![p] = 0]
    /\ UNCHANGED <<ringVars, readopen, writeopen, freed, end, pkilled, pcalls, silent>>

\* sleep, for both: p is SLEEPING before pi->lock can be taken by others.  A
\* kill after the test of killed and before this step is not looked at again.
PipeSleep(p) ==
    /\ ppc[p] \in {"read_wait", "write_wait"}
    /\ ppc' = [ppc EXCEPT ![p] = IF @ = "read_wait" THEN "read_sleep" ELSE "write_sleep"]
    /\ plock' = NoProc
    /\ UNCHANGED <<ringVars, readopen, writeopen, freed, end, left, pkilled, pcalls, silent>>

-----------------------------------------------------------------------------
\* fileclose: the last process to close an end goes on to pipeclose.
CloseEnd(p) ==
    /\ ppc[p] = "user" /\ end[p] # "none"
    /\ end' = [end EXCEPT ![p] = "none"]
    /\ ppc' = [ppc EXCEPT ![p] =
                IF \E q \in PipeProcs \ {p} : end[q] = end[p] THEN "user"
                ELSE IF end[p] = "r" THEN "close_r" ELSE "close_w"]
    /\ UNCHANGED <<ringVars, readopen, writeopen, freed, plock, left, pkilled, pcalls, silent>>

PipeClose_NoWake(p) ==
    /\ ppc[p] \in {"close_r", "close_w"} /\ plock = NoProc
    /\ writeopen' = (writeopen /\ ppc[p] # "close_w")
    /\ readopen' = (readopen /\ ppc[p] # "close_r")
    /\ ppc' = [ppc EXCEPT ![p] = "user"]
    /\ freed' = IF readopen' \/ writeopen' THEN freed ELSE freed + 1
    /\ UNCHANGED <<ringVars, plock, end, left, pkilled, pcalls, silent>>

PipeClose_Frees(p) ==
    /\ ppc[p] \in {"close_r", "close_w"} /\ plock = NoProc
    /\ writeopen' = (writeopen /\ ppc[p] # "close_w")
    /\ readopen' = (readopen /\ ppc[p] # "close_r")
    /\ ppc' = WakeReaders(WakeWriters([ppc EXCEPT ![p] = "user"]))
    /\ freed' = IF readopen' /\ writeopen' THEN freed ELSE freed + 1
    /\ UNCHANGED <<ringVars, plock, end, left, pkilled, pcalls, silent>>

PipeClose(p) ==
    /\ ppc[p] \in {"close_r", "close_w"} /\ plock = NoProc
    /\ writeopen' = (writeopen /\ ppc[p] # "close_w")
    /\ readopen' = (readopen /\ ppc[p] # "close_r")
    /\ ppc' = IF ppc[p] = "close_w" THEN WakeReaders([ppc EXCEPT ![p] = "user"])
                                    ELSE WakeWriters([ppc EXCEPT ![p] = "user"])
    /\ freed' = IF readopen' \/ writeopen' THEN freed ELSE freed + 1
    /\ silent' = (silent /\ ppc[p] # "close_w")
    /\ UNCHANGED <<ringVars, plock, end, left, pkilled, pcalls>>

\* kill: a sleeping process becomes runnable.
KillProc(p) ==
    /\ ~pkilled[p] /\ end[p] # "none"
    /\ pkilled' = [pkilled EXCEPT ![p] = TRUE]
    /\ ppc' = [ppc EXCEPT ![p] = CASE @ = "read_sleep" -> "read" [] @ = "write_sleep" -> "write" [] OTHER -> @]
    /\ UNCHANGED <<ringVars, readopen, writeopen, freed, plock, end, left, pcalls, silent>>

-----------------------------------------------------------------------------
PipeStep(p) ==
    \/ WriteDone(p) \/ WriteFails(p) \/ WriteWaits(p) \/ \E c \in Bytes : WriteByte(p, c)
    \/ ReadWaits(p) \/ ReadFails(p) \/ ReadStarts(p) \/ ReadByte(p) \/ ReadDone(p)
    \/ PipeSleep(p) \/ CloseEnd(p) \/ PipeClose(p)

PipeNext ==
    \/ \E p \in PipeProcs : PipeStep(p) \/ KillProc(p)
    \/ \E p \in PipeProcs, n \in Requests : PipeCall(p, n)

PipeSpec == PipeInit /\ [][PipeNext]_pipeVars

-----------------------------------------------------------------------------
(* Properties.                                                               *)

\* The bytes between nread and nwrite.
Queued == [i \in 1..((nwrite + PipeMod - nread) % PipeMod) |-> data[(nread + i - 1) % PIPESIZE]]

\* A pipe is a first-in first-out queue of at most PIPESIZE bytes, whatever the
\* interleaving of its readers and writers and wherever the indices wrap.
PipeQueue == INSTANCE BoundedQueue WITH queue <- Queued, out <- taken, Capacity <- PIPESIZE
PipeIsQueue == PipeQueue!QueueSpec

\* Nobody sleeps with something to do: while no call runs, a sleeping writer
\* finds the pipe full and a reader left, a sleeping reader finds it empty and
\* a writer left.  The one exception is the code's own: a writer that is killed
\* in the middle of its call returns without waking the readers of what it has
\* written, and they sleep on until the next wakeup.  Nothing is said of a
\* sleeper that is killed: pipewrite and piperead test killed before they call
\* sleep, and a kill in between does not wake it.
NoIdleSleeper ==
    plock = NoProc => \A p \in PipeProcs :
        /\ ppc[p] = "read_sleep" => writeopen /\ (Empty \/ silent)
        /\ ppc[p] = "write_sleep" => readopen /\ Full

\* The page is freed once, when no process can reach the pipe any more.
PipeFreedOnce ==
    /\ freed <= 1
    /\ freed = 1 => \A p \in PipeProcs : end[p] = "none" /\ ppc[p] = "user"
    /\ (\A p \in PipeProcs : end[p] = "none" /\ ppc[p] = "user") => freed = 1

\* Every read and write returns once the processes at the other end have
\* closed theirs, which each does after at most MaxPipeCalls calls.
PipeCallsReturn == \A p \in PipeProcs : ppc[p] \in {"read", "write"} ~> ppc[p] = "user"
=============================================================================
