---------------------------- MODULE AtomicStore ----------------------------
(* What the file system log promises to the system calls above it: the      *)
(* blocks behave like a store in which the calls of one transaction reach   *)
(* the disk together.  A crash falls back to the last stable contents and   *)
(* drops every call that was running.                                       *)
CONSTANTS Procs, Blocks, Values

VARIABLES stable,    \* the contents that survive a crash
          current,   \* the contents the system calls see
          active     \* the processes between begin_op and end_op

storeVars == <<stable, current, active>>

StoreInit ==
    /\ stable \in [Blocks -> Values]
    /\ current = stable
    /\ active = {}

Begin(p) ==
    /\ p \notin active
    /\ active' = active \union {p}
    /\ UNCHANGED <<stable, current>>

Write(p, b, v) ==
    /\ p \in active
    /\ current' = [current EXCEPT ![b] = v]
    /\ UNCHANGED <<stable, active>>

End(p) ==
    /\ p \in active
    /\ active' = active \ {p}
    /\ UNCHANGED <<stable, current>>

\* Only whole calls become stable.
Commit ==
    /\ active = {}
    /\ stable' = current
    /\ UNCHANGED <<current, active>>

Crash ==
    /\ current' = stable
    /\ active' = {}
    /\ UNCHANGED stable

StoreNext ==
    \/ \E p \in Procs : Begin(p) \/ End(p)
    \/ \E p \in Procs, b \in Blocks, v \in Values : Write(p, b, v)
    \/ Commit
    \/ Crash

StoreSpec == StoreInit /\ [][StoreNext]_storeVars
=============================================================================
