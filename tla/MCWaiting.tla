----------------------------- MODULE MCWaiting -----------------------------
(* Where processes wait for somebody else: requests to the disk and the two  *)
(* ends of a pipe.  A behaviour is about one of them; the variables of the   *)
(* other keep their initial values.                                          *)
EXTENDS VirtioDisk, Pipe

CONSTANTS p1, p2, p3
VARIABLE place

waitVars == <<place, vars, pipeVars>>

\* A buffer of the cache is used for one block after the other.
AnyBuffer == Bufs \X Sectors

\* One reader and two writers, or two readers and one writer.
Roles == {[p \in {p1, p2, p3} |-> IF p = p1 THEN "r" ELSE IF p = p3 THEN "w" ELSE e] : e \in {"r", "w"}}

WaitInit ==
    /\ place \in {"disk", "pipe"}
    /\ Init /\ PipeInit
    /\ place # "pipe" => end[p2] = "r"

WaitNext ==
    \/ place = "disk" /\ Next /\ UNCHANGED <<place, pipeVars>>
    \/ place = "pipe" /\ PipeNext /\ UNCHANGED <<place, vars>>

\* Processes that can run do run, interrupts are taken, and the device serves
\* what it is given; a pipe's processes close their ends in the end.
WaitSpec ==
    /\ WaitInit /\ [][WaitNext]_waitVars
    /\ \A p \in Procs : WF_vars(place = "disk" /\ Run(p))
    /\ WF_vars(place = "disk" /\ virtio_disk_intr)
    /\ WF_vars(place = "disk" /\ Fetch) /\ WF_vars(place = "disk" /\ Execute)
    /\ \A p \in PipeProcs : WF_pipeVars(place = "pipe" /\ PipeStep(p))
=============================================================================
