----------------------------- MODULE VirtioDisk -----------------------------
(***************************************************************************)
(* The virtio block driver for one disk, kernel/virtio_disk.c: processes   *)
(* that submit requests and sleep, the device that executes them, and the  *)
(* completion interrupt, which may run on any hart.  The driver's state is *)
(* protected by vdisk_lock; the device reads and writes the rings and the  *)
(* descriptors without it.  A section that runs under the lock is split    *)
(* where the device can observe the difference.                            *)
(*                                                                         *)
(* Bufs are the buffers whose sleeplock the callers hold for the transfer: *)
(* the disk's transfer_buffer for read_block and write_block, the locked   *)
(* buffers of the buffer cache for bread and bwrite.                       *)
(*                                                                         *)
(* A ring entry that has been consumed is dead until it is written again;  *)
(* the model resets it to 0, so that states differing only in dead entries *)
(* are the same state.                                                     *)
(*                                                                         *)
(* A definition whose name ends in _Xyz is the definition of the same name *)
(* with a plausible slip in it, as in module RaidLayout.                   *)
(***************************************************************************)
EXTENDS Integers, FiniteSets

CONSTANTS NUM,       \* descriptors, and entries of each ring
          IdxMod,    \* ring indices are uint16: modulo 2^16
          Procs, Bufs, Sectors, Values,
          Transfers, \* <<b, s>>: buffer b may be used for sector s
          None

ASSUME NumAssumption  == NUM \in Nat /\ NUM >= 3
ASSUME IdxAssumption  == IdxMod \in Nat /\ IdxMod > NUM /\ IdxMod % NUM = 0
ASSUME TransferAssumption == Transfers \subseteq Bufs \X Sectors
ASSUME NoneAssumption == None \notin Procs \union Bufs \union {"intr"} /\ "intr" \notin Procs

Descs == 0 .. (NUM - 1)

VARIABLES
    free,        \* disk.free[i]
    desc,        \* disk.desc[i] with what its address points to: the request header
                 \* (disk.ops[i]), the data of a buf, or the status byte
    info,        \* disk.info[i]: the buf of the chain that starts at i, its status
    avail,       \* disk.avail: ring and idx
    used,        \* disk.used: ring and idx
    used_idx,    \* disk.used_idx
    vdisk_lock,  \* holder of vdisk_lock
    buf,         \* buf[b]: data, the disk flag and the holder of its sleeplock
    pc,          \* where each process is
    req,         \* the request of each process and the descriptors of its chain
    irq,         \* the interrupt handler: "off", "on"
    pending,     \* the device has raised an interrupt not acknowledged yet
    fetched,     \* device: how far it has read avail.ring
    inflight,    \* device: chains being executed
    media,       \* device: the contents of the disk
    faulted,     \* panic, a null dereference, or a device reading a freed chain
    served       \* history: how often the device executed the request of p

driver == <<free, desc, info, avail, used_idx>>
device == <<used, pending, fetched, inflight, media>>
vars   == <<driver, device, vdisk_lock, buf, pc, req, irq, faulted, served>>

NoDesc == [addr |-> "none", write |-> FALSE, sector |-> None, buf |-> None,
           more |-> FALSE, next |-> 0]
NoReq  == [write |-> FALSE, sector |-> None, value |-> None, b |-> None, i0 |-> 0, i1 |-> 0, i2 |-> 0]

\* virtio_disk_init, and the buffers unlocked.
Init ==
    /\ free = [i \in Descs |-> TRUE]
    /\ desc = [i \in Descs |-> NoDesc]
    /\ info = [i \in Descs |-> [b |-> None, status |-> 0]]
    /\ avail = [ring |-> [i \in Descs |-> 0], idx |-> 0]
    /\ used = [ring |-> [i \in Descs |-> 0], idx |-> 0]
    /\ used_idx = 0
    /\ vdisk_lock = None
    /\ buf = [b \in Bufs |-> [data |-> None, disk |-> 0, lock |-> None]]
    /\ pc = [p \in Procs |-> "idle"]
    /\ req = [p \in Procs |-> NoReq]
    /\ irq = "off"
    /\ pending = FALSE
    /\ fetched = 0
    /\ inflight = {}
    /\ media \in [Sectors -> Values]
    /\ faulted = FALSE
    /\ served = [p \in Procs |-> 0]

-----------------------------------------------------------------------------
(* Sleep and wakeup.  sleep releases vdisk_lock and marks the process       *)
(* SLEEPING in one step (proc.c holds p->lock over both), so a process is   *)
(* either running, at one of the sleeping labels, or woken.                 *)

WakeFree_Missing(f) == f
WakeBuf_Anyone(f, b) == [q \in Procs |-> IF f[q] = "sleep_buf" THEN "woken" ELSE f[q]]

\* wakeup(&free[0]) and wakeup(b) applied to the pc of every process
WakeFree(f)   == [q \in Procs |-> IF f[q] = "sleep_free" THEN "alloc" ELSE f[q]]
WakeBuf(f, b) == [q \in Procs |-> IF f[q] = "sleep_buf" /\ req[q].b = b THEN "woken" ELSE f[q]]

Goto(p, label) == pc' = [pc EXCEPT ![p] = label]

-----------------------------------------------------------------------------
(* write_block, read_block: take the buffer, fill it, do the transfer.      *)

Begin(p) ==
    /\ pc[p] = "idle" /\ ~faulted
    /\ \E b \in Bufs, s \in Sectors, w \in BOOLEAN, v \in Values :
        /\ <<b, s>> \in Transfers /\ buf[b].lock = None
        /\ \A q \in Procs : pc[q] # "idle" => req[q].sector # s
        /\ buf' = [buf EXCEPT ![b].lock = p, ![b].data = IF w THEN v ELSE @]
        /\ req' = [req EXCEPT ![p] = [NoReq EXCEPT !.write = w, !.sector = s, !.b = b,
                                                   !.value = IF w THEN v ELSE None]]
    /\ Goto(p, "alloc")
    /\ served' = [served EXCEPT ![p] = 0]
    /\ UNCHANGED <<driver, device, vdisk_lock, irq, faulted>>

\* read_block copies the data out; both release the buffer, whose contents no
\* longer matter.
End(p) ==
    /\ pc[p] = "return" /\ ~faulted
    /\ buf' = [buf EXCEPT ![req[p].b].lock = None, ![req[p].b].data = None]
    /\ req' = [req EXCEPT ![p] = NoReq]
    /\ Goto(p, "idle")
    /\ served' = [served EXCEPT ![p] = 0]
    /\ UNCHANGED <<driver, device, vdisk_lock, irq, faulted>>

-----------------------------------------------------------------------------
(* virtio_disk_rw                                                           *)

FreeSet == {i \in Descs : free[i]}
alloc_desc(F) == CHOOSE i \in F : \A j \in F : i <= j

\* alloc3_desc fails: the descriptors it did get are freed again, each with a
\* wakeup of the processes that wait for one.
AllocFails(p) ==
    /\ pc[p] = "alloc" /\ vdisk_lock = None /\ ~faulted
    /\ Cardinality(FreeSet) < 3
    /\ pc' = [(IF FreeSet = {} THEN pc ELSE WakeFree(pc)) EXCEPT ![p] = "sleep_free"]
    /\ desc' = [i \in Descs |-> IF free[i] THEN NoDesc ELSE desc[i]]
    /\ UNCHANGED <<free, info, avail, used_idx, device, vdisk_lock, buf, req, irq,
                   faulted, served>>

Header_Swapped(p, next) ==
    [addr |-> "header", write |-> ~req[p].write, sector |-> req[p].sector, buf |-> None,
     more |-> TRUE, next |-> next]

\* The first descriptor of a chain, and the request header it points to.
Header(p, next) ==
    [addr |-> "header", write |-> req[p].write, sector |-> req[p].sector, buf |-> None,
     more |-> TRUE, next |-> next]

\* Three descriptors are taken and formatted, and the lock is kept.
alloc3_desc(p) ==
    /\ pc[p] = "alloc" /\ vdisk_lock = None /\ ~faulted
    /\ Cardinality(FreeSet) >= 3
    /\ vdisk_lock' = p
    /\ LET i0 == alloc_desc(FreeSet)
           i1 == alloc_desc(FreeSet \ {i0})
           i2 == alloc_desc(FreeSet \ {i0, i1})
           b  == req[p].b
       IN  /\ free' = [free EXCEPT ![i0] = FALSE, ![i1] = FALSE, ![i2] = FALSE]
           /\ desc' = [desc EXCEPT
                  ![i0] = Header(p, i1),
                  ![i1] = [addr |-> "data", write |-> ~req[p].write, sector |-> None,
                           buf |-> b, more |-> TRUE, next |-> i2],
                  ![i2] = [addr |-> "status", write |-> TRUE, sector |-> None,
                           buf |-> None, more |-> FALSE, next |-> 0]]
           /\ info' = [info EXCEPT ![i0] = [b |-> b, status |-> 255]]
           /\ buf' = [buf EXCEPT ![b].disk = 1]
           /\ req' = [req EXCEPT ![p].i0 = i0, ![p].i1 = i1, ![p].i2 = i2]
    /\ Goto(p, "publish")
    /\ UNCHANGED <<avail, used_idx, device, irq, faulted, served>>

\* avail->ring[avail->idx % NUM] = idx[0]
Publish(p) ==
    /\ pc[p] = "publish" /\ ~faulted
    /\ avail' = [avail EXCEPT !.ring[avail.idx % NUM] = req[p].i0]
    /\ Goto(p, "notify")
    /\ UNCHANGED <<free, desc, info, used_idx, device, vdisk_lock, buf, req, irq,
                   faulted, served>>

\* A uint16 index incremented.
NextIdx(i) == (i + 1) % IdxMod

\* avail->idx += 1, notify, sleep(b, &vdisk_lock)
Notify(p) ==
    /\ pc[p] = "notify" /\ ~faulted
    /\ avail' = [avail EXCEPT !.idx = NextIdx(avail.idx)]
    /\ vdisk_lock' = None
    /\ Goto(p, "sleep_buf")
    /\ UNCHANGED <<free, desc, info, used_idx, device, buf, req, irq, faulted, served>>

\* The chain that starts at i, as free_chain follows it: through next for as
\* long as the NEXT flag is set.
Chain(i) ==
    LET j == desc[i].next
        k == desc[j].next
    IN  IF ~desc[i].more THEN {i} ELSE IF ~desc[j].more THEN {i, j} ELSE {i, j, k}

\* info[idx[0]].b = 0; free_chain(idx[0]): free_desc panics on a descriptor
\* that is free already.
free_chain(p) ==
    /\ pc[p] = "woken" /\ vdisk_lock = None /\ ~faulted
    /\ info' = [info EXCEPT ![req[p].i0].b = None]
    /\ IF \E i \in Chain(req[p].i0) : free[i]
       THEN /\ faulted' = TRUE
            /\ UNCHANGED <<free, desc, pc>>
       ELSE /\ free' = [i \in Descs |-> free[i] \/ i \in Chain(req[p].i0)]
            /\ desc' = [i \in Descs |-> IF i \in Chain(req[p].i0) THEN NoDesc ELSE desc[i]]
            /\ pc' = [WakeFree(pc) EXCEPT ![p] = "return"]
            /\ UNCHANGED faulted
    /\ UNCHANGED <<avail, used_idx, device, vdisk_lock, buf, req, irq, served>>

virtio_disk_rw(p) ==
    AllocFails(p) \/ alloc3_desc(p) \/ Publish(p) \/ Notify(p) \/ free_chain(p)

-----------------------------------------------------------------------------
(* virtio_disk_intr                                                         *)

\* Take the lock and acknowledge the interrupt.
IntrEnter ==
    /\ irq = "off" /\ pending /\ vdisk_lock = None /\ ~faulted
    /\ vdisk_lock' = "intr"
    /\ irq' = "on"
    /\ pending' = FALSE
    /\ UNCHANGED <<driver, used, fetched, inflight, media, buf, pc, req, faulted, served>>

\* used->ring[used_idx % NUM].id
UsedEntry == used.ring[used_idx % NUM]

\* One entry of the used ring.  A status that is not 0 panics; a chain whose
\* buf is 0 is a null dereference.
IntrEntry ==
    /\ irq = "on" /\ used_idx # used.idx /\ ~faulted
    /\ LET id == UsedEntry
           b  == info[id].b
       IN  IF info[id].status # 0 \/ b = None
           THEN /\ faulted' = TRUE
                /\ UNCHANGED <<buf, pc, used, used_idx>>
           ELSE /\ buf' = [buf EXCEPT ![b].disk = 0]
                /\ pc' = WakeBuf(pc, b)
                /\ used' = [used EXCEPT !.ring[used_idx % NUM] = 0]
                /\ used_idx' = NextIdx(used_idx)
                /\ UNCHANGED faulted
    /\ UNCHANGED <<free, desc, info, avail, pending, fetched, inflight, media, vdisk_lock,
                   req, irq, served>>

IntrExit ==
    /\ irq = "on" /\ used_idx = used.idx /\ ~faulted
    /\ irq' = "off"
    /\ vdisk_lock' = None
    /\ UNCHANGED <<driver, device, buf, pc, req, faulted, served>>

virtio_disk_intr == IntrEnter \/ IntrEntry \/ IntrExit

-----------------------------------------------------------------------------
(* The device (external).  It fetches chains in ring order and may finish   *)
(* them in any order.                                                       *)

Fetch ==
    /\ fetched # avail.idx /\ ~faulted
    /\ inflight' = inflight \union {avail.ring[fetched % NUM]}
    /\ avail' = [avail EXCEPT !.ring[fetched % NUM] = 0]
    /\ fetched' = NextIdx(fetched)
    /\ UNCHANGED <<free, desc, info, used_idx, used, pending, media, vdisk_lock, buf, pc, req,
                   irq, faulted, served>>

\* The transfer, the status byte, the used ring entry and the interrupt.  A
\* chain whose descriptors were freed under the device sends it astray.
Execute ==
    /\ ~faulted
    /\ \E i \in inflight :
        LET j == desc[i].next
            b == desc[j].buf
            s == desc[i].sector
        IN  IF desc[i].addr # "header" \/ desc[j].addr # "data"
            THEN /\ faulted' = TRUE
                 /\ UNCHANGED <<buf, media, info, used, pending, inflight, served>>
            ELSE /\ media' = IF desc[i].write THEN [media EXCEPT ![s] = buf[b].data] ELSE media
                 /\ buf' = IF desc[i].write THEN buf ELSE [buf EXCEPT ![b].data = media[s]]
                 /\ info' = [info EXCEPT ![i].status = 0]
                 /\ used' = [ring |-> [used.ring EXCEPT ![used.idx % NUM] = i],
                             idx |-> NextIdx(used.idx)]
                 /\ pending' = TRUE
                 /\ inflight' = inflight \ {i}
                 /\ served' = [q \in Procs |-> IF buf[b].lock = q THEN served[q] + 1 ELSE served[q]]
                 /\ UNCHANGED faulted
    /\ UNCHANGED <<free, desc, avail, used_idx, fetched, vdisk_lock, pc, req, irq>>

Device == Fetch \/ Execute

-----------------------------------------------------------------------------
\* kill (proc.c) makes a sleeping process RUNNABLE whatever it sleeps for.
kill(p) ==
    /\ ~faulted
    /\ pc[p] \in {"sleep_free", "sleep_buf"}
    /\ Goto(p, IF pc[p] = "sleep_free" THEN "alloc" ELSE "woken")
    /\ UNCHANGED <<driver, device, vdisk_lock, buf, req, irq, faulted, served>>

Run(p) == virtio_disk_rw(p) \/ End(p)

Next == \/ \E p \in Procs : Begin(p) \/ Run(p)
        \/ virtio_disk_intr
        \/ Device

Spec == Init /\ [][Next]_vars

\* The same driver under a process table in which kill is used.
KillSpec == Init /\ [][Next \/ \E p \in Procs : kill(p)]_vars

-----------------------------------------------------------------------------
(* Properties                                                               *)

Holding == {"publish", "notify", "sleep_buf", "woken"}   \* labels with a chain
Owned(p) == {req[p].i0, req[p].i1, req[p].i2}

\* The driver never frees a descriptor twice, never takes a completion for a
\* chain it has forgotten, and the device never follows a freed descriptor; a
\* descriptor is marked used exactly when it is part of the chain of one
\* request, and of no other: none is shared and none is lost.
DescriptorsAccounted ==
    /\ ~faulted
    /\ \A p, q \in Procs :
           (p # q /\ pc[p] \in Holding /\ pc[q] \in Holding) => Owned(p) \intersect Owned(q) = {}
    /\ {i \in Descs : ~free[i]} = UNION {Owned(p) : p \in {q \in Procs : pc[q] \in Holding}}

\* sleep(b, ...) in virtio_disk_rw returns only after virtio_disk_intr has said
\* that the request has finished.
WokenFinished ==
    \A p \in Procs : pc[p] = "woken" => buf[req[p].b].disk = 0

\* A request that returns was executed by the device exactly once, with its
\* data where it belongs: a read's in the buffer, a write's on the disk.
Transferred ==
    \A p \in Procs : pc[p] = "return" =>
        /\ served[p] = 1
        /\ media[req[p].sector] = IF req[p].write THEN req[p].value ELSE buf[req[p].b].data

\* Once no new requests are made, every request returns: no completion and no
\* wakeup is lost, and waiting for descriptors ends.
RequestsFinish ==
    <>[][\A p \in Procs : ~Begin(p)]_vars
        => \A p \in Procs : pc[p] # "idle" ~> pc[p] = "idle"
=============================================================================
