---------------------------- MODULE BufferCache ----------------------------
(* The buffer cache (kernel/bio.c) and the sleep lock of each buffer         *)
(* (kernel/sleeplock.c).  A user gets a buffer with bread, may change it,    *)
(* may write it with bwrite or pin it for the log, and gives it back with    *)
(* brelse.  A process that holds two buffers at once (bmap and itrunc: the   *)
(* indirect block and another; write_log and install_trans: the log block    *)
(* and its home) is two users.  What bcache.lock protects is one step;       *)
(* taking and releasing the sleep lock are steps of their own.               *)
EXTENDS Naturals, Sequences, FiniteSets, SequencesExt

CONSTANTS BufUsers,  \* pairs of bread and brelse that may be open at once
          Bufs, BufBlocks, BufValues,
          MaxPins,  \* bound: buffers the log has pinned at once
          Nil

ASSUME CacheAssumption ==
    /\ IsFiniteSet(BufUsers) /\ IsFiniteSet(Bufs) /\ MaxPins \in Nat
    /\ BufValues # {} /\ Nil \notin BufBlocks \union Bufs \union BufUsers

VARIABLES
    buf,      \* struct buf: blockno, valid, refcnt, holder of the sleep lock, data
    lru,      \* the list of buffers, most recently used first
    disk,     \* what the disk holds
    bpc,      \* where each process is in bread and brelse
    want,     \* the block it asked for
    mine,     \* its buffer
    bpins,    \* how often log_write pinned a buffer
    latest,   \* history: what its users last put into a block
    safe,     \* history: what was last in it when it was written or pinned
    noBufs    \* bget reached panic("bget: no buffers") and keeps bcache.lock

bufVars == <<buf, lru, disk, bpc, want, mine, bpins, latest, safe, noBufs>>

\* binit: every buffer is free and holds no block of the disk.
BufInit ==
    /\ buf = [b \in Bufs |-> [block |-> Nil, valid |-> FALSE, ref |-> 0, holder |-> Nil,
                             data |-> CHOOSE v \in BufValues : TRUE]]
    /\ lru = SetToSeq(Bufs)
    /\ disk \in [BufBlocks -> BufValues]
    /\ bpc = [p \in BufUsers |-> "out"]
    /\ want = [p \in BufUsers |-> Nil]
    /\ mine = [p \in BufUsers |-> Nil]
    /\ bpins = [b \in Bufs |-> 0]
    /\ latest = disk /\ safe = disk
    /\ noBufs = FALSE

-----------------------------------------------------------------------------
(* bget                                                                      *)

Cached(k) == {b \in Bufs : buf[b].block = k}

\* The least recently used of the buffers that nobody references.
Unreferenced_Unlocked(b) == buf[b].holder = Nil
Unreferenced(b) == buf[b].ref = 0
Victim == LET i == CHOOSE i \in DOMAIN lru :
                    Unreferenced(lru[i]) /\ \A j \in DOMAIN lru : j > i => ~Unreferenced(lru[j])
          IN  lru[i]

\* A recycled buffer belongs to block k and has no contents yet.
Recycled(b, k) == [buf[b] EXCEPT !.block = k, !.valid = FALSE, !.ref = 1]

Bget(p, k) ==
    /\ bpc[p] = "out" /\ ~noBufs
    /\ want' = [want EXCEPT ![p] = k]
    /\ \/ \E b \in Cached(k) :
            /\ buf' = [buf EXCEPT ![b].ref = @ + 1]
            /\ mine' = [mine EXCEPT ![p] = b]
            /\ bpc' = [bpc EXCEPT ![p] = "lock"]
            /\ UNCHANGED noBufs
       \/ /\ Cached(k) = {} /\ \E b \in Bufs : Unreferenced(b)
          /\ buf' = [buf EXCEPT ![Victim] = Recycled(Victim, k)]
          /\ mine' = [mine EXCEPT ![p] = Victim]
          /\ bpc' = [bpc EXCEPT ![p] = "lock"]
          /\ UNCHANGED noBufs
       \/ /\ Cached(k) = {} /\ \A b \in Bufs : ~Unreferenced(b)
          /\ noBufs' = TRUE
          /\ UNCHANGED <<buf, mine, bpc>>
    /\ UNCHANGED <<lru, disk, bpins, latest, safe>>

\* acquiresleep: take the lock, or sleep until it is released and try again.
AcquireSleep(p) ==
    /\ bpc[p] \in {"lock", "woken"}
    /\ IF buf[mine[p]].holder # Nil
       THEN bpc' = [bpc EXCEPT ![p] = "asleep"] /\ UNCHANGED buf
       ELSE /\ buf' = [buf EXCEPT ![mine[p]].holder = p]
            /\ bpc' = [bpc EXCEPT ![p] = "fill"]
    /\ UNCHANGED <<lru, disk, want, mine, bpins, latest, safe, noBufs>>

\* The rest of bread: the first user reads the block from the disk.
Bread(p) ==
    /\ bpc[p] = "fill"
    /\ buf' = IF buf[mine[p]].valid THEN buf
              ELSE [buf EXCEPT ![mine[p]].valid = TRUE,
                               ![mine[p]].data = disk[buf[mine[p]].block]]
    /\ bpc' = [bpc EXCEPT ![p] = "hold"]
    /\ UNCHANGED <<lru, disk, want, mine, bpins, latest, safe, noBufs>>

-----------------------------------------------------------------------------
(* The user of a locked buffer.                                              *)

\* What is put into a pinned buffer goes to the log with it.
ChangeData(p, v) ==
    /\ bpc[p] = "hold"
    /\ buf' = [buf EXCEPT ![mine[p]].data = v]
    /\ latest' = [latest EXCEPT ![want[p]] = v]
    /\ safe' = IF bpins[mine[p]] > 0 THEN [safe EXCEPT ![want[p]] = v] ELSE safe
    /\ UNCHANGED <<lru, disk, bpc, want, mine, bpins, noBufs>>

\* From now on the contents are there to stay.
Saved(p) ==
    /\ latest' = [latest EXCEPT ![want[p]] = buf[mine[p]].data]
    /\ safe' = [safe EXCEPT ![want[p]] = buf[mine[p]].data]

Bwrite(p) ==
    /\ bpc[p] = "hold"
    /\ disk' = [disk EXCEPT ![buf[mine[p]].block] = buf[mine[p]].data]
    /\ Saved(p)
    /\ UNCHANGED <<buf, lru, bpc, want, mine, bpins, noBufs>>

\* bpin, called by log_write for a block that is not in the transaction yet.
Bpin(p) ==
    /\ bpc[p] = "hold" /\ bpins[mine[p]] = 0 /\ ~noBufs
    /\ Cardinality({b \in Bufs : bpins[b] > 0}) < MaxPins
    /\ buf' = [buf EXCEPT ![mine[p]].ref = @ + 1]
    /\ bpins' = [bpins EXCEPT ![mine[p]] = @ + 1]
    /\ Saved(p)
    /\ UNCHANGED <<lru, disk, bpc, want, mine, noBufs>>

\* bunpin, called by install_trans once the block is at its home location.
Bunpin(p) ==
    /\ bpc[p] = "hold" /\ bpins[mine[p]] > 0 /\ ~noBufs
    /\ disk[buf[mine[p]].block] = buf[mine[p]].data
    /\ buf' = [buf EXCEPT ![mine[p]].ref = @ - 1]
    /\ bpins' = [bpins EXCEPT ![mine[p]] = @ - 1]
    /\ UNCHANGED <<lru, disk, bpc, want, mine, latest, safe, noBufs>>

-----------------------------------------------------------------------------
(* brelse, in two steps: releasesleep, then the reference under bcache.lock. *)

\* releasesleep wakes every process that sleeps on the lock.
WakeBuf(b, f) == [p \in BufUsers |-> IF f[p] = "asleep" /\ mine[p] = b THEN "woken" ELSE f[p]]

ReleaseSleep(p) ==
    /\ bpc[p] = "hold"
    /\ buf' = [buf EXCEPT ![mine[p]].holder = Nil]
    /\ bpc' = WakeBuf(mine[p], [bpc EXCEPT ![p] = "put"])
    /\ UNCHANGED <<lru, disk, want, mine, bpins, latest, safe, noBufs>>

\* The last reference moves the buffer to the front of the list.
Touch(b) == LET i == CHOOSE i \in DOMAIN lru : lru[i] = b IN <<b>> \o RemoveAt(lru, i)

Brelse_Leaks(p) ==
    /\ bpc[p] = "put" /\ ~noBufs
    /\ buf' = [buf EXCEPT ![mine[p]].ref = IF buf[mine[p]].holder = Nil THEN @ - 1 ELSE @]
    /\ lru' = IF buf[mine[p]].ref = 1 THEN Touch(mine[p]) ELSE lru
    /\ bpc' = [bpc EXCEPT ![p] = "out"]
    /\ mine' = [mine EXCEPT ![p] = Nil]
    /\ want' = [want EXCEPT ![p] = Nil]
    /\ UNCHANGED <<disk, bpins, latest, safe, noBufs>>

Brelse(p) ==
    /\ bpc[p] = "put" /\ ~noBufs
    /\ buf' = [buf EXCEPT ![mine[p]].ref = @ - 1]
    /\ lru' = IF buf[mine[p]].ref = 1 THEN Touch(mine[p]) ELSE lru
    /\ bpc' = [bpc EXCEPT ![p] = "out"]
    /\ mine' = [mine EXCEPT ![p] = Nil]
    /\ want' = [want EXCEPT ![p] = Nil]
    /\ UNCHANGED <<disk, bpins, latest, safe, noBufs>>

BufStep(p) == AcquireSleep(p) \/ Bread(p) \/ Bwrite(p) \/ Bpin(p) \/ Bunpin(p) \/ ReleaseSleep(p) \/ Brelse(p)

BufNext ==
    \/ \E p \in BufUsers, k \in BufBlocks : Bget(p, k)
    \/ \E p \in BufUsers, v \in BufValues : ChangeData(p, v)
    \/ \E p \in BufUsers : BufStep(p)

BufSpec == BufInit /\ [][BufNext]_bufVars

-----------------------------------------------------------------------------
(* Properties.                                                               *)

\* The user of a buffer sees what the last user of that block left, through
\* any interleaving of misses, waits for the sleep lock and recyclings.  Only
\* what was released without bwrite or log_write, as writei does when copyin
\* fails, may be gone: then the user sees what was written or pinned before it.
\* A block has at most one buffer, and from bget to brelse it stays that of the
\* block asked for.
ReadsLatest ==
    /\ \A b, c \in Bufs : buf[b].block = buf[c].block /\ buf[b].block # Nil => b = c
    /\ \A p \in BufUsers : bpc[p] # "out" => buf[mine[p]].block = want[p]
    /\ \A p \in BufUsers : bpc[p] = "hold" => buf[mine[p]].data \in {latest[want[p]], safe[want[p]]}

\* A process that asks for a block gets a buffer: bget panics only if every
\* buffer is pinned by the log or in the hands of a user at that moment, so no
\* release forgets a reference; and nobody sleeps for a sleep lock that nobody
\* holds.  The panic itself can be reached: NBUF is LOGSIZE.
BufferObtained ==
    /\ noBufs => \A b \in Bufs : bpins[b] > 0 \/ \E p \in BufUsers : bpc[p] # "out" /\ mine[p] = b
    /\ \A p \in BufUsers : bpc[p] = "asleep" => buf[mine[p]].holder # Nil
=============================================================================
