---------------------------- MODULE FsLogProofs ----------------------------
(* Proofs about the file system log, for any number of processes, blocks and *)
(* values, any log size and any reservation per call: the space that         *)
(* begin_op reserves is enough, what is logged is pinned until it is         *)
(* installed, nobody sleeps in begin_op without a reason, and log.c          *)
(* implements the atomic store with a crash between any two disk writes.     *)
(* After them, proofs about the inode and file tables, for any number of     *)
(* processes, inodes, files and descriptors, any tree and any calls: the     *)
(* reference counts are exact and the copies show the disk.                  *)
EXTENDS FsLog, Inodes, FiniteSetTheorems, SequenceTheorems, WellFoundedInduction, TLAPS

-----------------------------------------------------------------------------
(* The inductive invariant.                                                  *)

CommitLabels == {"commit", "write_log", "write_head", "install", "clear", "finish"}
LogLabels == {"user", "asleep", "woken", "op", "modified"} \union CommitLabels

LogType ==
    /\ home \in [Blocks -> Values] /\ dlog \in [LogSlots -> Values]
    /\ dhead \in Seq(Blocks) /\ lh \in Seq(Blocks)
    /\ cache \in [Blocks -> Values \union {NoBuf}] /\ pins \in [Blocks -> {0, 1}]
    /\ outstanding \in Nat /\ committing \in BOOLEAN /\ tail \in Nat \ {0}
    /\ pc \in [Procs -> LogLabels]
    /\ held \in [Procs -> Blocks \union {NoBuf}]
    /\ writes \in [Procs -> 0 .. OpWrites]
    /\ boot \in {"head", "install", "up"}
    /\ panicked = FALSE

Distinct(s) == \A i, j \in DOMAIN s : s[i] = s[j] => i = j

\* The calls between begin_op and end_op, and the log_writes that each of them
\* has reserved and not made yet.
Active == {p \in Procs : pc[p] \in {"op", "modified"}}
Reserved == {r \in Procs \X (1 .. MAXOPBLOCKS) : r[1] \in Active /\ r[2] > writes[r[1]]}

\* outstanding counts the active calls; a commit runs alone.
CountInv ==
    /\ IsFiniteSet(Active) /\ outstanding = Cardinality(Active)
    /\ committing => Active = {}
    /\ \A p \in Procs : pc[p] \in CommitLabels => committing
    /\ \A p, q \in Procs : pc[p] \in CommitLabels /\ pc[q] \in CommitLabels => p = q

\* There is room for the transaction and for everything that is reserved.
RoomInv == Len(lh) + Cardinality(Reserved) <= LOGSIZE

\* A buffer is held from its change to its log_write, and such a call has one
\* of its writes left.
HeldInv == \A p \in Procs : /\ pc[p] = "modified" <=> held[p] # NoBuf
                            /\ pc[p] = "modified" => writes[p] < OpWrites

\* Nothing runs and nothing is pinned before recovery is over.
BootInv ==
    /\ boot # "up" => /\ \A p \in Procs : pc[p] = "user"
                      /\ \A b \in Blocks : pins[b] = 0
    /\ boot = "install" => /\ lh = dhead /\ tail <= Len(lh) + 1
                           /\ \A i \in DOMAIN lh : i < tail => home[lh[i]] = dlog[i]

\* The header on the disk is empty except from write_head to the clearing of
\* the log, and during recovery.
HeadInv ==
    /\ Distinct(lh) /\ Distinct(dhead) /\ Len(dhead) <= LOGSIZE
    /\ boot = "up" /\ (\A p \in Procs : pc[p] \notin {"install", "clear"}) => dhead = <<>>
    /\ \A p \in Procs : pc[p] \in {"install", "clear"} => dhead = lh
    /\ \A p \in Procs : pc[p] = "finish" => lh = <<>>

\* A block is pinned while it is logged and not installed.
PinInv ==
    boot = "up" => \A b \in Blocks :
        pins[b] = 1 <=> \E i \in DOMAIN lh : lh[i] = b /\ ~Installed(i)

\* A pinned or held block is cached; the copy of any other block is what would
\* survive a crash.
CacheInv ==
    /\ \A b \in Blocks : pins[b] = 1 => cache[b] # NoBuf
    /\ \A p \in Procs : pc[p] = "modified" => cache[held[p]] # NoBuf
    /\ \A b \in Blocks : pins[b] = 0 /\ (\A p \in Procs : held[p] # b) =>
                            cache[b] = NoBuf \/ cache[b] = Survives[b]

\* How far the commit has come.
CommitInv ==
    \A p \in Procs :
        /\ pc[p] = "write_log" => /\ tail <= Len(lh) + 1
                                  /\ \A i \in DOMAIN lh : i < tail => dlog[i] = cache[lh[i]]
        /\ pc[p] = "write_head" => \A i \in DOMAIN lh : dlog[i] = cache[lh[i]]
        /\ pc[p] = "install" =>
              /\ tail <= Len(lh) + 1
              /\ \A i \in DOMAIN lh : IF i < tail THEN home[lh[i]] = dlog[i]
                                                 ELSE dlog[i] = cache[lh[i]]
        /\ pc[p] = "clear" => \A i \in DOMAIN lh : home[lh[i]] = dlog[i]

LogInv == LogType /\ CountInv /\ RoomInv /\ HeldInv /\ BootInv /\ HeadInv /\ PinInv /\ CacheInv /\ CommitInv

-----------------------------------------------------------------------------
(* Lemmas about the operators.                                               *)

\* What survives a crash: a block in the header has the contents of its log
\* block, any other block its home contents.
LEMMA SurvivesIs ==
    ASSUME NEW h \in [Blocks -> Values], NEW l, NEW d \in Seq(Blocks), Distinct(d)
    PROVE  LET S == [b \in Blocks |-> IF \E i \in DOMAIN d : d[i] = b
                                      THEN l[CHOOSE i \in DOMAIN d : d[i] = b] ELSE h[b]]
           IN  /\ \A i \in DOMAIN d : S[d[i]] = l[i]
               /\ \A b \in Blocks : (\A i \in DOMAIN d : d[i] # b) => S[b] = h[b]
<1> DEFINE S == [b \in Blocks |-> IF \E i \in DOMAIN d : d[i] = b
                                  THEN l[CHOOSE i \in DOMAIN d : d[i] = b] ELSE h[b]]
<1>1. ASSUME NEW i \in DOMAIN d PROVE S[d[i]] = l[i]
  <2>1. d[i] \in Blocks
    OBVIOUS
  <2>2. (CHOOSE j \in DOMAIN d : d[j] = d[i]) = i
    BY DEF Distinct
  <2> QED
    BY <2>1, <2>2
<1>2. ASSUME NEW b \in Blocks, \A i \in DOMAIN d : d[i] # b PROVE S[b] = h[b]
  BY <1>2
<1> QED
  BY <1>1, <1>2

\* A set of reservations of the calls in A has at most MAXOPBLOCKS for each.
LEMMA ReservationBound ==
    ASSUME NEW A, IsFiniteSet(A), NEW R \in SUBSET (A \X (1 .. MAXOPBLOCKS))
    PROVE  IsFiniteSet(R) /\ Cardinality(R) \in Nat /\ Cardinality(A) \in Nat
           /\ Cardinality(R) <= Cardinality(A) * MAXOPBLOCKS
<1>1. MAXOPBLOCKS \in Nat \ {0}
  BY LogAssumption
<1>2. IsFiniteSet(1 .. MAXOPBLOCKS) /\ Cardinality(1 .. MAXOPBLOCKS) = MAXOPBLOCKS
  BY <1>1, FS_Interval
<1>3. IsFiniteSet(A \X (1 .. MAXOPBLOCKS))
      /\ Cardinality(A \X (1 .. MAXOPBLOCKS)) = Cardinality(A) * MAXOPBLOCKS
  BY <1>2, FS_Product
<1>4. IsFiniteSet(R) /\ Cardinality(R) <= Cardinality(A \X (1 .. MAXOPBLOCKS))
  BY <1>3, FS_Subset
<1> QED
  BY <1>3, <1>4, FS_CardinalityType

\* The bounds, as arithmetic.
LEMMA Bounds ==
    /\ LOGSIZE \in Nat /\ MAXOPBLOCKS \in Nat /\ MAXOPBLOCKS >= 1
    /\ OpWrites \in Nat /\ OpWrites <= MAXOPBLOCKS /\ 0 \in 0 .. OpWrites
    /\ LogBlocks \in Nat /\ LogBlocks > LOGSIZE
  BY LogAssumption

\* A block appended to a transaction.
LEMMA AppendIs ==
    ASSUME NEW s \in Seq(Blocks), NEW k \in Blocks
    PROVE  /\ Append(s, k) \in Seq(Blocks) /\ Len(Append(s, k)) = Len(s) + 1
           /\ DOMAIN s = 1 .. Len(s) /\ DOMAIN Append(s, k) = 1 .. (Len(s) + 1)
           /\ \A i \in DOMAIN s : Append(s, k)[i] = s[i]
           /\ Append(s, k)[Len(s) + 1] = k /\ Len(s) \in Nat
  BY AppendProperties

\* The dead blocks of the log hold values.
LEMMA DeadLogType == DeadLog \in [LogSlots -> Values]
  BY LogAssumption DEF DeadLog

\* The invariant holds when the machine starts.
LEMMA InitInv == LogInit => LogInv
<1> SUFFICES ASSUME LogInit PROVE LogInv
  OBVIOUS
<1>1. Active = {} /\ Reserved = {}
  BY DEF LogInit, Active, Reserved
<1>2. LogType
  <2>1. dlog \in [LogSlots -> Values]
    BY DeadLogType DEF LogInit
  <2>2. /\ pc \in [Procs -> LogLabels] /\ held \in [Procs -> Blocks \union {NoBuf}]
        /\ writes \in [Procs -> 0 .. OpWrites]
    BY Bounds DEF LogInit, LogLabels
  <2>3. cache \in [Blocks -> Values \union {NoBuf}] /\ pins \in [Blocks -> {0, 1}]
    BY DEF LogInit
  <2>4. dhead \in Seq(Blocks) /\ lh \in Seq(Blocks)
    BY DEF LogInit
  <2>5. outstanding \in Nat /\ tail \in Nat \ {0} /\ boot \in {"head", "install", "up"}
    BY DEF LogInit
  <2>6. home \in [Blocks -> Values] /\ committing \in BOOLEAN /\ panicked = FALSE
    BY Zenon DEF LogInit
  <2> QED
    BY <2>1, <2>2, <2>3, <2>4, <2>5, <2>6 DEF LogType
<1>3. CountInv /\ RoomInv
  BY <1>1, FS_EmptySet, Bounds DEF LogInit, CountInv, RoomInv, CommitLabels
<1>4. HeldInv /\ BootInv /\ HeadInv /\ PinInv /\ CacheInv /\ CommitInv
  BY Bounds DEF LogInit, HeldInv, BootInv, HeadInv, Distinct, PinInv, CacheInv, CommitInv
<1> QED
  BY <1>2, <1>3, <1>4 DEF LogInv

-----------------------------------------------------------------------------
(* The steps, one lemma for each action.                                     *)

\* BeginOp preserves the invariant.
LEMMA BeginOpStep ==
    ASSUME LogInv, NEW p \in Procs, BeginOp(p)
    PROVE  LogInv'
<1>1. /\ LogType /\ CountInv /\ RoomInv /\ HeldInv /\ BootInv /\ HeadInv
      /\ PinInv /\ CacheInv /\ CommitInv
  BY DEF LogInv
<1>2. /\ pc[p] \in {"user", "woken"}
      /\ \/ /\ pc' = [pc EXCEPT ![p] = "asleep"] /\ UNCHANGED <<outstanding, writes>>
         \/ /\ ~committing /\ ~NoRoom
            /\ pc' = [pc EXCEPT ![p] = "op"] /\ outstanding' = outstanding + 1
            /\ writes' = [writes EXCEPT ![p] = 0]
  BY DEF BeginOp
<1>3. UNCHANGED <<home, dlog, dhead, cache, pins, lh, committing, tail, held, boot, panicked>>
      /\ boot = "up"
  BY DEF BeginOp, diskVars, cacheVars
<1>4. LogType'
  <2>1. pc' \in [Procs -> LogLabels]
    BY <1>1, <1>2 DEF LogType, LogLabels
  <2>2. outstanding' \in Nat
    BY <1>1, <1>2 DEF LogType
  <2>3. writes' \in [Procs -> 0 .. OpWrites]
    BY <1>1, <1>2, Bounds DEF LogType
  <2> QED
    BY <1>1, <1>3, <2>1, <2>2, <2>3 DEF LogType
<1>5. CountInv' /\ RoomInv'
  <2>1. CASE pc' = [pc EXCEPT ![p] = "asleep"] /\ UNCHANGED <<outstanding, writes>>
    <3>1. Active' = Active /\ Reserved' = Reserved
      BY <2>1, <1>1, <1>2 DEF LogType, Active, Reserved
    <3> QED
      BY <2>1, <3>1, <1>1, <1>2, <1>3 DEF LogType, CountInv, RoomInv, CommitLabels
  <2>2. CASE /\ ~committing /\ ~NoRoom
             /\ pc' = [pc EXCEPT ![p] = "op"] /\ outstanding' = outstanding + 1
    <3>1. Active' = Active \union {p} /\ p \notin Active
      BY <2>2, <1>1, <1>2 DEF LogType, Active
    <3>2. IsFiniteSet(Active') /\ Cardinality(Active') = outstanding + 1
      BY <3>1, <1>1, FS_AddElement DEF CountInv
    <3>3. CountInv'
      BY <2>2, <3>2, <1>1, <1>2, <1>3 DEF LogType, CountInv, CommitLabels
    <3>4. Reserved' \in SUBSET (Active' \X (1 .. MAXOPBLOCKS))
      BY DEF Reserved
    <3>5. Cardinality(Reserved') \in Nat /\ Cardinality(Reserved') <= (outstanding + 1) * MAXOPBLOCKS
      BY <3>2, <3>4, ReservationBound
    <3>6. Len(lh) + (outstanding + 1) * MAXOPBLOCKS <= LOGSIZE
      BY <2>2, <1>1, Bounds DEF NoRoom, LogType
    <3> QED
      BY <3>3, <3>5, <3>6, <1>1, <1>3, Bounds DEF RoomInv, LogType
  <2> QED
    BY <1>2, <2>1, <2>2
<1>6. /\ \A q \in Procs : pc'[q] \in CommitLabels \union {"modified"} =>
                              pc'[q] = pc[q] /\ writes'[q] = writes[q]
      /\ \A q \in Procs : pc[q] \in CommitLabels \union {"modified"} => pc'[q] = pc[q]
  BY <1>1, <1>2 DEF LogType, CommitLabels
<1>7. HeldInv' /\ BootInv' /\ HeadInv'
  BY <1>1, <1>3, <1>6 DEF HeldInv, BootInv, HeadInv, CommitLabels
<1>8. \A i : Installed(i)' <=> Installed(i)
  BY <1>3, <1>6 DEF Installed, CommitLabels
<1>9. PinInv'
  BY <1>1, <1>3, <1>8 DEF PinInv
<1>10. CacheInv'
  BY <1>1, <1>3, <1>6 DEF CacheInv, Survives, CommitLabels
<1>11. CommitInv'
  BY <1>1, <1>3, <1>6 DEF CommitInv, CommitLabels
<1> QED
  BY <1>4, <1>5, <1>7, <1>9, <1>10, <1>11 DEF LogInv

\* Modify preserves the invariant.
LEMMA ModifyStep ==
    ASSUME LogInv, NEW p \in Procs, NEW b \in Blocks, NEW v \in Values, Modify(p, b, v)
    PROVE  LogInv'
<1>1. /\ LogType /\ CountInv /\ RoomInv /\ HeldInv /\ BootInv /\ HeadInv
      /\ PinInv /\ CacheInv /\ CommitInv
  BY DEF LogInv
<1>2. /\ pc[p] = "op" /\ writes[p] < OpWrites /\ (\A q \in Procs : held[q] # b)
      /\ cache' = [cache EXCEPT ![b] = v] /\ held' = [held EXCEPT ![p] = b]
      /\ pc' = [pc EXCEPT ![p] = "modified"]
      /\ UNCHANGED <<home, dlog, dhead, pins, lh, outstanding, committing, tail, writes, boot, panicked>>
  BY DEF Modify, diskVars, logVars
<1>3. v # NoBuf /\ b # NoBuf
  BY LogAssumption
<1>4. LogType'
  <2>1. /\ pc' \in [Procs -> LogLabels] /\ cache' \in [Blocks -> Values \union {NoBuf}]
        /\ held' \in [Procs -> Blocks \union {NoBuf}]
    BY <1>1, <1>2 DEF LogType, LogLabels
  <2> QED
    BY <1>1, <1>2, <2>1 DEF LogType
<1>5. Active' = Active /\ Reserved' = Reserved
  BY <1>1, <1>2 DEF LogType, Active, Reserved
<1>6. CountInv' /\ RoomInv'
  BY <1>1, <1>2, <1>5 DEF LogType, CountInv, RoomInv, CommitLabels
<1>7. \A q \in Procs : pc[q] \notin CommitLabels
  BY <1>1, <1>2 DEF CountInv, Active
<1>8. /\ \A q \in Procs : pc'[q] \notin CommitLabels
      /\ \A q \in Procs : q # p => pc'[q] = pc[q] /\ held'[q] = held[q]
      /\ pc'[p] = "modified" /\ held'[p] = b /\ boot = "up"
  BY <1>1, <1>2, <1>7 DEF LogType, BootInv, CommitLabels
<1>9. HeldInv' /\ BootInv' /\ HeadInv'
  BY <1>1, <1>2, <1>3, <1>7, <1>8 DEF HeldInv, BootInv, HeadInv, CommitLabels
<1>10. \A i : Installed(i)' <=> Installed(i)
  BY <1>7, <1>8 DEF Installed, CommitLabels
<1>11. PinInv'
  BY <1>1, <1>2, <1>10 DEF PinInv
<1>12. CacheInv'
  <2>1. Survives' = Survives
    BY <1>2 DEF Survives
  <2>2. \A q \in Procs : pc'[q] = "modified" => cache'[held'[q]] # NoBuf
    BY <1>1, <1>2, <1>3, <1>8 DEF CacheInv, LogType
  <2>3. \A k \in Blocks : (k = b \/ cache'[k] = cache[k]) /\ (cache'[k] = NoBuf => cache[k] = NoBuf)
    BY <1>1, <1>2, <1>3 DEF LogType
  <2>4. \A k \in Blocks : k # b /\ (\A q \in Procs : held'[q] # k) => (\A q \in Procs : held[q] # k)
    BY <1>1, <1>2, <1>8, LogAssumption DEF HeldInv
  <2> QED
    BY <1>1, <1>2, <1>8, <2>1, <2>2, <2>3, <2>4 DEF CacheInv
<1>13. CommitInv'
  BY <1>8 DEF CommitInv, CommitLabels
<1> QED
  BY <1>4, <1>6, <1>9, <1>11, <1>12, <1>13 DEF LogInv

\* LogWrite preserves the invariant.
LEMMA LogWriteStep ==
    ASSUME LogInv, NEW p \in Procs, LogWrite(p)
    PROVE  LogInv'
<1>1. /\ LogType /\ CountInv /\ RoomInv /\ HeldInv /\ BootInv /\ HeadInv
      /\ PinInv /\ CacheInv /\ CommitInv
  BY DEF LogInv
<1> DEFINE b == held[p]
           r == <<p, writes[p] + 1>>
<1>2. pc[p] = "modified" /\ writes[p] \in Nat /\ writes[p] < OpWrites /\ b \in Blocks
  BY <1>1, Bounds DEF LogWrite, HeldInv, LogType
<1>3. p \in Active /\ r \in Reserved
  BY <1>1, <1>2, Bounds DEF Active, Reserved, LogType
<1>4. IsFiniteSet(Reserved) /\ Cardinality(Reserved) \in Nat /\ Cardinality(Active) \in Nat
  <2>1. Reserved \in SUBSET (Active \X (1 .. MAXOPBLOCKS))
    BY DEF Reserved
  <2> QED
    BY <2>1, <1>1, ReservationBound DEF CountInv
<1>5. Cardinality(Reserved) >= 1 /\ Cardinality(Active) >= 1
  BY <1>1, <1>3, <1>4, FS_EmptySet DEF CountInv
<1>6. Len(lh) < LOGSIZE /\ Len(lh) < LogBlocks - 1 /\ outstanding >= 1
  BY <1>1, <1>4, <1>5, Bounds DEF CountInv, RoomInv, LogType
<1>7. /\ lh' = Absorb(b).lh /\ pins' = Absorb(b).pins
      /\ pc' = [pc EXCEPT ![p] = "op"] /\ held' = [held EXCEPT ![p] = NoBuf]
      /\ writes' = [writes EXCEPT ![p] = @ + 1]
      /\ UNCHANGED <<home, dlog, dhead, cache, outstanding, committing, tail, boot, panicked>>
  <2>1. ~(Len(lh) >= LOGSIZE \/ Len(lh) >= LogBlocks - 1 \/ outstanding < 1)
    BY <1>1, <1>6, Bounds DEF LogType
  <2> QED
    BY <2>1 DEF LogWrite, diskVars
<1>8. \A q \in Procs : pc[q] \notin CommitLabels
  BY <1>1, <1>3 DEF CountInv
<1>9. /\ \A q \in Procs : pc'[q] \notin CommitLabels
      /\ \A q \in Procs : q # p => pc'[q] = pc[q] /\ held'[q] = held[q] /\ writes'[q] = writes[q]
      /\ pc'[p] = "op" /\ held'[p] = NoBuf /\ writes'[p] = writes[p] + 1 /\ boot = "up"
  BY <1>1, <1>2, <1>7, <1>8 DEF LogType, BootInv, CommitLabels
<1>10. \A i : ~Installed(i) /\ ~Installed(i)'
  BY <1>8, <1>9 DEF Installed, CommitLabels
<1>11. \/ (\E i \in DOMAIN lh : lh[i] = b) /\ lh' = lh /\ pins' = pins
       \/ (\A i \in DOMAIN lh : lh[i] # b) /\ lh' = Append(lh, b) /\ pins' = [pins EXCEPT ![b] = 1]
  <2>1. CASE Logged(b)
    BY <2>1, <1>7 DEF Absorb, Logged
  <2>2. CASE ~Logged(b)
    <3>1. pins[b] # 1
      BY <2>2, <1>1, <1>2, <1>9 DEF PinInv, Logged
    <3>2. pins[b] = 0
      BY <3>1, <1>1, <1>2 DEF LogType
    <3>3. lh' = Append(lh, b) /\ pins' = [pins EXCEPT ![b] = pins[b] + 1]
      BY <2>2, <1>7 DEF Absorb
    <3> QED
      BY <2>2, <3>2, <3>3 DEF Logged
  <2> QED
    BY <2>1, <2>2
<1>12. LogType'
  <2>1. lh \in Seq(Blocks) /\ Append(lh, b) \in Seq(Blocks)
    BY <1>1, <1>2, AppendIs DEF LogType
  <2>4. lh' \in Seq(Blocks)
    BY <1>11, <2>1
  <2>5. pins' \in [Blocks -> {0, 1}]
    BY <1>1, <1>2, <1>11 DEF LogType
  <2>2. pc' \in [Procs -> LogLabels] /\ held' \in [Procs -> Blocks \union {NoBuf}]
    BY <1>1, <1>7 DEF LogType, LogLabels
  <2>3. writes' \in [Procs -> 0 .. OpWrites]
    BY <1>1, <1>2, <1>7, Bounds DEF LogType
  <2> QED
    BY <1>1, <1>7, <2>4, <2>5, <2>2, <2>3 DEF LogType
<1>13. Active' = Active
  BY <1>2, <1>9 DEF Active
<1>14. CountInv'
  BY <1>1, <1>7, <1>9, <1>13 DEF CountInv
<1>15. RoomInv'
  <2>1. Reserved' = Reserved \ {r}
    BY <1>1, <1>2, <1>3, <1>9, <1>13, Bounds DEF Reserved, LogType
  <2>2. Cardinality(Reserved') = Cardinality(Reserved) - 1
    BY <1>3, <1>4, <2>1, FS_RemoveElement
  <2>3. Len(lh') <= Len(lh) + 1
    BY <1>1, <1>2, <1>11 DEF LogType
  <2>4. Len(lh') \in Nat /\ Len(lh) \in Nat
    BY <1>1, <1>12 DEF LogType
  <2> QED
    BY <1>1, <1>4, <2>2, <2>3, <2>4, Bounds DEF RoomInv
<1>16. HeldInv' /\ BootInv'
  BY <1>1, <1>7, <1>9 DEF HeldInv, BootInv
<1>17. HeadInv'
  <2>1. Distinct(lh')
    <3>1. CASE lh' = lh
      BY <3>1, <1>1 DEF HeadInv
    <3>2. CASE lh' = Append(lh, b) /\ \A i \in DOMAIN lh : lh[i] # b
      <4>1. lh \in Seq(Blocks) /\ \A i, j \in DOMAIN lh : lh[i] = lh[j] => i = j
        BY <1>1 DEF LogType, HeadInv, Distinct
      <4>2. \A i \in DOMAIN lh' : i = Len(lh) + 1 \/ i \in DOMAIN lh
        BY <3>2, <4>1, <1>2, AppendIs
      <4> QED
        BY <3>2, <4>1, <4>2, <1>2, AppendIs DEF Distinct
    <3> QED
      BY <1>11, <3>1, <3>2
  <2> QED
    BY <1>1, <1>7, <1>8, <1>9, <2>1 DEF HeadInv, CommitLabels
<1>18. PinInv'
  <2> SUFFICES ASSUME NEW k \in Blocks
               PROVE  pins'[k] = 1 <=> \E i \in DOMAIN lh' : lh'[i] = k
    BY <1>10 DEF PinInv
  <2>1. pins[k] = 1 <=> \E i \in DOMAIN lh : lh[i] = k
    BY <1>1, <1>9, <1>10 DEF PinInv
  <2>2. CASE lh' = lh /\ pins' = pins
    BY <2>1, <2>2
  <2>3. CASE lh' = Append(lh, b) /\ pins' = [pins EXCEPT ![b] = 1]
    <3>1. CASE k = b
      <4>1. lh \in Seq(Blocks) /\ pins'[k] = 1
        BY <3>1, <2>3, <1>1, <1>2 DEF LogType
      <4>2. Len(lh) + 1 \in DOMAIN lh' /\ lh'[Len(lh) + 1] = k
        BY <3>1, <2>3, <4>1, <1>2, AppendIs
      <4> QED
        BY <4>1, <4>2
    <3>2. CASE k # b
      <4>1. lh \in Seq(Blocks) /\ pins'[k] = pins[k]
        BY <3>2, <2>3, <1>1, <1>2 DEF LogType
      <4>2. \A i \in DOMAIN lh' : i = Len(lh) + 1 \/ i \in DOMAIN lh
        BY <2>3, <4>1, <1>2, AppendIs
      <4> QED
        BY <3>2, <2>1, <2>3, <4>1, <4>2, <1>2, AppendIs
    <3> QED
      BY <3>1, <3>2
  <2> QED
    BY <1>11, <2>2, <2>3
<1>19. CacheInv'
  <2>1. Survives' = Survives
    BY <1>7 DEF Survives
  <2>2. pins'[b] = 1 /\ \A k \in Blocks : k # b => pins'[k] = pins[k]
    BY <1>1, <1>2, <1>9, <1>10, <1>11 DEF PinInv, LogType
  <2>3. cache[b] # NoBuf
    BY <1>1, <1>2 DEF CacheInv
  <2> QED
    BY <1>1, <1>7, <1>9, <2>1, <2>2, <2>3 DEF CacheInv
<1>20. CommitInv'
  BY <1>9 DEF CommitInv, CommitLabels
<1> QED
  BY <1>12, <1>14, <1>15, <1>16, <1>17, <1>18, <1>19, <1>20 DEF LogInv

\* wakeup(&log) only moves sleeping calls.
LEMMA WakeIs ==
    ASSUME NEW f \in [Procs -> LogLabels]
    PROVE  /\ WakeLog(f) \in [Procs -> LogLabels]
           /\ \A q \in Procs : /\ WakeLog(f)[q] # "asleep"
                               /\ WakeLog(f)[q] = f[q] \/ (f[q] = "asleep" /\ WakeLog(f)[q] = "woken")
  BY DEF WakeLog, LogLabels

\* EndOp preserves the invariant.
LEMMA EndOpStep ==
    ASSUME LogInv, NEW p \in Procs, EndOp(p)
    PROVE  LogInv'
<1>1. /\ LogType /\ CountInv /\ RoomInv /\ HeldInv /\ BootInv /\ HeadInv
      /\ PinInv /\ CacheInv /\ CommitInv
  BY DEF LogInv
<1>2. pc[p] = "op" /\ p \in Active /\ outstanding' = outstanding - 1
      /\ UNCHANGED <<home, dlog, dhead, cache, pins, lh, tail, held, writes, boot>>
  BY DEF EndOp, Active, diskVars, cacheVars
<1>3. ~committing
  BY <1>1, <1>2 DEF CountInv
<1>4. /\ panicked' = panicked
      /\ \/ outstanding = 1 /\ committing' = TRUE /\ pc' = [pc EXCEPT ![p] = "commit"]
         \/ outstanding # 1 /\ committing' = committing /\ pc' = WakeLog([pc EXCEPT ![p] = "user"])
  BY <1>3 DEF EndOp
<1>5. IsFiniteSet(Active \ {p}) /\ Cardinality(Active \ {p}) = outstanding - 1
  BY <1>1, <1>2, FS_RemoveElement DEF CountInv
<1>6. outstanding - 1 \in Nat
  BY <1>5, FS_CardinalityType
<1>7. /\ pc' \in [Procs -> LogLabels]
      /\ \A q \in Procs : q # p => pc'[q] = pc[q] \/ (pc[q] = "asleep" /\ pc'[q] = "woken")
      /\ pc'[p] \in {"user", "commit"} /\ (pc'[p] = "commit" <=> outstanding = 1)
  <2>1. CASE outstanding = 1 /\ pc' = [pc EXCEPT ![p] = "commit"]
    BY <2>1, <1>1 DEF LogType, LogLabels, CommitLabels
  <2>2. CASE outstanding # 1 /\ pc' = WakeLog([pc EXCEPT ![p] = "user"])
    <3> DEFINE f == [pc EXCEPT ![p] = "user"]
    <3>1. f \in [Procs -> LogLabels] /\ f[p] = "user" /\ \A q \in Procs : q # p => f[q] = pc[q]
      BY <1>1 DEF LogType, LogLabels
    <3>2. pc' = WakeLog(f)
      BY <2>2
    <3> HIDE DEF f
    <3>3. pc' \in [Procs -> LogLabels] /\ \A q \in Procs :
              pc'[q] = f[q] \/ (f[q] = "asleep" /\ pc'[q] = "woken")
      BY <3>1, <3>2, WakeIs
    <3> QED
      BY <2>2, <3>1, <3>3
  <2> QED
    BY <1>4, <2>1, <2>2
<1>8. \A q \in Procs : q # p => pc'[q] = pc[q] \/ (pc[q] = "asleep" /\ pc'[q] = "woken")
  BY <1>7
<1>9. /\ pc'[p] \in {"user", "commit"} /\ (pc'[p] = "commit" <=> outstanding = 1)
      /\ committing' \in BOOLEAN /\ (committing' <=> outstanding = 1)
  <2>1. committing = FALSE
    BY <1>1, <1>3 DEF LogType
  <2> QED
    BY <1>4, <1>7, <2>1
<1>10. LogType'
  BY <1>1, <1>2, <1>4, <1>6, <1>7, <1>9 DEF LogType
<1>11. Active' = Active \ {p}
  BY <1>8, <1>9 DEF Active
<1>12. CountInv'
  <2>1. outstanding = 1 => Active' = {}
    BY <1>5, <1>11, FS_EmptySet
  <2> QED
    BY <1>1, <1>2, <1>3, <1>5, <1>8, <1>9, <1>11, <2>1 DEF CountInv, CommitLabels
<1>13. RoomInv'
  <2>1. Reserved \in SUBSET (Active \X (1 .. MAXOPBLOCKS)) /\ Reserved' \in SUBSET Reserved
    BY <1>2, <1>11 DEF Reserved
  <2>2. IsFiniteSet(Reserved) /\ Cardinality(Reserved) \in Nat
    BY <2>1, <1>1, ReservationBound DEF CountInv
  <2>3. Cardinality(Reserved') \in Nat /\ Cardinality(Reserved') <= Cardinality(Reserved)
    BY <2>1, <2>2, FS_Subset, FS_CardinalityType
  <2> QED
    BY <1>1, <1>2, <2>2, <2>3, Bounds DEF RoomInv, LogType
<1>14. /\ \A q \in Procs : pc[q] \notin CommitLabels /\ pc'[q] \notin CommitLabels \ {"commit"}
       /\ \A q \in Procs : pc'[q] = "modified" <=> pc[q] = "modified"
       /\ boot = "up"
  BY <1>1, <1>2, <1>3, <1>8, <1>9 DEF CountInv, BootInv, CommitLabels
<1>15. HeldInv' /\ BootInv' /\ HeadInv'
  BY <1>1, <1>2, <1>14 DEF HeldInv, BootInv, HeadInv, CommitLabels
<1>16. \A i : ~Installed(i) /\ ~Installed(i)'
  BY <1>14 DEF Installed, CommitLabels
<1>17. PinInv'
  BY <1>1, <1>2, <1>16 DEF PinInv
<1>18. CacheInv'
  BY <1>1, <1>2, <1>14 DEF CacheInv, Survives
<1>19. CommitInv'
  BY <1>14 DEF CommitInv, CommitLabels
<1> QED
  BY <1>10, <1>12, <1>13, <1>15, <1>17, <1>18, <1>19 DEF LogInv

\* A process in commit is alone: no call is active, nothing is held and nobody
\* else commits.
LEMMA CommitterAlone ==
    ASSUME LogInv, NEW p \in Procs, pc[p] \in CommitLabels
    PROVE  /\ committing /\ Active = {} /\ boot = "up"
           /\ \A q \in Procs : held[q] = NoBuf /\ pc[q] \notin {"op", "modified"}
           /\ \A q \in Procs : q # p => pc[q] \notin CommitLabels
           /\ Reserved = {} /\ Len(lh) <= LOGSIZE /\ DOMAIN lh = 1 .. Len(lh) /\ Len(lh) \in Nat
<1>1. /\ LogType /\ CountInv /\ RoomInv /\ HeldInv /\ BootInv
  BY DEF LogInv
<1>2. committing /\ Active = {} /\ boot = "up"
  BY <1>1 DEF CountInv, BootInv, CommitLabels
<1>3. \A q \in Procs : held[q] = NoBuf /\ pc[q] \notin {"op", "modified"}
  BY <1>1, <1>2 DEF HeldInv, Active
<1>4. Reserved = {}
  BY <1>2 DEF Reserved
<1>5. Len(lh) <= LOGSIZE /\ DOMAIN lh = 1 .. Len(lh) /\ Len(lh) \in Nat
  BY <1>1, <1>4, FS_EmptySet, Bounds DEF RoomInv, LogType
<1> QED
  BY <1>1, <1>2, <1>3, <1>4, <1>5 DEF CountInv

\* What a step of a commit keeps as long as it stays a commit, changes neither
\* the transaction nor the counters: the counts, the room, the held buffers.
LEMMA CommitFrame ==
    ASSUME LogInv, NEW p \in Procs, pc[p] \in CommitLabels, NEW label \in CommitLabels,
           pc' = [pc EXCEPT ![p] = label], lh' = lh \/ lh' = <<>>,
           UNCHANGED <<outstanding, committing, held, writes, boot, panicked>>
    PROVE  /\ pc' \in [Procs -> LogLabels] /\ CountInv' /\ RoomInv' /\ HeldInv' /\ BootInv'
           /\ pc'[p] = label /\ \A q \in Procs : q # p => pc'[q] = pc[q] /\ pc'[q] \notin CommitLabels
<1>1. /\ LogType /\ CountInv /\ RoomInv /\ HeldInv /\ BootInv
  BY DEF LogInv
<1>2. /\ pc' \in [Procs -> LogLabels] /\ pc'[p] = label
      /\ \A q \in Procs : q # p => pc'[q] = pc[q] /\ pc'[q] \notin CommitLabels
  BY <1>1, CommitterAlone DEF LogType, LogLabels
<1>3. Active' = {} /\ Active = {} /\ Reserved' = {} /\ Reserved = {}
  <2>1. Active' = {}
    BY <1>2, CommitterAlone DEF Active, CommitLabels
  <2> QED
    BY <2>1, CommitterAlone DEF Reserved
<1>4. CountInv'
  BY <1>1, <1>2, <1>3, CommitterAlone DEF CountInv
<1>5. RoomInv'
  BY <1>1, <1>3, CommitterAlone, FS_EmptySet, Bounds DEF RoomInv
<1>6. HeldInv' /\ BootInv'
  BY <1>1, <1>2, CommitterAlone DEF HeldInv, BootInv, CommitLabels
<1> QED
  BY <1>2, <1>4, <1>5, <1>6

\* CommitStart preserves the invariant.
LEMMA CommitStartStep ==
    ASSUME LogInv, NEW p \in Procs, CommitStart(p)
    PROVE  LogInv'
<1>1. /\ LogType /\ HeadInv /\ PinInv /\ CacheInv /\ CommitInv
  BY DEF LogInv
<1>2. PICK label \in {"finish", "write_log"} :
         /\ pc[p] = "commit" /\ (label = "finish" => lh = <<>>)
         /\ pc' = [pc EXCEPT ![p] = label] /\ tail' = 1
         /\ UNCHANGED <<home, dlog, dhead, cache, pins, lh, outstanding, committing, held,
                        writes, boot, panicked>>
  BY DEF CommitStart, diskVars, cacheVars
<1>3. /\ pc' \in [Procs -> LogLabels] /\ CountInv' /\ RoomInv' /\ HeldInv' /\ BootInv'
      /\ pc'[p] = label /\ \A q \in Procs : q # p => pc'[q] = pc[q] /\ pc'[q] \notin CommitLabels
  BY <1>2, CommitFrame DEF CommitLabels
<1>4. LogType'
  BY <1>1, <1>2, <1>3 DEF LogType
<1>5. HeadInv'
  BY <1>1, <1>2, <1>3, CommitterAlone DEF HeadInv, CommitLabels
<1>6. PinInv'
  <2>1. \A i : ~Installed(i)
    BY <1>2, CommitterAlone DEF Installed, CommitLabels
  <2>2. \A i \in DOMAIN lh : ~Installed(i)'
    BY <1>2, <1>3, CommitterAlone DEF Installed, CommitLabels
  <2> QED
    BY <1>1, <1>2, <2>1, <2>2 DEF PinInv
<1>7. CacheInv'
  BY <1>1, <1>2, <1>3, CommitterAlone DEF CacheInv, Survives, CommitLabels
<1>8. CommitInv'
  BY <1>1, <1>2, <1>3, CommitterAlone DEF CommitInv, CommitLabels
<1> QED
  BY <1>3, <1>4, <1>5, <1>6, <1>7, <1>8 DEF LogInv

\* write_log preserves the invariant and neither the cache nor what survives changes.
LEMMA WriteLogStep ==
    ASSUME LogInv, NEW p \in Procs, WriteLog(p)
    PROVE  LogInv' /\ Survives' = Survives /\ cache' = cache
<1>1. /\ LogType /\ HeadInv /\ PinInv /\ CacheInv /\ CommitInv
  BY DEF LogInv
<1>2. /\ pc[p] = "write_log" /\ pc[p] \in CommitLabels /\ dhead = <<>> /\ tail \in Nat /\ tail >= 1
      /\ UNCHANGED <<home, dhead, pins, lh, outstanding, committing, held, writes, boot, panicked>>
  <2>1. pc[p] = "write_log" /\ pc[p] \in CommitLabels
    BY DEF WriteLog, CommitLabels
  <2>2. \A q \in Procs : pc[q] \notin {"install", "clear"}
    BY <2>1, CommitterAlone DEF CommitLabels
  <2> QED
    BY <2>1, <2>2, <1>1, CommitterAlone DEF WriteLog, HeadInv, LogType
<1>3. Survives' = Survives
  BY <1>2 DEF Survives
<1>4. PICK label \in {"write_log", "write_head"} : pc' = [pc EXCEPT ![p] = label]
          /\ (label = "write_log" => tail <= Len(lh)) /\ (label = "write_head" => tail > Len(lh))
  BY <1>1, <1>2 DEF WriteLog, LogType
<1>5. /\ pc' \in [Procs -> LogLabels] /\ CountInv' /\ RoomInv' /\ HeldInv' /\ BootInv'
      /\ pc'[p] = label /\ \A q \in Procs : q # p => pc'[q] = pc[q] /\ pc'[q] \notin CommitLabels
  BY <1>2, <1>4, CommitFrame DEF CommitLabels
<1>6. \A i : ~Installed(i) /\ ~Installed(i)'
  BY <1>2, <1>4, <1>5, CommitterAlone DEF Installed, CommitLabels
<1>7. PinInv'
  BY <1>1, <1>2, <1>6 DEF PinInv
<1>8. \A i \in DOMAIN lh : lh[i] \in Blocks /\ cache[lh[i]] # NoBuf
  BY <1>1, <1>2, <1>6, CommitterAlone DEF PinInv, CacheInv, LogType
<1>9. HeadInv'
  BY <1>1, <1>2, <1>4, <1>5 DEF HeadInv, CommitLabels
<1>10. cache' = cache
  <2>1. CASE tail <= Len(lh)
    <3>1. tail \in DOMAIN lh
      BY <2>1, <1>2, CommitterAlone
    <3>2. Contents(lh[tail]) = cache[lh[tail]]
      BY <3>1, <1>8 DEF Contents
    <3>3. cache' = [cache EXCEPT ![lh[tail]] = cache[lh[tail]]]
      BY <2>1, <3>2 DEF WriteLog
    <3> QED
      BY <3>1, <3>3, <1>1, <1>8 DEF LogType
  <2>2. CASE ~(tail <= Len(lh))
    BY <2>2 DEF WriteLog
  <2> QED
    BY <2>1, <2>2
<1>11. CacheInv'
  BY <1>1, <1>2, <1>3, <1>4, <1>5, <1>10, CommitterAlone DEF CacheInv, CommitLabels
<1>12. LogType' /\ CommitInv'
  <2>1. CASE tail <= Len(lh)
    <3>1. tail \in DOMAIN lh /\ tail \in LogSlots
      BY <2>1, <1>2, CommitterAlone, Bounds DEF LogSlots
    <3>2. dlog' = [dlog EXCEPT ![tail] = cache[lh[tail]]] /\ tail' = tail + 1 /\ label = "write_log"
      BY <2>1, <3>1, <1>1, <1>2, <1>4, <1>8 DEF WriteLog, Contents, LogType
    <3>3. dlog' \in [LogSlots -> Values] /\ tail' \in Nat \ {0}
      BY <3>1, <3>2, <1>1, <1>2, <1>8 DEF LogType
    <3>4. LogType'
      BY <3>3, <1>1, <1>2, <1>5, <1>10 DEF LogType
    <3>5. /\ tail' <= Len(lh) + 1
          /\ \A i \in DOMAIN lh : i < tail' => dlog'[i] = cache[lh[i]]
      <4>1. \A i \in DOMAIN lh : i \in LogSlots /\ i \in Nat
        BY CommitterAlone, <1>2, Bounds DEF LogSlots
      <4>2. \A i \in DOMAIN lh : i < tail => dlog[i] = cache[lh[i]]
        BY <1>1, <1>2 DEF CommitInv
      <4> QED
        BY <2>1, <3>1, <3>2, <4>1, <4>2, <1>1, <1>2, CommitterAlone DEF LogType
    <3> QED
      BY <3>2, <3>4, <3>5, <1>2, <1>5, <1>10 DEF CommitInv, CommitLabels
  <2>2. CASE ~(tail <= Len(lh))
    <3>1. UNCHANGED <<dlog, tail>> /\ label = "write_head"
      BY <2>2, <1>4 DEF WriteLog
    <3>2. \A i \in DOMAIN lh : dlog[i] = cache[lh[i]]
      BY <2>2, <1>1, <1>2, CommitterAlone DEF CommitInv
    <3> QED
      BY <3>1, <3>2, <1>1, <1>2, <1>5, <1>10 DEF LogType, CommitInv, CommitLabels
  <2> QED
    BY <2>1, <2>2
<1> QED
  BY <1>3, <1>5, <1>7, <1>9, <1>10, <1>11, <1>12 DEF LogInv

\* write_head preserves the invariant and makes what the calls see survive.
LEMMA WriteHeadStep ==
    ASSUME LogInv, NEW p \in Procs, WriteHead(p)
    PROVE  LogInv' /\ Survives' = Visible /\ Visible' = Visible
<1>1. /\ LogType /\ HeadInv /\ PinInv /\ CacheInv /\ CommitInv
  BY DEF LogInv
<1>2. /\ pc[p] = "write_head" /\ pc[p] \in CommitLabels /\ dhead = <<>>
      /\ dhead' = lh /\ tail' = 1 /\ pc' = [pc EXCEPT ![p] = "install"]
      /\ UNCHANGED <<home, dlog, cache, pins, lh, outstanding, committing, held, writes, boot, panicked>>
  <2>1. pc[p] = "write_head" /\ pc[p] \in CommitLabels
    BY DEF WriteHead, CommitLabels
  <2>2. \A q \in Procs : pc[q] \notin {"install", "clear"}
    BY <2>1, CommitterAlone DEF CommitLabels
  <2> QED
    BY <2>1, <2>2, <1>1, CommitterAlone DEF WriteHead, HeadInv, cacheVars
<1>3. /\ pc' \in [Procs -> LogLabels] /\ CountInv' /\ RoomInv' /\ HeldInv' /\ BootInv'
      /\ pc'[p] = "install" /\ \A q \in Procs : q # p => pc'[q] = pc[q] /\ pc'[q] \notin CommitLabels
  BY <1>2, CommitFrame DEF CommitLabels
<1>4. LogType'
  BY <1>1, <1>2, <1>3 DEF LogType
<1>5. HeadInv'
  BY <1>1, <1>2, <1>3, CommitterAlone DEF HeadInv, CommitLabels
<1>6. \A i \in DOMAIN lh : ~Installed(i) /\ ~Installed(i)' /\ i \in Nat /\ i >= 1
  BY <1>2, <1>3, CommitterAlone DEF Installed, CommitLabels
<1>7. PinInv'
  BY <1>1, <1>2, <1>6 DEF PinInv
<1>8. /\ \A i \in DOMAIN lh : Survives'[lh[i]] = dlog[i] /\ lh[i] \in Blocks
      /\ \A b \in Blocks : (\A i \in DOMAIN lh : lh[i] # b) => Survives'[b] = home[b]
  BY <1>1, <1>2, SurvivesIs DEF Survives, LogType, HeadInv
<1>9. \A b \in Blocks : Survives[b] = home[b]
  BY <1>1, <1>2 DEF Survives
<1>10. \A i \in DOMAIN lh : dlog[i] = cache[lh[i]] /\ cache[lh[i]] # NoBuf
  BY <1>1, <1>2, <1>6, <1>8, CommitterAlone DEF CommitInv, PinInv, CacheInv
<1>11. \A b \in Blocks : (\A i \in DOMAIN lh : lh[i] # b) => cache[b] = NoBuf \/ cache[b] = home[b]
  <2>1. \A b \in Blocks : (\A i \in DOMAIN lh : lh[i] # b) => pins[b] = 0
    BY <1>1, <1>2, CommitterAlone DEF PinInv, LogType
  <2> QED
    BY <1>1, <1>2, <1>9, <2>1, CommitterAlone, LogAssumption DEF CacheInv
<1>12. \A b \in Blocks : Survives'[b] = Visible[b] /\ Visible'[b] = Visible[b]
  BY <1>2, <1>8, <1>9, <1>10, <1>11 DEF Visible
<1>13. CacheInv'
  BY <1>1, <1>2, <1>3, <1>8, <1>9, <1>10, <1>11, CommitterAlone DEF CacheInv, CommitLabels
<1>14. CommitInv'
  BY <1>2, <1>3, <1>6, <1>10, CommitterAlone DEF CommitInv, CommitLabels
<1>15. Survives' = Visible /\ Visible' = Visible
  BY <1>12 DEF Survives, Visible
<1> QED
  BY <1>3, <1>4, <1>5, <1>7, <1>13, <1>14, <1>15 DEF LogInv

\* install_trans preserves the invariant and nobody sees a difference.
LEMMA InstallTransStep ==
    ASSUME LogInv, NEW p \in Procs, InstallTrans(p)
    PROVE  LogInv' /\ Survives' = Survives /\ Visible' = Visible
<1>1. /\ LogType /\ HeadInv /\ PinInv /\ CacheInv /\ CommitInv
  BY DEF LogInv
<1>2. /\ pc[p] = "install" /\ pc[p] \in CommitLabels /\ dhead = lh /\ tail \in Nat /\ tail >= 1
      /\ UNCHANGED <<dlog, dhead, lh, outstanding, committing, held, writes, boot, panicked>>
  BY <1>1 DEF InstallTrans, CommitLabels, HeadInv, LogType
<1>3. \A i \in DOMAIN lh : lh[i] \in Blocks /\ i \in Nat /\ i >= 1 /\ i \in LogSlots
  BY <1>1, <1>2, CommitterAlone, Bounds DEF LogType, LogSlots
<1>4. \A i \in DOMAIN lh : IF i < tail THEN home[lh[i]] = dlog[i] ELSE dlog[i] = cache[lh[i]]
  BY <1>1, <1>2 DEF CommitInv
<1>5. /\ \A i \in DOMAIN lh : Survives[lh[i]] = dlog[i]
      /\ \A b \in Blocks : (\A i \in DOMAIN lh : lh[i] # b) => Survives[b] = home[b]
  BY <1>1, <1>2, SurvivesIs DEF Survives, LogType, HeadInv
<1>6. CASE InstallOne(TRUE) /\ UNCHANGED pc
  <2> DEFINE b == lh[tail]
  <2>1. /\ tail <= Len(lh) /\ tail' = tail + 1 /\ tail \in DOMAIN lh /\ b \in Blocks
        /\ cache' = [cache EXCEPT ![b] = dlog[tail]] /\ home' = [home EXCEPT ![b] = dlog[tail]]
        /\ pins' = [pins EXCEPT ![b] = pins[b] - 1] /\ pc' = pc
    BY <1>2, <1>3, <1>6, CommitterAlone DEF InstallOne
  <2>2. \A i \in DOMAIN lh : (Installed(i) <=> i < tail) /\ (Installed(i)' <=> i < tail + 1)
    BY <1>2, <2>1, CommitterAlone DEF Installed, CommitLabels
  <2>3. pins[b] = 1 /\ cache[b] = dlog[tail] /\ cache[b] # NoBuf
    BY <1>1, <1>2, <1>4, <2>1, <2>2, CommitterAlone DEF PinInv, CacheInv
  <2>4. /\ cache' = cache /\ home'[b] = dlog[tail] /\ pins'[b] = 0
        /\ \A k \in Blocks : k # b => home'[k] = home[k] /\ pins'[k] = pins[k]
    BY <1>1, <2>1, <2>3 DEF LogType
  <2>5. LogType'
    <3>1. dlog[tail] \in Values
      BY <1>1, <1>3, <2>1 DEF LogType
    <3>2. home' \in [Blocks -> Values] /\ pins' \in [Blocks -> {0, 1}]
      BY <1>1, <2>1, <2>3, <3>1 DEF LogType
    <3> QED
      BY <1>1, <1>2, <2>1, <2>4, <3>2 DEF LogType
  <2>6. CountInv' /\ RoomInv' /\ HeldInv' /\ BootInv'
    <3>1. pc' = [pc EXCEPT ![p] = "install"]
      BY <1>1, <1>2, <2>1 DEF LogType
    <3> QED
      BY <1>2, <3>1, CommitFrame DEF CommitLabels
  <2>7. HeadInv'
    BY <1>1, <1>2, <2>1 DEF HeadInv
  <2>8. PinInv'
    <3> SUFFICES ASSUME NEW k \in Blocks
                 PROVE  pins'[k] = 1 <=> \E i \in DOMAIN lh : lh[i] = k /\ ~(i < tail + 1)
      BY <1>2, <2>2 DEF PinInv
    <3>1. pins[k] = 1 <=> \E i \in DOMAIN lh : lh[i] = k /\ ~(i < tail)
      BY <1>1, <1>2, <2>2, CommitterAlone DEF PinInv
    <3>2. CASE k = b
      BY <3>2, <2>1, <2>4, <1>1, <1>2, <1>3 DEF HeadInv, Distinct
    <3>3. CASE k # b
      BY <3>1, <3>3, <2>1, <2>4, <1>2, <1>3
    <3> QED
      BY <3>2, <3>3
  <2>9. /\ \A i \in DOMAIN lh : Survives'[lh[i]] = dlog[i]
        /\ \A k \in Blocks : (\A i \in DOMAIN lh : lh[i] # k) => Survives'[k] = home'[k]
    BY <2>5, <2>7, <1>2, SurvivesIs DEF Survives, LogType, HeadInv
  <2>10. Survives' = Survives
    <3>1. \A k \in Blocks : Survives'[k] = Survives[k]
      BY <1>5, <2>1, <2>4, <2>9
    <3> QED
      BY <3>1 DEF Survives
  <2>11. CacheInv'
    BY <1>1, <1>2, <1>5, <2>1, <2>3, <2>4, <2>10, CommitterAlone DEF CacheInv, CommitLabels
  <2>12. CommitInv'
    <3>1. \A i \in DOMAIN lh : IF i < tail + 1 THEN home'[lh[i]] = dlog[i] ELSE dlog[i] = cache[lh[i]]
      BY <1>1, <1>2, <1>3, <1>4, <2>1, <2>4 DEF HeadInv, Distinct
    <3> QED
      BY <1>2, <2>1, <2>4, <3>1, CommitterAlone DEF CommitInv, CommitLabels
  <2> QED
    BY <2>4, <2>5, <2>6, <2>7, <2>8, <2>10, <2>11, <2>12 DEF LogInv, Visible
<1>7. CASE tail > Len(lh) /\ pc' = [pc EXCEPT ![p] = "clear"] /\ UNCHANGED <<cache, home, pins, tail>>
  <2>1. /\ pc' \in [Procs -> LogLabels] /\ CountInv' /\ RoomInv' /\ HeldInv' /\ BootInv'
        /\ pc'[p] = "clear" /\ \A q \in Procs : q # p => pc'[q] = pc[q] /\ pc'[q] \notin CommitLabels
    BY <1>2, <1>7, CommitFrame DEF CommitLabels
  <2>2. LogType' /\ HeadInv' /\ Survives' = Survives
    BY <1>1, <1>2, <1>7, <2>1 DEF LogType, HeadInv, Survives, CommitLabels
  <2>3. \A i \in DOMAIN lh : Installed(i) /\ Installed(i)'
    BY <1>2, <1>3, <1>7, <2>1, CommitterAlone DEF Installed
  <2>4. PinInv'
    BY <1>1, <1>2, <1>7, <2>3 DEF PinInv
  <2>5. CacheInv'
    BY <1>1, <1>2, <1>7, <2>1, <2>2, CommitterAlone DEF CacheInv, CommitLabels
  <2>6. CommitInv'
    BY <1>2, <1>3, <1>4, <1>7, <2>1, CommitterAlone DEF CommitInv, CommitLabels
  <2> QED
    BY <1>7, <2>1, <2>2, <2>4, <2>5, <2>6 DEF LogInv, Visible
<1> QED
  BY <1>6, <1>7 DEF InstallTrans

\* Clearing the log preserves the invariant and nobody sees a difference.
LEMMA ClearLogStep ==
    ASSUME LogInv, NEW p \in Procs, ClearLog(p)
    PROVE  LogInv' /\ Survives' = Survives /\ Visible' = Visible
<1>1. /\ LogType /\ HeadInv /\ PinInv /\ CacheInv /\ CommitInv
  BY DEF LogInv
<1>2. /\ pc[p] = "clear" /\ pc[p] \in CommitLabels /\ dhead = lh
      /\ lh' = <<>> /\ dhead' = <<>> /\ dlog' = DeadLog /\ pc' = [pc EXCEPT ![p] = "finish"]
      /\ UNCHANGED <<home, cache, pins, outstanding, committing, tail, held, writes, boot, panicked>>
  BY <1>1 DEF ClearLog, CommitLabels, HeadInv, cacheVars
<1>3. /\ pc' \in [Procs -> LogLabels] /\ CountInv' /\ RoomInv' /\ HeldInv' /\ BootInv'
      /\ pc'[p] = "finish" /\ \A q \in Procs : q # p => pc'[q] = pc[q] /\ pc'[q] \notin CommitLabels
  BY <1>2, CommitFrame DEF CommitLabels
<1>4. LogType'
  <2>1. lh' \in Seq(Blocks) /\ dhead' \in Seq(Blocks)
    BY <1>2
  <2> QED
    BY <1>1, <1>2, <1>3, <2>1, DeadLogType DEF LogType
<1>5. HeadInv'
  BY <1>2, <1>3, Bounds DEF HeadInv, Distinct, CommitLabels
<1>6. \A b \in Blocks : pins[b] = 0
  <2>1. \A i \in DOMAIN lh : Installed(i)
    BY <1>2 DEF Installed
  <2> QED
    BY <1>1, <1>2, <2>1, CommitterAlone DEF PinInv, LogType
<1>7. PinInv'
  BY <1>2, <1>6 DEF PinInv
<1>8. Survives' = Survives
  <2>1. /\ \A i \in DOMAIN lh : Survives[lh[i]] = dlog[i]
        /\ \A b \in Blocks : (\A i \in DOMAIN lh : lh[i] # b) => Survives[b] = home[b]
    BY <1>1, <1>2, SurvivesIs DEF Survives, LogType, HeadInv
  <2>2. \A b \in Blocks : Survives'[b] = home[b]
    BY <1>2 DEF Survives
  <2>3. \A b \in Blocks : Survives'[b] = Survives[b]
    BY <1>1, <1>2, <2>1, <2>2 DEF CommitInv
  <2> QED
    BY <2>3 DEF Survives
<1>9. CacheInv'
  BY <1>1, <1>2, <1>3, <1>8, CommitterAlone DEF CacheInv, CommitLabels
<1>10. CommitInv'
  BY <1>3 DEF CommitInv, CommitLabels
<1> QED
  BY <1>2, <1>3, <1>4, <1>5, <1>7, <1>8, <1>9, <1>10 DEF LogInv, Visible

\* FinishCommit preserves the invariant.
LEMMA FinishCommitStep ==
    ASSUME LogInv, NEW p \in Procs, FinishCommit(p)
    PROVE  LogInv'
<1>1. /\ LogType /\ CountInv /\ RoomInv /\ HeldInv /\ BootInv /\ HeadInv
      /\ PinInv /\ CacheInv /\ CommitInv
  BY DEF LogInv
<1>2. /\ pc[p] = "finish" /\ pc[p] \in CommitLabels /\ committing' = FALSE
      /\ pc' = WakeLog([pc EXCEPT ![p] = "user"])
      /\ UNCHANGED <<home, dlog, dhead, cache, pins, lh, outstanding, tail, held, writes, boot, panicked>>
  BY DEF FinishCommit, CommitLabels, diskVars, cacheVars
<1>3. /\ pc' \in [Procs -> LogLabels] /\ pc'[p] = "user"
      /\ \A q \in Procs : q # p => pc'[q] = pc[q] \/ (pc[q] = "asleep" /\ pc'[q] = "woken")
  <2> DEFINE f == [pc EXCEPT ![p] = "user"]
  <2>1. f \in [Procs -> LogLabels] /\ f[p] = "user" /\ \A q \in Procs : q # p => f[q] = pc[q]
    BY <1>1 DEF LogType, LogLabels
  <2>2. pc' = WakeLog(f)
    BY <1>2
  <2> HIDE DEF f
  <2> QED
    BY <2>1, <2>2, WakeIs
<1>4. LogType'
  BY <1>1, <1>2, <1>3 DEF LogType
<1>5. \A q \in Procs : pc'[q] \notin CommitLabels \union {"op", "modified"}
  BY <1>2, <1>3, CommitterAlone DEF CommitLabels
<1>6. Active' = {} /\ Active = {} /\ Reserved' = {} /\ Reserved = {}
  <2>1. Active' = {}
    BY <1>5 DEF Active
  <2> QED
    BY <1>2, <2>1, CommitterAlone DEF Reserved
<1>7. CountInv' /\ RoomInv'
  BY <1>1, <1>2, <1>5, <1>6 DEF CountInv, RoomInv
<1>8. \A i \in DOMAIN lh : FALSE
  BY <1>1, <1>2 DEF HeadInv
<1>9. HeldInv' /\ BootInv' /\ PinInv'
  BY <1>1, <1>2, <1>5, <1>8, CommitterAlone DEF HeldInv, BootInv, PinInv
<1>10. HeadInv'
  <2>1. \A q \in Procs : pc[q] \notin {"install", "clear"}
    BY <1>2, CommitterAlone DEF CommitLabels
  <2> QED
    BY <1>1, <1>2, <1>5, <2>1 DEF HeadInv, CommitLabels
<1>11. CacheInv'
  <2>1. Survives' = Survives
    BY <1>2 DEF Survives
  <2> QED
    BY <1>1, <1>2, <1>5, <2>1 DEF CacheInv
<1>12. CommitInv'
  BY <1>5 DEF CommitInv, CommitLabels
<1> QED
  BY <1>4, <1>7, <1>9, <1>10, <1>11, <1>12 DEF LogInv

\* Recycling a buffer preserves the invariant and nobody sees a difference.
LEMMA RecycleStep ==
    ASSUME LogInv, NEW b \in Blocks, Recycle(b)
    PROVE  LogInv' /\ Survives' = Survives /\ Visible' = Visible
<1>1. /\ LogType /\ CountInv /\ RoomInv /\ HeldInv /\ BootInv /\ HeadInv
      /\ PinInv /\ CacheInv /\ CommitInv
  BY DEF LogInv
<1>2. /\ pins[b] = 0 /\ (\A q \in Procs : held[q] # b) /\ cache' = [cache EXCEPT ![b] = NoBuf]
      /\ UNCHANGED <<home, dlog, dhead, pins, lh, outstanding, committing, tail, pc, held, writes,
                     boot, panicked>>
  BY DEF Recycle, diskVars, logVars, procVars
<1>3. /\ cache' \in [Blocks -> Values \union {NoBuf}] /\ cache'[b] = NoBuf
      /\ \A k \in Blocks : k # b => cache'[k] = cache[k]
  BY <1>1, <1>2 DEF LogType
<1>4. LogType'
  BY <1>1, <1>2, <1>3 DEF LogType
<1>5. Active' = Active /\ Reserved' = Reserved /\ Survives' = Survives /\ \A i : Installed(i)' <=> Installed(i)
  BY <1>2 DEF Active, Reserved, Survives, Installed
<1>6. CountInv' /\ RoomInv' /\ HeldInv' /\ BootInv' /\ HeadInv' /\ PinInv'
  BY <1>1, <1>2, <1>5 DEF CountInv, RoomInv, HeldInv, BootInv, HeadInv, PinInv
<1>7. CacheInv'
  <2>1. \A q \in Procs : pc[q] = "modified" => held[q] \in Blocks /\ held[q] # b
    BY <1>1, <1>2 DEF HeldInv, LogType
  <2> QED
    BY <1>1, <1>2, <1>3, <1>5, <2>1 DEF CacheInv
<1>8. CommitInv'
  <2> SUFFICES ASSUME NEW p \in Procs, pc[p] \in {"write_log", "write_head", "install", "clear"}
               PROVE  \A i \in DOMAIN lh : cache'[lh[i]] = cache[lh[i]] \/ pc[p] = "clear"
                                           \/ (pc[p] = "install" /\ i < tail)
    BY <1>1, <1>2 DEF CommitInv
  <2>1. \A i \in DOMAIN lh : Installed(i) => pc[p] = "clear" \/ (pc[p] = "install" /\ i < tail)
    BY CommitterAlone DEF Installed, CommitLabels
  <2>2. \A i \in DOMAIN lh : lh[i] \in Blocks /\ (~Installed(i) => pins[lh[i]] = 1)
    BY <1>1, CommitterAlone DEF PinInv, LogType, CommitLabels
  <2> QED
    BY <1>2, <1>3, <2>1, <2>2
<1>9. Visible' = Visible
  <2>1. cache[b] = NoBuf \/ cache[b] = Survives[b]
    BY <1>1, <1>2 DEF CacheInv
  <2>2. \A k \in Blocks : Visible'[k] = Visible[k]
    BY <1>3, <1>5, <2>1 DEF Visible
  <2> QED
    BY <2>2 DEF Visible
<1> QED
  BY <1>4, <1>5, <1>6, <1>7, <1>8, <1>9 DEF LogInv

\* A crash preserves the invariant, and what survives is what is seen.
LEMMA PowerOffStep ==
    ASSUME LogInv, PowerOff
    PROVE  LogInv' /\ Survives' = Survives /\ Visible' = Survives
<1>1. LogType /\ HeadInv
  BY DEF LogInv
<1>2. /\ boot' = "head" /\ cache' = [b \in Blocks |-> NoBuf] /\ pins' = [b \in Blocks |-> 0]
      /\ lh' = <<>> /\ outstanding' = 0 /\ committing' = FALSE /\ tail' = 1
      /\ pc' = [q \in Procs |-> "user"] /\ held' = [q \in Procs |-> NoBuf]
      /\ writes' = [q \in Procs |-> 0] /\ UNCHANGED <<home, dlog, dhead, panicked>>
  BY DEF PowerOff, diskVars
<1>3. LogType'
  <2>1. /\ cache' \in [Blocks -> Values \union {NoBuf}] /\ pins' \in [Blocks -> {0, 1}]
        /\ pc' \in [Procs -> LogLabels] /\ held' \in [Procs -> Blocks \union {NoBuf}]
        /\ writes' \in [Procs -> 0 .. OpWrites]
    BY <1>2, Bounds DEF LogLabels
  <2>2. lh' \in Seq(Blocks) /\ outstanding' \in Nat /\ tail' \in Nat \ {0}
    BY <1>2
  <2>3. committing' \in BOOLEAN
    BY <1>2
  <2> QED
    BY <1>1, <1>2, <2>1, <2>2, <2>3 DEF LogType
<1>4. Active' = {} /\ Reserved' = {}
  BY <1>2 DEF Active, Reserved
<1>5. CountInv' /\ RoomInv'
  BY <1>2, <1>4, FS_EmptySet, Bounds DEF CountInv, RoomInv, CommitLabels
<1>6. HeldInv' /\ BootInv' /\ PinInv' /\ CommitInv'
  BY <1>2 DEF HeldInv, BootInv, PinInv, CommitInv
<1>7. HeadInv'
  BY <1>1, <1>2 DEF HeadInv, Distinct
<1>8. CacheInv'
  BY <1>2 DEF CacheInv
<1>9. Survives' = Survives
  BY <1>2 DEF Survives
<1>10. Visible' = Survives
  BY <1>2, <1>9 DEF Visible, Survives
<1> QED
  BY <1>3, <1>5, <1>6, <1>7, <1>8, <1>9, <1>10 DEF LogInv

\* Before recovery is over no call runs and only surviving contents are cached.
LEMMA Booting ==
    ASSUME LogInv, boot # "up"
    PROVE  /\ Active = {} /\ Reserved = {}
           /\ \A q \in Procs : pc[q] = "user" /\ held[q] = NoBuf
           /\ \A b \in Blocks : pins[b] = 0 /\ (cache[b] = NoBuf \/ cache[b] = Survives[b])
<1>1. LogType /\ HeldInv /\ BootInv /\ CacheInv
  BY DEF LogInv
<1>2. (\A q \in Procs : pc[q] = "user" /\ held[q] = NoBuf) /\ \A b \in Blocks : pins[b] = 0
  BY <1>1 DEF HeldInv, BootInv
<1>3. Active = {} /\ Reserved = {}
  BY <1>2 DEF Active, Reserved
<1>4. \A b \in Blocks : \A q \in Procs : held[q] # b
  BY <1>2, LogAssumption
<1> QED
  BY <1>1, <1>2, <1>3, <1>4 DEF CacheInv

\* read_head preserves the invariant and nobody sees a difference.
LEMMA ReadHeadStep ==
    ASSUME LogInv, ReadHead
    PROVE  LogInv' /\ Survives' = Survives /\ Visible' = Visible
<1>1. /\ LogType /\ CountInv /\ RoomInv /\ HeldInv /\ BootInv /\ HeadInv
      /\ PinInv /\ CacheInv /\ CommitInv
  BY DEF LogInv
<1>2. /\ boot = "head" /\ lh' = dhead /\ tail' = 1 /\ boot' = "install"
      /\ UNCHANGED <<home, dlog, dhead, cache, pins, outstanding, committing, pc, held, writes, panicked>>
  BY DEF ReadHead, diskVars, cacheVars, procVars
<1>3. LogType'
  BY <1>1, <1>2 DEF LogType
<1>4. Active' = Active /\ Reserved' = Reserved /\ Survives' = Survives /\ Visible' = Visible
  BY <1>2 DEF Active, Reserved, Survives, Visible
<1>5. CountInv' /\ RoomInv' /\ HeldInv'
  <2>1. CountInv' /\ HeldInv'
    BY <1>1, <1>2, <1>4 DEF CountInv, HeldInv
  <2>2. Reserved' = {}
    BY <1>2, <1>4, Booting
  <2>3. Cardinality(Reserved') = 0
    BY <2>2, FS_EmptySet
  <2>4. Len(dhead) \in Nat /\ Len(dhead) <= LOGSIZE
    BY <1>1 DEF LogType, HeadInv
  <2> QED
    BY <1>2, <2>1, <2>3, <2>4, Bounds DEF RoomInv
<1>6. DOMAIN dhead = 1 .. Len(dhead) /\ Len(dhead) \in Nat
  BY <1>1 DEF LogType
<1>7. BootInv'
  BY <1>2, <1>6, Booting DEF BootInv
<1>8. HeadInv' /\ PinInv' /\ CommitInv' /\ CacheInv'
  BY <1>1, <1>2, <1>4, Booting DEF HeadInv, PinInv, CommitInv, CacheInv
<1> QED
  BY <1>3, <1>4, <1>5, <1>7, <1>8 DEF LogInv

\* Recovery preserves the invariant and nobody sees a difference.
LEMMA RecoverStep ==
    ASSUME LogInv, Recover
    PROVE  LogInv' /\ Survives' = Survives /\ Visible' = Visible
<1>1. /\ LogType /\ CountInv /\ RoomInv /\ HeldInv /\ BootInv /\ HeadInv
      /\ PinInv /\ CacheInv /\ CommitInv
  BY DEF LogInv
<1>2. /\ boot = "install" /\ lh = dhead /\ tail \in Nat /\ tail >= 1 /\ tail <= Len(lh) + 1
      /\ DOMAIN lh = 1 .. Len(lh) /\ Len(lh) \in Nat /\ Len(lh) <= LOGSIZE
      /\ UNCHANGED <<outstanding, committing, pc, held, writes, panicked>>
  BY <1>1 DEF Recover, procVars, BootInv, HeadInv, LogType
<1>3. \A i \in DOMAIN lh : lh[i] \in Blocks /\ i \in Nat /\ i >= 1 /\ i \in LogSlots
  BY <1>1, <1>2, Bounds DEF LogType, LogSlots
<1>4. /\ \A i \in DOMAIN lh : Survives[lh[i]] = dlog[i]
      /\ \A b \in Blocks : (\A i \in DOMAIN lh : lh[i] # b) => Survives[b] = home[b]
  BY <1>1, <1>2, SurvivesIs DEF Survives, LogType, HeadInv
<1>5. Active' = Active /\ Reserved' = Reserved
  BY <1>2 DEF Active, Reserved
<1>6. CountInv' /\ HeldInv'
  BY <1>1, <1>2, <1>5 DEF CountInv, HeldInv
<1>7. CASE InstallOne(FALSE) /\ UNCHANGED <<lh, dhead, dlog, boot>>
  <2> DEFINE b == lh[tail]
  <2>1. /\ tail' = tail + 1 /\ tail \in DOMAIN lh /\ b \in Blocks
        /\ cache' = [cache EXCEPT ![b] = dlog[tail]] /\ home' = [home EXCEPT ![b] = dlog[tail]]
        /\ pins' = [pins EXCEPT ![b] = pins[b]] /\ UNCHANGED <<lh, dhead, dlog, boot>>
    BY <1>2, <1>3, <1>7 DEF InstallOne
  <2>2. dlog[tail] \in Values
    BY <1>1, <1>3, <2>1 DEF LogType
  <2>3. /\ cache'[b] = dlog[tail] /\ home'[b] = dlog[tail] /\ pins' = pins
        /\ \A k \in Blocks : k # b => home'[k] = home[k] /\ cache'[k] = cache[k]
    BY <1>1, <2>1 DEF LogType
  <2>4. LogType'
    <3>1. home' \in [Blocks -> Values] /\ cache' \in [Blocks -> Values \union {NoBuf}]
      BY <1>1, <2>1, <2>2 DEF LogType
    <3> QED
      BY <1>1, <1>2, <2>1, <2>3, <3>1 DEF LogType
  <2>5. HeadInv' /\ RoomInv'
    BY <1>1, <1>2, <1>5, <2>1 DEF HeadInv, RoomInv
  <2>6. /\ \A i \in DOMAIN lh : Survives'[lh[i]] = dlog[i]
        /\ \A k \in Blocks : (\A i \in DOMAIN lh : lh[i] # k) => Survives'[k] = home'[k]
    BY <2>1, <2>4, <2>5, <1>2, SurvivesIs DEF Survives, LogType, HeadInv
  <2>7. \A k \in Blocks : Survives'[k] = Survives[k]
    BY <1>4, <2>1, <2>3, <2>6
  <2>8. Survives' = Survives
    BY <2>7 DEF Survives
  <2>9. BootInv'
    <3>1. \A i \in DOMAIN lh : i < tail + 1 => home'[lh[i]] = dlog[i]
      BY <1>1, <1>2, <1>3, <2>1, <2>3 DEF BootInv, HeadInv, Distinct
    <3> QED
      BY <1>1, <1>2, <2>1, <2>3, <3>1, Booting DEF BootInv
  <2>10. PinInv' /\ CommitInv'
    BY <1>2, <2>1, Booting DEF PinInv, CommitInv
  <2>11. \A k \in Blocks : cache'[k] = cache[k] \/ (cache'[k] = Survives[k] /\ cache'[k] # NoBuf)
    BY <1>4, <2>1, <2>2, <2>3, LogAssumption
  <2>12. CacheInv'
    BY <1>2, <2>3, <2>8, <2>11, Booting DEF CacheInv
  <2>13. \A k \in Blocks : Visible'[k] = Visible[k]
    BY <1>2, <2>8, <2>11, Booting DEF Visible
  <2> QED
    BY <1>6, <2>4, <2>5, <2>8, <2>9, <2>10, <2>12, <2>13 DEF LogInv, Visible
<1>8. CASE /\ tail > Len(lh) /\ lh' = <<>> /\ dhead' = <<>> /\ dlog' = DeadLog /\ boot' = "up"
           /\ UNCHANGED <<cache, home, pins, tail>>
  <2>1. LogType'
    <3>1. lh' \in Seq(Blocks) /\ dhead' \in Seq(Blocks) /\ boot' \in {"head", "install", "up"}
      BY <1>8
    <3> QED
      BY <1>1, <1>2, <1>8, <3>1, DeadLogType DEF LogType
  <2>2. HeadInv' /\ RoomInv'
    BY <1>2, <1>5, <1>8, Booting, FS_EmptySet, Bounds DEF HeadInv, Distinct, RoomInv
  <2>3. \A k \in Blocks : Survives'[k] = home[k]
    BY <1>8 DEF Survives
  <2>4. \A k \in Blocks : Survives'[k] = Survives[k]
    BY <1>1, <1>2, <1>3, <1>4, <1>8, <2>3 DEF BootInv
  <2>5. Survives' = Survives
    BY <2>4 DEF Survives
  <2>6. BootInv' /\ PinInv' /\ CommitInv' /\ CacheInv'
    BY <1>2, <1>8, <2>5, Booting DEF BootInv, PinInv, CommitInv, CacheInv
  <2> QED
    BY <1>6, <1>8, <2>1, <2>2, <2>5, <2>6 DEF LogInv, Visible
<1> QED
  BY <1>7, <1>8 DEF Recover

-----------------------------------------------------------------------------
(* The theorems.                                                             *)

\* Every step preserves the invariant.
LEMMA NextInv == LogInv /\ [LogNext]_fsLogVars => LogInv'
<1> SUFFICES ASSUME LogInv, [LogNext]_fsLogVars PROVE LogInv'
  OBVIOUS
<1>1. ASSUME NEW p \in Procs, BeginOp(p) \/ LogWrite(p) \/ EndOp(p) PROVE LogInv'
  BY <1>1, BeginOpStep, LogWriteStep, EndOpStep
<1>2. ASSUME NEW p \in Procs, CommitStep(p) PROVE LogInv'
  BY <1>2, CommitStartStep, WriteLogStep, WriteHeadStep, InstallTransStep, ClearLogStep,
     FinishCommitStep DEF CommitStep
<1>3. ASSUME NEW p \in Procs, NEW b \in Blocks, NEW v \in Values, Modify(p, b, v) PROVE LogInv'
  BY <1>3, ModifyStep
<1>4. ASSUME NEW b \in Blocks, Recycle(b) PROVE LogInv'
  BY <1>4, RecycleStep
<1>5. CASE PowerOff \/ ReadHead \/ Recover
  BY <1>5, PowerOffStep, ReadHeadStep, RecoverStep
<1>6. CASE UNCHANGED fsLogVars
  <2>1. UNCHANGED <<home, dlog, dhead, cache, pins, lh, outstanding, committing, tail, pc, held,
                    writes, boot, panicked>>
    BY <1>6 DEF fsLogVars, diskVars, cacheVars, logVars, procVars
  <2>2. LogType' /\ HeldInv' /\ BootInv' /\ HeadInv'
    BY <2>1 DEF LogInv, LogType, HeldInv, BootInv, HeadInv
  <2>3. CountInv' /\ RoomInv'
    BY <2>1 DEF LogInv, CountInv, RoomInv, Active, Reserved
  <2>4. PinInv' /\ CacheInv' /\ CommitInv'
    BY <2>1 DEF LogInv, PinInv, Installed, CacheInv, Survives, CommitInv
  <2> QED
    BY <2>2, <2>3, <2>4 DEF LogInv
<1> QED
  BY <1>1, <1>2, <1>3, <1>4, <1>5, <1>6 DEF LogNext

\* The invariant holds in every reachable state, crashes included.
THEOREM LogInvariant == LogSpec => []LogInv
  BY InitInv, NextInv, PTL DEF LogSpec

\* log_write never finds the log full and never runs outside a transaction, and
\* end_op never meets a commit: what begin_op reserves is enough for every log
\* size, every reservation per call and every number of processes.
THEOREM ReservationSuffices == LogSpec => []NoPanic
<1>1. LogInv => NoPanic
  BY DEF LogInv, LogType, NoPanic
<1> QED
  BY <1>1, LogInvariant, PTL

\* log_write pins each block of the transaction once, and install_trans has
\* unpinned all of them when the commit is over.
THEOREM PinsBalanced == LogSpec => []PinnedUntilInstalled
<1>1. ASSUME LogInv PROVE PinnedUntilInstalled
  <2> SUFFICES ASSUME boot = "up", NEW b \in Blocks
               PROVE  pins[b] = Cardinality({i \in DOMAIN lh : lh[i] = b /\ ~Installed(i)})
                      /\ pins[b] <= 1
    BY DEF PinnedUntilInstalled
  <2> DEFINE S == {i \in DOMAIN lh : lh[i] = b /\ ~Installed(i)}
  <2>1. pins[b] \in {0, 1} /\ (pins[b] = 1 <=> \E i \in DOMAIN lh : lh[i] = b /\ ~Installed(i))
    BY <1>1 DEF LogInv, LogType, PinInv
  <2>2. CASE pins[b] = 0
    <3>1. S = {}
      BY <2>1, <2>2
    <3> QED
      BY <2>2, <3>1, FS_EmptySet
  <2>3. CASE pins[b] = 1
    <3>1. PICK i \in DOMAIN lh : lh[i] = b /\ ~Installed(i)
      BY <2>1, <2>3
    <3>2. S = {i}
      BY <1>1, <3>1 DEF LogInv, HeadInv, Distinct
    <3> QED
      BY <2>3, <3>2, FS_Singleton
  <2> QED
    BY <2>1, <2>2, <2>3
<1> QED
  BY <1>1, LogInvariant, PTL

\* A longer transaction only takes more room.
LEMMA RoomShrinks ==
    ASSUME NEW n \in Nat, NEW k \in Nat, NEW l \in Nat, k <= l,
           k + (n + 1) * MAXOPBLOCKS > LOGSIZE
    PROVE  l + (n + 1) * MAXOPBLOCKS > LOGSIZE
<1>1. (n + 1) * MAXOPBLOCKS \in Nat
  BY Bounds
<1> QED
  BY <1>1, Bounds

\* Whatever makes room in the log wakes everybody who waits for it.
THEOREM NoLostWakeup == LogSpec => []NoNeedlessSleep
<1>1. LogInit => NoNeedlessSleep
  BY DEF LogInit, NoNeedlessSleep
<1>2. ASSUME LogInv, LogInv', NoNeedlessSleep, [LogNext]_fsLogVars
      PROVE  NoNeedlessSleep'
  <2>1. LogType /\ LogType'
    BY <1>2 DEF LogInv
  <2>2. ASSUME NEW p \in Procs, BeginOp(p) PROVE NoNeedlessSleep'
    <3>1. CASE committing \/ NoRoom
      BY <3>1, <2>2 DEF BeginOp, NoNeedlessSleep, NoRoom
    <3>2. CASE ~(committing \/ NoRoom)
      <4>1. \A q \in Procs : pc[q] # "asleep"
        BY <3>2, <1>2 DEF NoNeedlessSleep
      <4>2. pc' = [pc EXCEPT ![p] = "op"]
        BY <3>2, <2>2 DEF BeginOp
      <4> QED
        BY <4>1, <4>2, <2>1 DEF NoNeedlessSleep, LogType
    <3> QED
      BY <3>1, <3>2
  <2>3. ASSUME NEW p \in Procs, LogWrite(p) PROVE NoNeedlessSleep'
    <3>1. (\E q \in Procs : pc'[q] = "asleep") => \E q \in Procs : pc[q] = "asleep"
      BY <2>1, <2>3 DEF LogWrite, LogType
    <3>2. outstanding' = outstanding /\ committing' = committing /\ Len(lh) <= Len(lh')
      <4>1. lh' = lh \/ (lh' = Append(lh, held[p]) /\ held[p] \in Blocks)
        BY <1>2, <2>1, <2>3 DEF LogWrite, Absorb, LogInv, HeldInv, LogType
      <4>2. Len(lh) <= Len(lh')
        BY <4>1, <2>1, AppendIs DEF LogType
      <4> QED
        BY <4>2, <2>3 DEF LogWrite
    <3>3. NoRoom => NoRoom'
      <4>1. outstanding \in Nat /\ Len(lh) \in Nat /\ Len(lh') \in Nat
        BY <2>1 DEF LogType
      <4> QED
        BY <3>2, <4>1, RoomShrinks DEF NoRoom
    <3> QED
      BY <3>1, <3>2, <3>3, <1>2 DEF NoNeedlessSleep
  <2>4. ASSUME NEW p \in Procs, EndOp(p) PROVE NoNeedlessSleep'
    <3>1. CASE committing'
      BY <3>1 DEF NoNeedlessSleep
    <3>2. CASE ~committing'
      <4>1. pc' = WakeLog([pc EXCEPT ![p] = "user"])
        BY <3>2, <2>1, <2>4 DEF EndOp, LogType
      <4>2. \A q \in Procs : pc'[q] # "asleep"
        BY <4>1 DEF WakeLog
      <4> QED
        BY <4>2 DEF NoNeedlessSleep
    <3> QED
      BY <3>1, <3>2
  <2>5. ASSUME NEW p \in Procs, CommitStep(p) PROVE NoNeedlessSleep'
    <3>1. CASE FinishCommit(p)
      BY <3>1 DEF FinishCommit, WakeLog, NoNeedlessSleep
    <3>2. CASE ~FinishCommit(p)
      <4>1. pc[p] \in CommitLabels /\ committing' = committing
        BY <2>5, <3>2 DEF CommitStep, CommitStart, WriteLog, WriteHead, InstallTrans, ClearLog, CommitLabels
      <4> QED
        BY <4>1, <1>2, CommitterAlone DEF NoNeedlessSleep
    <3> QED
      BY <3>1, <3>2
  <2>6. ASSUME NEW p \in Procs, NEW b \in Blocks, NEW v \in Values, Modify(p, b, v)
        PROVE  NoNeedlessSleep'
    BY <1>2, <2>1, <2>6 DEF Modify, logVars, NoNeedlessSleep, NoRoom, LogType
  <2>7. ASSUME NEW b \in Blocks, Recycle(b) PROVE NoNeedlessSleep'
    BY <1>2, <2>7 DEF Recycle, logVars, procVars, NoNeedlessSleep, NoRoom
  <2>8. CASE PowerOff
    BY <2>8 DEF PowerOff, NoNeedlessSleep
  <2>9. CASE ReadHead \/ Recover
    BY <1>2, <2>9, Booting DEF ReadHead, Recover, procVars, NoNeedlessSleep
  <2>10. CASE UNCHANGED fsLogVars
    BY <1>2, <2>10 DEF fsLogVars, logVars, procVars, NoNeedlessSleep, NoRoom
  <2> QED
    BY <1>2, <2>2, <2>3, <2>4, <2>5, <2>6, <2>7, <2>8, <2>9, <2>10 DEF LogNext
<1> QED
  BY <1>1, <1>2, LogInvariant, PTL DEF LogSpec

\* The initial states of the log are initial states of the atomic store.
LEMMA StoreInitially == LogInit => Store!StoreInit
<1> SUFFICES ASSUME LogInit PROVE Store!StoreInit
  OBVIOUS
<1>1. Survives = home
  BY DEF LogInit, Survives
<1>2. Visible = Survives
  BY DEF LogInit, Visible, Survives
<1> QED
  BY <1>1, <1>2 DEF LogInit, Store!StoreInit

\* Every step of the log is a step of the atomic store, or leaves it alone.
LEMMA StoreStep ==
    ASSUME LogInv, LogInv', [LogNext]_fsLogVars
    PROVE  [Store!StoreNext]_(Store!storeVars)
<1> DEFINE Abstract == <<Survives, Visible, Active>>
<1>0. (UNCHANGED Abstract => UNCHANGED Store!storeVars)
  BY DEF Store!storeVars, Active
<1>1. LogType
  BY DEF LogInv
<1>2. ASSUME NEW p \in Procs, BeginOp(p) PROVE Store!StoreNext \/ UNCHANGED Abstract
  <2>1. Survives' = Survives /\ Visible' = Visible
    BY <1>2 DEF BeginOp, diskVars, cacheVars, Survives, Visible
  <2>2. CASE pc' = [pc EXCEPT ![p] = "asleep"]
    BY <1>1, <1>2, <2>1, <2>2 DEF BeginOp, Active, LogType
  <2>3. CASE pc' = [pc EXCEPT ![p] = "op"]
    <3>1. Active' = Active \union {p} /\ p \notin Active
      BY <1>1, <1>2, <2>3 DEF BeginOp, Active, LogType
    <3>2. Store!Begin(p)
      BY <2>1, <3>1 DEF Store!Begin, Active
    <3> QED
      BY <3>2 DEF Store!StoreNext
  <2> QED
    BY <1>2, <2>2, <2>3 DEF BeginOp
<1>3. ASSUME NEW p \in Procs, LogWrite(p) PROVE UNCHANGED Abstract
  BY <1>1, <1>3 DEF LogWrite, diskVars, Survives, Visible, Active, LogType
<1>4. ASSUME NEW p \in Procs, EndOp(p) PROVE Store!StoreNext
  <2>1. Survives' = Survives /\ Visible' = Visible
    BY <1>4 DEF EndOp, diskVars, cacheVars, Survives, Visible
  <2>2. p \in Active /\ panicked' = FALSE
    BY <1>4 DEF EndOp, Active, LogInv, LogType
  <2>3. \/ pc' = [pc EXCEPT ![p] = "commit"]
        \/ pc' = WakeLog([pc EXCEPT ![p] = "user"])
    BY <1>4, <2>2 DEF EndOp
  <2>4. Active' = Active \ {p}
    BY <1>1, <2>3 DEF Active, WakeLog, LogType
  <2>5. Store!End(p)
    BY <2>1, <2>2, <2>4 DEF Store!End, Active
  <2> QED
    BY <2>5 DEF Store!StoreNext
<1>5. ASSUME NEW p \in Procs, NEW b \in Blocks, NEW v \in Values, Modify(p, b, v)
      PROVE  Store!StoreNext
  <2>1. Survives' = Survives /\ Active' = Active /\ p \in Active
    BY <1>1, <1>5 DEF Modify, diskVars, Survives, Active, LogType
  <2>2. v # NoBuf /\ cache' = [cache EXCEPT ![b] = v]
    BY <1>5, LogAssumption DEF Modify
  <2>3. \A k \in Blocks : Visible'[k] = [Visible EXCEPT ![b] = v][k]
    BY <1>1, <2>1, <2>2 DEF Visible, LogType
  <2>4. Visible' = [Visible EXCEPT ![b] = v]
    BY <2>3 DEF Visible
  <2>5. Store!Write(p, b, v)
    BY <2>1, <2>4 DEF Store!Write, Active
  <2> QED
    BY <2>5 DEF Store!StoreNext
<1>6. ASSUME NEW p \in Procs, CommitStep(p) PROVE Store!StoreNext \/ UNCHANGED Abstract
  <2>1. pc[p] \in CommitLabels
    BY <1>6 DEF CommitStep, CommitStart, WriteLog, WriteHead, InstallTrans, ClearLog, FinishCommit,
                CommitLabels
  <2>2. Active = {}
    BY <2>1, CommitterAlone
  <2>3. Active' = {}
    <3>1. CASE FinishCommit(p)
      BY <3>1, <1>1, <2>2 DEF FinishCommit, WakeLog, Active, LogType
    <3>2. CASE ~FinishCommit(p)
      BY <3>2, <1>1, <1>6, <2>2
         DEF CommitStep, CommitStart, WriteLog, WriteHead, InstallTrans, ClearLog, Active, LogType
    <3> QED
      BY <3>1, <3>2
  <2>4. CASE WriteHead(p)
    <3>1. Survives' = Visible /\ Visible' = Visible
      BY <2>4, WriteHeadStep
    <3>2. Store!Commit
      BY <3>1, <2>2, <2>3 DEF Store!Commit, Active
    <3> QED
      BY <3>2 DEF Store!StoreNext
  <2>5. CASE CommitStart(p) \/ FinishCommit(p)
    BY <2>2, <2>3, <2>5 DEF CommitStart, FinishCommit, diskVars, cacheVars, Survives, Visible
  <2>6. CASE WriteLog(p)
    BY <2>2, <2>3, <2>6, WriteLogStep DEF Visible
  <2>7. CASE InstallTrans(p) \/ ClearLog(p)
    BY <2>2, <2>3, <2>7, InstallTransStep, ClearLogStep
  <2> QED
    BY <1>6, <2>4, <2>5, <2>6, <2>7 DEF CommitStep
<1>7. ASSUME NEW b \in Blocks, Recycle(b) PROVE UNCHANGED Abstract
  BY <1>7, RecycleStep DEF Recycle, procVars, Active
<1>8. CASE PowerOff
  <2>1. Survives' = Survives /\ Visible' = Survives
    BY <1>8, PowerOffStep
  <2>2. Active' = {}
    BY <1>8 DEF PowerOff, Active
  <2>3. Store!Crash
    BY <2>1, <2>2 DEF Store!Crash, Active
  <2> QED
    BY <2>3 DEF Store!StoreNext
<1>9. CASE ReadHead \/ Recover
  <2>1. Active' = Active
    BY <1>9 DEF ReadHead, Recover, procVars, Active
  <2> QED
    BY <1>0, <1>9, <2>1, ReadHeadStep, RecoverStep
<1>10. CASE UNCHANGED fsLogVars
  BY <1>0, <1>10 DEF fsLogVars, diskVars, cacheVars, procVars, Survives, Visible, Active
<1> HIDE DEF Abstract
<1> QED
  BY <1>0, <1>2, <1>3, <1>4, <1>5, <1>6, <1>7, <1>8, <1>9, <1>10 DEF LogNext

\* log.c implements the atomic store for every number of processes and blocks
\* and every log size: with a crash between any two disk writes, during
\* recovery too, whole transactions survive and nothing else does.
THEOREM LogIsAtomicStore == LogSpec => ImplementsStore
<1>1. LogInv /\ LogInv' /\ [LogNext]_fsLogVars => [Store!StoreNext]_(Store!storeVars)
  BY StoreStep
<1> QED
  BY <1>1, StoreInitially, LogInvariant, PTL DEF LogSpec, ImplementsStore, Store!StoreSpec

-----------------------------------------------------------------------------
(* Inodes and open files: the inductive invariant.                           *)

Putting == {"put", "free", "invalidate", "unref"}
IpPlaces == {"walk", "open", "chdir", "link", "found", "created", "drop", "fill", "erase"}
DpPlaces == {"create", "mkdir", "mknod", "unlink", "ialloc", "release", "fill", "erase", "dirlink", "exists"}
TargetPlaces == {"dirlink", "exists", "undo"}
Places == {"user", "gone", "exit"} \union IpPlaces \union DpPlaces \union TargetPlaces
InumOr0 == Inums \union {0}
Types == {"free", "file", "dir", "nodev"}
SysNames == {"none", "close", "open", "chdir", "link", "create", "mkdir", "mknod", "unlink"}

SyscType ==
    [sys : SysNames, pc : Places \union Putting, then : Places, fail : Places, back : Places,
     path : Seq(STRING), par : BOOLEAN, ip : InumOr0, dp : InumOr0, target : InumOr0, name : STRING \union {""},
     puts : Seq(Inums), arg : Seq(Paths)]

\* Where a call is, or goes on once the inodes in puts are put.
Place(c) == IF c.pc \in Putting THEN c.back ELSE c.pc

\* What namex returns to.
WalkFit(c) ==
    /\ c.then \in (IF c.par THEN {"create", "mkdir", "mknod", "unlink", "dirlink"} ELSE {"open", "chdir", "link"})
    /\ c.fail = IF c.then = "dirlink" THEN "undo" ELSE "user"

\* A call holds the inodes that the rest of it needs, and no others.
Shape(c) ==
    /\ c \in SyscType
    /\ c.ip # 0 <=> Place(c) \in IpPlaces
    /\ c.dp # 0 <=> Place(c) \in DpPlaces
    /\ c.target # 0 <=> Place(c) \in TargetPlaces \/ (Place(c) = "walk" /\ c.then = "dirlink")
    /\ Place(c) = "walk" => WalkFit(c)
    /\ Place(c) \in {"walk", "link"} => c.arg # <<>>
    /\ c.pc \in Putting <=> c.puts # <<>>
    /\ Len(c.puts) <= 2

\* The sleep locks it holds from one step to the next.
KeepsDp == {"ialloc", "fill", "release", "erase", "exists"}
KeepsIp == {"created", "drop"}
Locked(lk, p, c) ==
    /\ Place(c) \in KeepsDp => lk[c.dp] = p
    /\ Place(c) \in KeepsIp => lk[c.ip] = p
    /\ c.pc \in {"free", "invalidate"} =>
        /\ lk[Head(c.puts)] = p
        /\ Place(c) \in KeepsDp => Head(c.puts) # c.dp
        /\ Place(c) \in KeepsIp => Head(c.puts) # c.ip

\* A process that is gone has no files and no current directory.
Leaves(dir, fds, c) == /\ dir = 0 <=> Place(c) = "gone"
                       /\ Place(c) = "gone" => fds = {}

TabType == [Inums -> [ref : Int, valid : BOOLEAN, type : Types, nlink : Int]]
DinoType == [Inums -> [type : Types, nlink : Int]]
InodeType ==
    /\ dino \in DinoType
    /\ itab \in TabType
    /\ ilk \in [Inums -> Users \union {NoUser}]
    /\ \A e \in ents : e[3] \in Inums
    /\ ftab \in [1 .. NFILE -> [ref : Int, ip : InumOr0]]
    /\ ofile \in [Users -> SUBSET ((0 .. NOFILE - 1) \X (1 .. NFILE))]
    /\ cwd \in [Users -> InumOr0]
    /\ sysc \in [Users -> SyscType]
    /\ fpanic \in BOOLEAN

FileInv ==
    /\ \A f \in 1 .. NFILE : ftab[f].ref = 0 => ftab[f].ip = 0
    /\ \A p \in Users : \A d, e \in ofile[p] : d[1] = e[1] => d = e

\* A copy that is valid shows the disk, or the inode is being freed.
Freeing(i) == \E p \in Users : sysc[p].pc = "invalidate" /\ Head(sysc[p].puts) = i
CopyFit(i) ==
    itab[i].ref > 0 /\ itab[i].valid =>
        IF itab[i].type = "free" THEN Freeing(i) ELSE itab[i].type = dino[i].type /\ itab[i].nlink = dino[i].nlink
CopyInv == ~fpanic => \A i \in Inums : CopyFit(i)

CallInv == \A p \in Users : Shape(sysc[p]) /\ Locked(ilk, p, sysc[p]) /\ Leaves(cwd[p], ofile[p], sysc[p])

\* The two parts of RefsExact.
FilesOn(i) == {f \in 1 .. NFILE : ftab[f].ip = i}
InodeRefs == \A i \in Inums : itab[i].ref = Cardinality(Upto(Locals(i))) + Cardinality(FilesOn(i))
FileRefs == \A f \in 1 .. NFILE : ftab[f].ref = Cardinality(Naming(f))

InodeInv == InodeType /\ CallInv /\ FileInv /\ CopyInv /\ InodeRefs /\ FileRefs

-----------------------------------------------------------------------------
(* Counting.                                                                 *)

\* The pairs that are counted are finitely many.
LEMMA UptoFinite ==
    ASSUME NEW n
    PROVE  IsFiniteSet(Upto(n)) /\ Cardinality(Upto(n)) \in Nat
<1>1. IsFiniteSet(Users \X (1 .. 6))
  <2>1. IsFiniteSet(Users)
    BY InodeAssumption
  <2>2. 1 \in Int /\ 6 \in Int
    OBVIOUS
  <2>3. IsFiniteSet(1 .. 6)
    BY <2>2, FS_Interval, Zenon
  <2> QED
    BY <2>1, <2>3, FS_Product
<1>2. Upto(n) \subseteq Users \X (1 .. 6)
  BY DEF Upto
<1> QED
  BY <1>1, <1>2, FS_Subset, FS_CardinalityType

\* One more reference of one process.
LEMMA UptoMore ==
    ASSUME NEW n \in [Users -> Nat], NEW m \in [Users -> Nat], NEW p \in Users,
           m[p] = n[p] + 1, m[p] <= 6, \A q \in Users \ {p} : m[q] = n[q]
    PROVE  Cardinality(Upto(m)) = Cardinality(Upto(n)) + 1
<1> DEFINE x == <<p, m[p]>>
<1>1. x \in Users \X (1 .. 6) /\ x \notin Upto(n) /\ x \in Upto(m)
  BY DEF Upto
<1>2. ASSUME NEW r \in Users \X (1 .. 6) PROVE r \in Upto(m) <=> r \in Upto(n) \union {x}
  <2>1. r[1] \in Users /\ r[2] \in 1 .. 6 /\ r = <<r[1], r[2]>>
    OBVIOUS
  <2>2. CASE r[1] # p
    BY <2>1, <2>2 DEF Upto
  <2>3. CASE r[1] = p
    <3>1. r[2] <= m[p] <=> r[2] <= n[p] \/ r[2] = m[p]
      BY <2>1
    <3>2. r = x <=> r[2] = m[p]
      BY <2>1, <2>3
    <3> QED
      BY <2>3, <3>1, <3>2 DEF Upto
  <2> QED
    BY <2>2, <2>3
<1> HIDE DEF x
<1>3. Upto(m) = Upto(n) \union {x}
  BY <1>1, <1>2 DEF Upto
<1> QED
  BY <1>1, <1>3, UptoFinite, FS_AddElement

\* The inodes in puts.
PutCount(s, i) == (IF Len(s) >= 1 /\ s[1] = i THEN 1 ELSE 0) + (IF Len(s) = 2 /\ s[2] = i THEN 1 ELSE 0)
One(x, i) == IF x = i THEN 1 ELSE 0

\* The occurrences of an inode in puts, as a cardinality and as a sum.
LEMMA PutsSum ==
    ASSUME NEW s \in Seq(Inums), Len(s) <= 2, NEW i \in Inums
    PROVE  Cardinality({k \in DOMAIN s : s[k] = i}) = PutCount(s, i)
<1> DEFINE n == Len(s)
           K == {k \in DOMAIN s : s[k] = i}
           u == IF n >= 1 /\ s[1] = i THEN {1} ELSE {}
           v == IF n = 2 /\ s[2] = i THEN {2} ELSE {}
<1>1. n \in Nat /\ DOMAIN s = 1 .. n
  BY LenProperties
<1>2. n <= 2 /\ PutCount(s, i) = (IF n >= 1 /\ s[1] = i THEN 1 ELSE 0) + (IF n = 2 /\ s[2] = i THEN 1 ELSE 0)
  BY DEF PutCount
<1> HIDE DEF n
<1>3. n = 0 \/ n = 1 \/ n = 2
  BY <1>1, <1>2
<1>4. DOMAIN s = IF n = 0 THEN {} ELSE IF n = 1 THEN {1} ELSE {1, 2}
  <2>1. 1 .. 0 = {} /\ 1 .. 1 = {1} /\ 1 .. 2 = {1, 2}
    OBVIOUS
  <2>2. CASE n = 0
    BY <1>1, <2>1, <2>2
  <2>3. CASE n = 1
    BY <1>1, <2>1, <2>3
  <2>4. CASE n = 2
    BY <1>1, <2>1, <2>4
  <2> QED
    BY <1>3, <2>2, <2>3, <2>4
<1>5. K = u \union v
  BY <1>3, <1>4
<1>6. IsFiniteSet(u) /\ Cardinality(u) = IF n >= 1 /\ s[1] = i THEN 1 ELSE 0
  BY FS_EmptySet, FS_Singleton
<1>7. CASE n = 2 /\ s[2] = i
  <2>1. u \union v = u \union {2} /\ 2 \notin u
    BY <1>7
  <2>2. Cardinality(u \union {2}) = Cardinality(u) + 1
    BY <1>6, <2>1, FS_AddElement
  <2>3. K = u \union {2}
    BY <1>5, <2>1
  <2> HIDE DEF u, v, K
  <2>4. Cardinality(K) = PutCount(s, i)
    BY <1>2, <1>6, <1>7, <2>2, <2>3
  <2> QED
    BY <2>4 DEF K
<1>8. CASE ~(n = 2 /\ s[2] = i)
  <2>1. u \union v = u
    BY <1>8
  <2>2. K = u
    BY <1>5, <2>1
  <2> HIDE DEF u, v, K
  <2>4. Cardinality(K) = PutCount(s, i)
    BY <1>2, <1>6, <1>8, <2>2
  <2> QED
    BY <2>4 DEF K
<1> QED
  BY <1>7, <1>8

\* The references of a call, counted one by one.
LEMMA HoldsSum ==
    ASSUME NEW c \in SyscType, Len(c.puts) <= 2, NEW i \in Inums
    PROVE  Holds(c, i) = One(c.ip, i) + One(c.dp, i) + One(c.target, i) + PutCount(c.puts, i)
<1> DEFINE R == {r \in {"ip", "dp", "target"} : c[r] = i}
           K == {k \in DOMAIN c.puts : c.puts[k] = i}
           a == IF c.ip = i THEN {"ip"} ELSE {}
           b == IF c.dp = i THEN {"dp"} ELSE {}
           d == IF c.target = i THEN {"target"} ELSE {}
<1>1. IsFiniteSet(a) /\ Cardinality(a) = One(c.ip, i)
  BY FS_EmptySet, FS_Singleton DEF One
<1>2. IsFiniteSet(a \union b) /\ Cardinality(a \union b) = One(c.ip, i) + One(c.dp, i)
  <2>1. CASE c.dp = i
    <3>1. a \union b = a \union {"dp"} /\ "dp" \notin a
      BY <2>1
    <3> QED
      BY <1>1, <2>1, <3>1, FS_AddElement DEF One
  <2>2. CASE c.dp # i
    <3>1. a \union b = a
      BY <2>2
    <3> QED
      BY <1>1, <2>2, <3>1 DEF One
  <2> QED
    BY <2>1, <2>2
<1>3. IsFiniteSet(a \union b \union d) /\ Cardinality(a \union b \union d) = One(c.ip, i) + One(c.dp, i) + One(c.target, i)
  <2>1. CASE c.target = i
    <3>1. a \union b \union d = (a \union b) \union {"target"} /\ "target" \notin a \union b
      BY <2>1
    <3>2. Cardinality((a \union b) \union {"target"}) = Cardinality(a \union b) + 1 /\ IsFiniteSet((a \union b) \union {"target"})
      BY <1>2, <3>1, FS_AddElement
    <3>3. One(c.target, i) = 1
      BY <2>1 DEF One
    <3> HIDE DEF a, b, d
    <3> QED
      BY <1>2, <3>1, <3>2, <3>3
  <2>2. CASE c.target # i
    <3>1. a \union b \union d = a \union b
      BY <2>2
    <3>2. One(c.target, i) = 0 /\ One(c.ip, i) \in {0, 1} /\ One(c.dp, i) \in {0, 1}
      BY <2>2 DEF One
    <3> HIDE DEF a, b, d
    <3>3. Cardinality(a \union b \union d) = Cardinality(a \union b) /\ IsFiniteSet(a \union b \union d)
      BY <1>2, <3>1
    <3> QED
      BY <1>2, <3>2, <3>3
  <2> QED
    BY <2>1, <2>2
<1>4. R = a \union b \union d
  <2>1. c["ip"] = c.ip /\ c["dp"] = c.dp /\ c["target"] = c.target
    OBVIOUS
  <2> QED
    BY <2>1
<1>5. Cardinality(K) = PutCount(c.puts, i)
  <2>1. c.puts \in Seq(Inums)
    BY DEF SyscType
  <2> HIDE DEF R, a, b, d
  <2> QED
    BY <2>1, PutsSum
<1> HIDE DEF R, K, a, b, d
<1>6. Holds(c, i) = Cardinality(R) + Cardinality(K)
  BY DEF Holds, R, K
<1> QED
  BY <1>3, <1>4, <1>5, <1>6

\* What a process holds of an inode.
Holding(c, w, i) == One(c.ip, i) + One(c.dp, i) + One(c.target, i) + PutCount(c.puts, i) + One(w, i)

\* A process holds at most six references to an inode.
LEMMA HoldingTyped ==
    ASSUME NEW c, NEW w, NEW i
    PROVE  Holding(c, w, i) \in 0 .. 6
<1>1. \A x : One(x, i) \in {0, 1}
  BY DEF One
<1>2. PutCount(c.puts, i) \in {0, 1, 2}
  BY DEF PutCount
<1> QED
  BY <1>1, <1>2 DEF Holding

\* The references of the processes in calls s with current directories w.
LocalsOf(s, w, i) == [p \in Users |-> Holds(s[p], i) + IF w[p] = i THEN 1 ELSE 0]
Regular(s) == \A p \in Users : s[p] \in SyscType /\ Len(s[p].puts) <= 2

\* They add up to what each holds.
LEMMA LocalsSum ==
    ASSUME NEW s, NEW w, Regular(s), NEW i \in Inums
    PROVE  /\ LocalsOf(s, w, i) \in [Users -> Nat]
           /\ \A p \in Users : LocalsOf(s, w, i)[p] = Holding(s[p], w[p], i) /\ LocalsOf(s, w, i)[p] <= 6
<1>1. ASSUME NEW p \in Users PROVE LocalsOf(s, w, i)[p] = Holding(s[p], w[p], i)
  <2>1. Holds(s[p], i) = One(s[p].ip, i) + One(s[p].dp, i) + One(s[p].target, i) + PutCount(s[p].puts, i)
    BY HoldsSum DEF Regular
  <2>2. LocalsOf(s, w, i)[p] = Holds(s[p], i) + One(w[p], i)
    BY DEF LocalsOf, One
  <2> QED
    BY <2>1, <2>2 DEF Holding
<1>2. \A p \in Users : Holding(s[p], w[p], i) \in 0 .. 6
  BY HoldingTyped
<1>3. LocalsOf(s, w, i) = [p \in Users |-> LocalsOf(s, w, i)[p]]
  BY DEF LocalsOf
<1> QED
  BY <1>1, <1>2, <1>3

\* One process takes, keeps or drops a reference.
LEMMA LocalsStep ==
    ASSUME NEW s, NEW w, NEW t, NEW v, Regular(s), Regular(t), NEW p \in Users, NEW i \in Inums,
           \A q \in Users \ {p} : t[q] = s[q] /\ v[q] = w[q],
           NEW d \in {0 - 1, 0, 1}, Holding(t[p], v[p], i) = Holding(s[p], w[p], i) + d
    PROVE  Cardinality(Upto(LocalsOf(t, v, i))) = Cardinality(Upto(LocalsOf(s, w, i))) + d
<1> DEFINE n == LocalsOf(s, w, i)
           m == LocalsOf(t, v, i)
<1>1. n \in [Users -> Nat] /\ m \in [Users -> Nat] /\ n[p] <= 6 /\ m[p] <= 6
  BY LocalsSum
<1>2. m[p] = n[p] + d
  BY LocalsSum
<1>3. \A q \in Users \ {p} : m[q] = n[q]
  BY DEF LocalsOf
<1>6. Cardinality(Upto(n)) \in Nat /\ Cardinality(Upto(m)) \in Nat
  BY UptoFinite
<1> HIDE DEF n, m
<1>4. CASE d = 1
  BY <1>1, <1>2, <1>3, <1>4, UptoMore DEF n, m
<1>5. CASE d = 0 - 1
  <2>1. n[p] = m[p] + 1 /\ \A q \in Users \ {p} : n[q] = m[q]
    BY <1>1, <1>2, <1>3, <1>5
  <2>2. Cardinality(Upto(n)) = Cardinality(Upto(m)) + 1
    BY <1>1, <2>1, UptoMore
  <2> QED
    BY <1>5, <1>6, <2>2 DEF n, m
<1>7. CASE d = 0
  <2>1. \A q \in Users : n[q] = m[q]
    BY <1>1, <1>2, <1>3, <1>7
  <2>2. n = m
    BY <1>1, <2>1
  <2> QED
    BY <1>6, <1>7, <2>2 DEF n, m
<1> QED
  BY <1>4, <1>5, <1>7

-----------------------------------------------------------------------------
(* The inode table.                                                          *)

\* ilock reads an inode that is not valid, and leaves the counts alone.
LEMMA IlockFields ==
    ASSUME itab \in TabType, dino \in DinoType, NEW i \in Inums
    PROVE  LET tab == Ilock(itab, i) IN
           /\ tab \in TabType /\ \A j \in Inums : tab[j].ref = itab[j].ref
           /\ \A j \in Inums \ {i} : tab[j] = itab[j]
           /\ tab[i].valid
           /\ itab[i].valid => tab[i] = itab[i]
           /\ ~itab[i].valid => tab[i].type = dino[i].type /\ tab[i].nlink = dino[i].nlink
<1>1. CASE itab[i].valid
  BY <1>1 DEF Ilock
<1>2. CASE ~itab[i].valid
  <2> DEFINE x == [ref |-> itab[i].ref, valid |-> TRUE, type |-> dino[i].type, nlink |-> dino[i].nlink]
  <2>1. Ilock(itab, i) = [itab EXCEPT ![i] = x]
    BY <1>2 DEF Ilock
  <2>2. x \in [ref : Int, valid : BOOLEAN, type : Types, nlink : Int]
    BY DEF TabType, DinoType
  <2> QED
    BY <1>2, <2>1, <2>2 DEF TabType
<1> QED
  BY <1>1, <1>2

\* iget counts a reference; an entry that was not in use starts anew.
LEMMA IgetFields ==
    ASSUME NEW tab \in TabType, NEW i \in Inums, tab[i].ref \in Nat
    PROVE  LET new == Iget(tab, i) IN
           /\ new \in TabType /\ new[i].ref = tab[i].ref + 1
           /\ \A j \in Inums \ {i} : new[j] = tab[j]
           /\ IF tab[i].ref > 0 THEN new[i].valid = tab[i].valid /\ new[i].type = tab[i].type /\ new[i].nlink = tab[i].nlink
              ELSE ~new[i].valid
<1>1. CASE tab[i].ref > 0
  <2>1. Iget(tab, i) = [tab EXCEPT ![i].ref = @ + 1]
    BY <1>1 DEF Iget
  <2> QED
    BY <1>1, <2>1 DEF TabType
<1>2. CASE ~(tab[i].ref > 0)
  <2> DEFINE x == [NoEntry EXCEPT !.ref = 1]
  <2>1. Iget(tab, i) = [tab EXCEPT ![i] = x]
    BY <1>2 DEF Iget
  <2>4. NoEntry \in [ref : Int, valid : BOOLEAN, type : Types, nlink : Int]
    BY DEF NoEntry, Types
  <2>5. ~x.valid
    BY DEF NoEntry
  <2>2. x \in [ref : Int, valid : BOOLEAN, type : Types, nlink : Int] /\ x.ref = 1 /\ ~x.valid
    BY <2>4, <2>5
  <2>3. tab[i].ref = 0
    BY <1>2
  <2> QED
    BY <1>2, <2>1, <2>2, <2>3 DEF TabType
<1> QED
  BY <1>1, <1>2

\* A step from entry x and inode u to entry y and inode v that keeps a copy true.
Honest(x, y, u, v) ==
    y.ref > 0 /\ y.valid =>
        \/ y.type # "free" /\ y.type = v.type /\ y.nlink = v.nlink
        \/ /\ x.ref > 0 /\ x.valid /\ y.type = x.type /\ y.nlink = x.nlink
           /\ x.type = "free" \/ v = u

\* An entry and an inode that do not change keep a copy true.
LEMMA HonestSame ==
    ASSUME NEW x, NEW u
    PROVE  Honest(x, x, u, u)
BY DEF Honest

\* So does ilock, unless it panics.
LEMMA HonestIlock ==
    ASSUME itab \in TabType, dino \in DinoType, NEW i \in Inums, ~NoType(itab, i)
    PROVE  \A j \in Inums : Honest(itab[j], Ilock(itab, i)[j], dino[j], dino[j])
<1> DEFINE tab == Ilock(itab, i)
<1>1. /\ \A j \in Inums : tab[j].ref = itab[j].ref
      /\ \A j \in Inums \ {i} : tab[j] = itab[j]
      /\ itab[i].valid => tab[i] = itab[i]
      /\ ~itab[i].valid => tab[i].type = dino[i].type /\ tab[i].nlink = dino[i].nlink
  BY IlockFields
<1> HIDE DEF tab
<1>2. ~itab[i].valid => dino[i].type # "free"
  BY DEF NoType
<1>3. Honest(itab[i], tab[i], dino[i], dino[i])
  BY <1>1, <1>2 DEF Honest
<1>4. \A j \in Inums \ {i} : Honest(itab[j], tab[j], dino[j], dino[j])
  BY <1>1, HonestSame
<1> QED
  BY <1>3, <1>4 DEF tab

\* So does iget after any step that does.
LEMMA HonestIget ==
    ASSUME NEW tab \in TabType, NEW k \in Inums, tab[k].ref \in Nat, NEW old, NEW u, NEW v,
           \A j \in Inums : Honest(old[j], tab[j], u[j], v[j])
    PROVE  \A j \in Inums : Honest(old[j], Iget(tab, k)[j], u[j], v[j])
<1> DEFINE new == Iget(tab, k)
<1>1. /\ new[k].ref = tab[k].ref + 1
      /\ \A j \in Inums \ {k} : new[j] = tab[j]
      /\ IF tab[k].ref > 0 THEN new[k].valid = tab[k].valid /\ new[k].type = tab[k].type /\ new[k].nlink = tab[k].nlink
         ELSE ~new[k].valid
  BY IgetFields
<1> HIDE DEF new
<1>2. Honest(old[k], new[k], u[k], v[k])
  BY <1>1 DEF Honest
<1> QED
  BY <1>1, <1>2 DEF new

-----------------------------------------------------------------------------
(* What a step of one process leaves alone.                                  *)

\* p is the only process that moves.
Alone(p) == \A q \in Users \ {p} : sysc'[q] = sysc[q] /\ cwd'[q] = cwd[q] /\ ofile'[q] = ofile[q]
LockStep(p) == \A i \in Inums : ilk'[i] = ilk[i] \/ ilk[i] \in {NoUser, p}

\* A step of p that keeps to its own locks leaves the calls of the others in order.
LEMMA CallKept ==
    ASSUME CallInv, NEW p \in Users, Alone(p), LockStep(p),
           Shape(sysc'[p]), Locked(ilk', p, sysc'[p]), Leaves(cwd'[p], ofile'[p], sysc'[p])
    PROVE  CallInv'
<1>1. ASSUME NEW q \in Users \ {p}
      PROVE  Shape(sysc'[q]) /\ Locked(ilk', q, sysc'[q]) /\ Leaves(cwd'[q], ofile'[q], sysc'[q])
  <2> DEFINE c == sysc[q]
  <2>1. sysc'[q] = c /\ Shape(c) /\ Locked(ilk, q, c) /\ Leaves(cwd'[q], ofile'[q], c)
    BY DEF Alone, CallInv
  <2>2. q # NoUser
    BY InodeAssumption
  <2>3. \A i \in Inums : ilk[i] = q => ilk'[i] = q
    BY <2>2 DEF LockStep
  <2>4. Place(c) \in KeepsDp => c.dp \in Inums
    BY <2>1 DEF Shape, SyscType, InumOr0, KeepsDp, DpPlaces
  <2>5. Place(c) \in KeepsIp => c.ip \in Inums
    BY <2>1 DEF Shape, SyscType, InumOr0, KeepsIp, IpPlaces
  <2>6. c.pc \in {"free", "invalidate"} => Head(c.puts) \in Inums
    <3>1. c.puts \in Seq(Inums) /\ (c.pc \in {"free", "invalidate"} => c.puts # <<>>)
      BY <2>1 DEF Shape, SyscType, Putting
    <3> HIDE DEF c
    <3> QED
      BY <3>1, HeadTailProperties
  <2> HIDE DEF c
  <2>7. Locked(ilk', q, c)
    BY <2>1, <2>3, <2>4, <2>5, <2>6 DEF Locked
  <2> QED
    BY <2>1, <2>7
<1> QED
  BY <1>1 DEF CallInv

\* The copies stay true.
LEMMA CopyKept ==
    ASSUME CopyInv, NEW p \in Users, \A q \in Users \ {p} : sysc'[q] = sysc[q], sysc[p].pc # "invalidate",
           ~fpanic' => ~fpanic /\ \A j \in Inums : Honest(itab[j], itab'[j], dino[j], dino'[j])
    PROVE  CopyInv'
<1> SUFFICES ASSUME ~fpanic', NEW j \in Inums
             PROVE  CopyFit(j)'
  BY DEF CopyInv
<1>1. CopyFit(j) /\ Honest(itab[j], itab'[j], dino[j], dino'[j])
  BY DEF CopyInv
<1>2. Freeing(j) => Freeing(j)'
  BY DEF Freeing
<1> QED
  BY <1>1, <1>2 DEF CopyFit, Honest

\* The counts of the inode table stay exact.
LEMMA InodeRefsKept ==
    ASSUME InodeInv, CallInv', NEW p \in Users, Alone(p), \A f \in 1 .. NFILE : ftab'[f].ip = ftab[f].ip,
           \A i \in Inums : \E d \in {0 - 1, 0, 1} :
               Holding(sysc'[p], cwd'[p], i) = Holding(sysc[p], cwd[p], i) + d /\ itab'[i].ref = itab[i].ref + d
    PROVE  InodeRefs'
<1>1. Regular(sysc) /\ Regular(sysc')
  BY DEF InodeInv, CallInv, Shape, Regular
<1> SUFFICES ASSUME NEW i \in Inums
             PROVE  itab'[i].ref = Cardinality(Upto(Locals(i)')) + Cardinality(FilesOn(i)')
  BY DEF InodeRefs, Upto
<1>2. PICK d \in {0 - 1, 0, 1} : Holding(sysc'[p], cwd'[p], i) = Holding(sysc[p], cwd[p], i) + d /\ itab'[i].ref = itab[i].ref + d
  OBVIOUS
<1>3. Locals(i) = LocalsOf(sysc, cwd, i) /\ Locals(i)' = LocalsOf(sysc', cwd', i)
  BY DEF Locals, LocalsOf
<1>4. Cardinality(Upto(Locals(i)')) = Cardinality(Upto(Locals(i))) + d
  BY <1>1, <1>2, <1>3, LocalsStep DEF Alone
<1>5. FilesOn(i)' = FilesOn(i)
  BY DEF FilesOn
<1>6. itab[i].ref = Cardinality(Upto(Locals(i))) + Cardinality(FilesOn(i))
  BY DEF InodeInv, InodeRefs
<1>7. Cardinality(FilesOn(i)) \in Nat /\ Cardinality(Upto(Locals(i))) \in Nat
  <2>1. IsFiniteSet(1 .. NFILE)
    BY InodeAssumption, FS_Interval
  <2>2. FilesOn(i) \subseteq 1 .. NFILE
    BY DEF FilesOn
  <2> QED
    BY <2>1, <2>2, FS_Subset, FS_CardinalityType, UptoFinite
<1> QED
  BY <1>2, <1>4, <1>5, <1>6, <1>7

\* The counts of the inode table are natural numbers.
LEMMA RefNat ==
    ASSUME InodeInv, NEW i \in Inums
    PROVE  itab[i].ref \in Nat
<1>1. Cardinality(FilesOn(i)) \in Nat /\ Cardinality(Upto(Locals(i))) \in Nat
  <2>1. IsFiniteSet(1 .. NFILE)
    BY InodeAssumption, FS_Interval
  <2>2. FilesOn(i) \subseteq 1 .. NFILE
    BY DEF FilesOn
  <2> QED
    BY <2>1, <2>2, FS_Subset, FS_CardinalityType, UptoFinite
<1> QED
  BY <1>1 DEF InodeInv, InodeRefs

\* 0 is no inode, and what is in puts counts one by one.
LEMMA Counts ==
    ASSUME NEW i \in Inums
    PROVE  /\ One(0, i) = 0 /\ PutCount(<<>>, i) = 0
           /\ \A a : PutCount(<<a>>, i) = One(a, i) /\ One(a, i) \in {0, 1}
           /\ \A a, b : PutCount(<<a, b>>, i) = One(a, i) + One(b, i)
<1>1. i # 0
  BY InodeAssumption
<1>2. One(0, i) = 0 /\ \A a : One(a, i) \in {0, 1}
  BY <1>1 DEF One
<1>3. PutCount(<<>>, i) = 0
  BY DEF PutCount
<1>4. ASSUME NEW a PROVE PutCount(<<a>>, i) = One(a, i)
  BY DEF PutCount, One
<1>5. ASSUME NEW a, NEW b PROVE PutCount(<<a, b>>, i) = One(a, i) + One(b, i)
  BY DEF PutCount, One
<1> QED
  BY <1>2, <1>3, <1>4, <1>5

\* A process that does nothing holds nothing.
LEMMA IdleShape ==
    /\ Idle \in SyscType /\ Gone \in SyscType
    /\ Idle.pc = "user" /\ Idle.ip = 0 /\ Idle.dp = 0 /\ Idle.target = 0 /\ Idle.puts = <<>> /\ Place(Idle) = "user"
    /\ Gone.pc = "gone" /\ Gone.ip = 0 /\ Gone.dp = 0 /\ Gone.target = 0 /\ Gone.puts = <<>> /\ Place(Gone) = "gone"
    /\ Shape(Idle) /\ Shape(Gone)
<1>1. Idle \in SyscType
  BY DEF Idle, SyscType, SysNames, Places, IpPlaces, DpPlaces, TargetPlaces, InumOr0
<1>2. Idle.pc = "user" /\ Idle.ip = 0 /\ Idle.dp = 0 /\ Idle.target = 0 /\ Idle.puts = <<>>
  BY DEF Idle
<1>3. Gone \in SyscType /\ Gone.pc = "gone" /\ Gone.ip = 0 /\ Gone.dp = 0 /\ Gone.target = 0 /\ Gone.puts = <<>>
  <2>1. "gone" \in Places
    BY DEF Places
  <2> QED
    BY <1>1, <1>2, <2>1 DEF Gone, SyscType
<1>4. Place(Idle) = "user" /\ Place(Gone) = "gone"
  BY <1>2, <1>3 DEF Place, Putting
<1>5. Len(<<>>) = 0
  OBVIOUS
<1>6. ASSUME NEW c \in SyscType, Place(c) \in {"user", "gone"}, c.pc \in {"user", "gone"},
             c.ip = 0, c.dp = 0, c.target = 0, c.puts = <<>>
      PROVE  Shape(c)
  BY <1>5, <1>6 DEF Shape, IpPlaces, DpPlaces, TargetPlaces, Putting
<1> QED
  BY <1>1, <1>2, <1>3, <1>4, <1>6

\* The places of a call.
LEMMA PlacesApart == \A x \in Places : x \notin Putting
BY DEF Places, IpPlaces, DpPlaces, TargetPlaces, Putting

\* Beginning to put inodes.
LEMMA PutThenFields ==
    ASSUME NEW c \in SyscType, NEW s \in Seq(Inums), NEW w \in Places
    PROVE  LET e == PutThen(c, s, w) IN
           /\ e \in SyscType /\ e.pc = "put" /\ e.puts = s /\ e.back = w /\ Place(e) = w
           /\ e.sys = c.sys /\ e.then = c.then /\ e.fail = c.fail /\ e.path = c.path /\ e.par = c.par
           /\ e.ip = c.ip /\ e.dp = c.dp /\ e.target = c.target /\ e.name = c.name /\ e.arg = c.arg
<1>1. PutThen(c, s, w) = [c EXCEPT !.pc = "put", !.puts = s, !.back = w]
  BY DEF PutThen
<1>2. "put" \in Places \union Putting /\ "put" \in Putting
  BY DEF Putting
<1> QED
  BY <1>1, <1>2 DEF SyscType, Place

\* Going on.
LEMMA GotoFields ==
    ASSUME NEW c \in SyscType, NEW w \in Places, w \in {"user", "gone"} => c.ip = 0 /\ c.dp = 0 /\ c.target = 0 /\ c.puts = <<>>
    PROVE  LET e == Goto(c, w) IN
           /\ e \in SyscType /\ e.pc = w /\ e.puts = c.puts /\ Place(e) = w
           /\ e.ip = c.ip /\ e.dp = c.dp /\ e.target = c.target
           /\ w \notin {"user", "gone"} => e.then = c.then /\ e.fail = c.fail /\ e.par = c.par /\ e.arg = c.arg
<1>1. CASE w = "user"
  BY <1>1, IdleShape DEF Goto
<1>2. CASE w = "gone"
  BY <1>2, IdleShape DEF Goto
<1>3. CASE w \notin {"user", "gone"}
  <2>1. Goto(c, w) = [c EXCEPT !.pc = w]
    BY <1>3 DEF Goto
  <2>2. w \notin Putting
    BY PlacesApart
  <2> QED
    BY <1>3, <2>1, <2>2 DEF SyscType, Place
<1> QED
  BY <1>1, <1>2, <1>3

\* After the last inode in puts.
LEMMA PutDoneFields ==
    ASSUME NEW c, Shape(c), c.pc \in Putting
    PROVE  LET e == PutDone(c) IN
           /\ Shape(e) /\ Place(e) = Place(c) /\ e.pc \notin {"free", "invalidate"}
           /\ e.ip = c.ip /\ e.dp = c.dp /\ e.target = c.target /\ Head(c.puts) \in Inums
           /\ \A i \in Inums : PutCount(c.puts, i) = PutCount(e.puts, i) + One(Head(c.puts), i)
<1>1. /\ c \in SyscType /\ c.puts \in Seq(Inums) /\ c.puts # <<>> /\ Len(c.puts) <= 2 /\ Place(c) = c.back /\ c.back \in Places
      /\ Len(c.puts) \in Nat /\ Head(c.puts) \in Inums /\ Tail(c.puts) \in Seq(Inums) /\ Len(Tail(c.puts)) = Len(c.puts) - 1
      /\ Head(c.puts) = c.puts[1] /\ (Len(c.puts) = 2 => Tail(c.puts)[1] = c.puts[2])
  <2>1. c \in SyscType /\ c.puts \in Seq(Inums) /\ c.puts # <<>> /\ Len(c.puts) <= 2 /\ Place(c) = c.back /\ c.back \in Places
    BY DEF Shape, SyscType, Place
  <2> DEFINE s == c.puts
  <2>2. s \in Seq(Inums) /\ s # <<>> /\ Len(s) <= 2
    BY <2>1
  <2> HIDE DEF s
  <2>3. Len(s) \in Nat /\ Head(s) \in Inums /\ Tail(s) \in Seq(Inums) /\ Len(Tail(s)) = Len(s) - 1 /\ Head(s) = s[1] /\ \A i \in 1 .. Len(Tail(s)) : Tail(s)[i] = s[i + 1]
    BY <2>2, HeadTailProperties, LenProperties
  <2> QED
    BY <2>1, <2>3 DEF s
<1>2. CASE Len(c.puts) = 1
  <2> DEFINE nil == <<>>
             b == [c EXCEPT !.puts = nil]
             e == Goto(b, c.back)
  <2>8. nil \in Seq(Inums) /\ nil = <<>>
    OBVIOUS
  <2> HIDE DEF nil
  <2>1. /\ b \in SyscType /\ b.puts = <<>> /\ b.ip = c.ip /\ b.dp = c.dp /\ b.target = c.target
        /\ b.then = c.then /\ b.fail = c.fail /\ b.par = c.par /\ b.arg = c.arg
    BY <1>1, <2>8 DEF SyscType
  <2>2. c.back \in {"user", "gone"} => c.ip = 0 /\ c.dp = 0 /\ c.target = 0
    BY <1>1 DEF Shape, IpPlaces, DpPlaces, TargetPlaces
  <2>3. PutDone(c) = e
    BY <1>2, <2>8 DEF PutDone
  <2> HIDE DEF b
  <2>4. /\ e \in SyscType /\ e.pc = c.back /\ e.puts = <<>> /\ Place(e) = c.back
        /\ e.ip = c.ip /\ e.dp = c.dp /\ e.target = c.target
        /\ c.back \notin {"user", "gone"} => e.then = c.then /\ e.fail = c.fail /\ e.par = c.par /\ e.arg = c.arg
    BY <1>1, <2>1, <2>2, GotoFields
  <2> HIDE DEF e
  <2>5. Shape(e)
    <3>1. c.back \notin Putting /\ Len(<<>>) = 0
      BY <1>1, PlacesApart
    <3>2. CASE c.back \in {"user", "gone"}
      BY <2>2, <2>4, <3>1, <3>2 DEF Shape, IpPlaces, DpPlaces, TargetPlaces
    <3>3. CASE c.back \notin {"user", "gone"}
      BY <1>1, <2>4, <3>1, <3>3 DEF Shape, WalkFit
    <3> QED
      BY <3>2, <3>3
  <2>6. e.pc \notin {"free", "invalidate"}
    BY <1>1, <2>4, PlacesApart DEF Putting
  <2>7. ASSUME NEW i \in Inums PROVE PutCount(c.puts, i) = PutCount(e.puts, i) + One(Head(c.puts), i)
    <3>1. PutCount(c.puts, i) = One(c.puts[1], i) /\ One(c.puts[1], i) \in {0, 1}
      BY <1>2 DEF PutCount, One
    <3> QED
      BY <1>1, <2>4, <3>1, Counts
  <2> QED
    BY <1>1, <2>3, <2>4, <2>5, <2>6, <2>7
<1>3. CASE Len(c.puts) # 1
  <2>0. Len(c.puts) = 2
    <3> DEFINE n == Len(c.puts)
    <3>1. n \in Nat /\ n <= 2 /\ n # 0 /\ n # 1
      BY <1>1, <1>3
    <3> HIDE DEF n
    <3>2. n = 2
      BY <3>1
    <3> QED
      BY <3>2 DEF n
  <2> DEFINE e == [c EXCEPT !.pc = "put", !.puts = Tail(@)]
  <2>1. PutDone(c) = e
    BY <1>3 DEF PutDone
  <2>2. "put" \in Putting /\ "put" \in Places \union Putting
    BY DEF Putting
  <2>3. /\ e \in SyscType /\ e.pc = "put" /\ e.puts = Tail(c.puts) /\ e.back = c.back
        /\ e.ip = c.ip /\ e.dp = c.dp /\ e.target = c.target
        /\ e.then = c.then /\ e.fail = c.fail /\ e.par = c.par /\ e.arg = c.arg
    BY <1>1, <2>2 DEF SyscType
  <2> HIDE DEF e
  <2>4. Len(e.puts) = 1 /\ e.puts # <<>>
    <3>1. Len(e.puts) = 1
      BY <1>1, <2>0, <2>3
    <3> QED
      BY <3>1
  <2>5. Place(e) = c.back
    BY <2>2, <2>3 DEF Place
  <2>6. Shape(e)
    BY <1>1, <2>2, <2>3, <2>4, <2>5 DEF Shape, WalkFit
  <2>7. ASSUME NEW i \in Inums PROVE PutCount(c.puts, i) = PutCount(e.puts, i) + One(Head(c.puts), i)
    <3>1. PutCount(c.puts, i) = One(c.puts[1], i) + One(c.puts[2], i)
      BY <2>0 DEF PutCount, One
    <3>3. e.puts[1] = c.puts[2] /\ Head(c.puts) = c.puts[1]
      BY <1>1, <2>0, <2>3
    <3>2. PutCount(e.puts, i) = One(e.puts[1], i)
      BY <2>4 DEF PutCount, One
    <3>4. One(c.puts[1], i) \in {0, 1} /\ One(c.puts[2], i) \in {0, 1}
      BY DEF One
    <3> QED
      BY <3>1, <3>2, <3>3, <3>4
  <2> QED
    BY <1>1, <2>1, <2>3, <2>5, <2>6, <2>7
<1> QED
  BY <1>2, <1>3

\* A step of p that leaves files and current directories alone.
LEMMA PlainStep ==
    ASSUME InodeInv, NEW p \in Users, sysc' = [sysc EXCEPT ![p] = sysc'[p]], Shape(sysc'[p]),
           UNCHANGED <<ftab, ofile, cwd>>, Place(sysc'[p]) = "gone" <=> Place(sysc[p]) = "gone",
           dino' \in DinoType, itab' \in TabType, ilk' \in [Inums -> Users \union {NoUser}],
           \A e \in ents' : e[3] \in Inums, fpanic' \in BOOLEAN,
           Locked(ilk', p, sysc'[p]), LockStep(p), CopyInv',
           \A i \in Inums : \E d \in {0 - 1, 0, 1} :
               Holding(sysc'[p], cwd[p], i) = Holding(sysc[p], cwd[p], i) + d /\ itab'[i].ref = itab[i].ref + d
    PROVE  InodeInv'
<1>1. InodeType /\ CallInv /\ FileInv /\ FileRefs /\ sysc \in [Users -> SyscType]
  BY DEF InodeInv, InodeType
<1>2. sysc' \in [Users -> SyscType] /\ \A q \in Users \ {p} : sysc'[q] = sysc[q]
  BY <1>1 DEF Shape
<1>3. Alone(p)
  BY <1>2 DEF Alone
<1>4. InodeType'
  BY <1>1, <1>2 DEF InodeType
<1>5. CallInv'
  <2>1. Leaves(cwd'[p], ofile'[p], sysc'[p])
    BY <1>1 DEF CallInv, Leaves
  <2> QED
    BY <1>1, <1>3, <2>1, CallKept
<1>6. FileInv'
  BY <1>1 DEF FileInv
<1>7. InodeRefs'
  BY <1>3, <1>5, InodeRefsKept
<1>8. FileRefs'
  <2>1. \A f \in 1 .. NFILE : Naming(f)' = Naming(f)
    BY DEF Naming
  <2> QED
    BY <1>1, <2>1 DEF FileRefs
<1> QED
  BY <1>4, <1>5, <1>6, <1>7, <1>8 DEF InodeInv

\* The summands of a count.
LEMMA CountTyped ==
    ASSUME NEW i
    PROVE  (\A x : One(x, i) \in {0, 1}) /\ \A s : PutCount(s, i) \in {0, 1, 2}
BY DEF One, PutCount

\* What is known of the call of p.
LEMMA Known ==
    ASSUME InodeInv, NEW p \in Users
    PROVE  /\ sysc[p] \in SyscType /\ Shape(sysc[p]) /\ Locked(ilk, p, sysc[p]) /\ Leaves(cwd[p], ofile[p], sysc[p])
           /\ sysc \in [Users -> SyscType] /\ dino \in DinoType /\ itab \in TabType /\ ilk \in [Inums -> Users \union {NoUser}]
           /\ (\A e \in ents : e[3] \in Inums) /\ fpanic \in BOOLEAN /\ CopyInv /\ p # NoUser
BY InodeAssumption DEF InodeInv, InodeType, CallInv

\* A reference in puts is dropped.
LEMMA RefDropped ==
    ASSUME InodeInv, NEW p \in Users, sysc[p].pc \in {"put", "unref"}, Now(p, PutDone(sysc[p])),
           itab' = [itab EXCEPT ![Head(sysc[p].puts)].ref = @ - 1], UNCHANGED <<dino, ents, ilk, ftab, ofile, cwd, fpanic>>
    PROVE  InodeInv'
<1> DEFINE c == sysc[p]
           e == PutDone(c)
           i == Head(c.puts)
<1>1. /\ Shape(c) /\ Locked(ilk, p, c) /\ sysc \in [Users -> SyscType] /\ dino \in DinoType /\ itab \in TabType
      /\ ilk \in [Inums -> Users \union {NoUser}] /\ (\A x \in ents : x[3] \in Inums) /\ fpanic \in BOOLEAN /\ CopyInv
  BY Known
<1>2. /\ Shape(e) /\ Place(e) = Place(c) /\ e.pc \notin {"free", "invalidate"}
      /\ e.ip = c.ip /\ e.dp = c.dp /\ e.target = c.target /\ i \in Inums
      /\ \A j \in Inums : PutCount(c.puts, j) = PutCount(e.puts, j) + One(i, j)
  BY <1>1, PutDoneFields DEF Putting
<1>3. sysc'[p] = e /\ sysc' = [sysc EXCEPT ![p] = e]
  BY <1>1 DEF Now
<1> HIDE DEF e
<1>4. itab' \in TabType /\ \A j \in Inums : itab'[j].ref = itab[j].ref - One(i, j) /\ itab'[j].valid = itab[j].valid /\ itab'[j].type = itab[j].type /\ itab'[j].nlink = itab[j].nlink
  <2>1. itab' = [itab EXCEPT ![i].ref = @ - 1] /\ i \in Inums
    BY <1>2
  <2> HIDE DEF i
  <2> QED
    BY <1>1, <2>1 DEF TabType, One
<1>5. CopyInv'
  <2>1. ASSUME NEW j \in Inums PROVE Honest(itab[j], itab'[j], dino[j], dino'[j])
    <3>1. One(i, j) \in {0, 1} /\ itab[j].ref \in Int
      BY <1>1, CountTyped DEF TabType
    <3>2. itab'[j].ref > 0 => itab[j].ref > 0
      BY <1>4, <3>1
    <3> QED
      BY <1>4, <3>2 DEF Honest
  <2>2. \A q \in Users \ {p} : sysc'[q] = sysc[q]
    BY <1>1, <1>3
  <2>3. sysc[p].pc # "invalidate"
    OBVIOUS
  <2> QED
    BY <1>1, <2>1, <2>2, <2>3, CopyKept
<1>6. Locked(ilk', p, e) /\ LockStep(p)
  BY <1>1, <1>2 DEF Locked, LockStep
<1>7. ASSUME NEW j \in Inums
      PROVE  \E d \in {0 - 1, 0, 1} : Holding(e, cwd[p], j) = Holding(c, cwd[p], j) + d /\ itab'[j].ref = itab[j].ref + d
  <2> DEFINE d == 0 - One(i, j)
  <2>4. One(i, j) \in {0, 1} /\ itab[j].ref \in Int
    BY <1>1, CountTyped DEF TabType
  <2>1. d \in {0 - 1, 0, 1} /\ itab[j].ref \in Int
    BY <2>4
  <2>2. itab'[j].ref = itab[j].ref + d
    BY <1>4, <2>1, CountTyped
  <2>3. Holding(e, cwd[p], j) = Holding(c, cwd[p], j) + d
    <3>1. \A x : One(x, j) \in {0, 1}
      BY CountTyped
    <3>2. PutCount(c.puts, j) = PutCount(e.puts, j) + One(i, j) /\ PutCount(e.puts, j) \in {0, 1, 2}
      BY <1>2, CountTyped
    <3> HIDE DEF i
    <3> QED
      BY <1>2, <3>1, <3>2 DEF Holding
  <2> QED
    BY <2>1, <2>2, <2>3
<1> HIDE DEF c
<1> QED
  BY <1>1, <1>2, <1>3, <1>4, <1>5, <1>6, <1>7, PlainStep DEF c

\* iput of a reference that is not the last one, or of an inode with links.
LEMMA IputStep ==
    ASSUME InodeInv, NEW p \in Users, Iput(p)
    PROVE  InodeInv'
<1> DEFINE c == sysc[p]
           i == Head(c.puts)
<1>1. CASE ~LastRef(i) /\ itab' = [itab EXCEPT ![i].ref = @ - 1] /\ Now(p, PutDone(c)) /\ UNCHANGED ilk
  BY <1>1, RefDropped DEF Iput, At, dirVars, fileVars
<1>2. CASE LastRef(i) /\ LockFree(i) /\ ilk' = [ilk EXCEPT ![i] = p] /\ Now(p, [c EXCEPT !.pc = "free"]) /\ UNCHANGED itab
  <2> DEFINE e == [c EXCEPT !.pc = "free"]
  <2>1. /\ c \in SyscType /\ Shape(c) /\ Locked(ilk, p, c) /\ sysc \in [Users -> SyscType] /\ dino \in DinoType /\ itab \in TabType
        /\ ilk \in [Inums -> Users \union {NoUser}] /\ (\A x \in ents : x[3] \in Inums) /\ fpanic \in BOOLEAN /\ CopyInv /\ p # NoUser
    BY Known
  <2>2. c.pc = "put" /\ UNCHANGED <<dino, ents, ftab, ofile, cwd, fpanic>> /\ ilk[i] = NoUser
    BY <1>2 DEF Iput, At, dirVars, fileVars, LockFree
  <2>3. sysc'[p] = e /\ sysc' = [sysc EXCEPT ![p] = e]
    BY <1>2, <2>1 DEF Now
  <2>4. i \in Inums
    BY <2>1, <2>2, PutDoneFields DEF Putting
  <2>5. /\ e \in SyscType /\ e.pc = "free" /\ e.puts = c.puts /\ e.back = c.back
        /\ e.ip = c.ip /\ e.dp = c.dp /\ e.target = c.target
        /\ e.then = c.then /\ e.fail = c.fail /\ e.par = c.par /\ e.arg = c.arg
    <3>1. "free" \in Places \union Putting
      BY DEF Putting
    <3> QED
      BY <2>1, <3>1 DEF SyscType
  <2>6. c.pc \in Putting /\ e.pc \in Putting /\ Place(e) = c.back /\ Place(c) = c.back
    BY <2>2, <2>5 DEF Place, Putting
  <2> HIDE DEF e
  <2>7. Shape(e)
    BY <2>1, <2>5, <2>6 DEF Shape, WalkFit
  <2>8. ilk' \in [Inums -> Users \union {NoUser}] /\ ilk'[i] = p /\ \A j \in Inums \ {i} : ilk'[j] = ilk[j]
    BY <1>2, <2>1, <2>4
  <2>9. LockStep(p)
    BY <2>2, <2>8 DEF LockStep
  <2>10. Locked(ilk', p, e)
    <3>1. Place(c) \in KeepsDp => c.dp \in Inums /\ ilk[c.dp] = p
      BY <2>1 DEF Shape, SyscType, InumOr0, KeepsDp, DpPlaces, Locked
    <3>2. Place(c) \in KeepsIp => c.ip \in Inums /\ ilk[c.ip] = p
      BY <2>1 DEF Shape, SyscType, InumOr0, KeepsIp, IpPlaces, Locked
    <3> HIDE DEF c
    <3>3. Place(c) \in KeepsDp => c.dp # i
      BY <2>1, <2>2, <3>1
    <3>4. Place(c) \in KeepsIp => c.ip # i
      BY <2>1, <2>2, <3>2
    <3> QED
      BY <2>5, <2>6, <2>8, <3>1, <3>2, <3>3, <3>4 DEF Locked
  <2>11. CopyInv'
    <3>1. \A j \in Inums : Honest(itab[j], itab'[j], dino[j], dino'[j])
      BY <1>2, <2>2, HonestSame
    <3>2. \A q \in Users \ {p} : sysc'[q] = sysc[q]
      BY <2>1, <2>3
    <3> QED
      BY <2>1, <2>2, <3>1, <3>2, CopyKept
  <2>12. ASSUME NEW j \in Inums
         PROVE  \E d \in {0 - 1, 0, 1} : Holding(e, cwd[p], j) = Holding(c, cwd[p], j) + d /\ itab'[j].ref = itab[j].ref + d
    <3>1. Holding(e, cwd[p], j) = Holding(c, cwd[p], j)
      BY <2>5 DEF Holding
    <3>2. Holding(c, cwd[p], j) \in 0 .. 6 /\ itab[j].ref \in Int
      BY <2>1, HoldingTyped DEF TabType
    <3>3. Holding(e, cwd[p], j) = Holding(c, cwd[p], j) + 0 /\ itab'[j].ref = itab[j].ref + 0
      BY <1>2, <3>1, <3>2
    <3> QED
      BY <3>3
  <2>13. UNCHANGED <<ftab, ofile, cwd>> /\ dino' \in DinoType /\ itab' \in TabType /\ (\A x \in ents' : x[3] \in Inums) /\ fpanic' \in BOOLEAN
    BY <1>2, <2>1, <2>2
  <2> HIDE DEF c
  <2> QED
    BY <2>13, <2>3, <2>6, <2>7, <2>8, <2>9, <2>10, <2>11, <2>12, PlainStep DEF c
<1> QED
  BY <1>1, <1>2 DEF Iput

\* The inode on disk is free.
LEMMA IputFreeStep ==
    ASSUME InodeInv, NEW p \in Users, IputFree(p)
    PROVE  InodeInv'
<1> DEFINE c == sysc[p]
           i == Head(c.puts)
           e == [c EXCEPT !.pc = "invalidate"]
<1>1. /\ c \in SyscType /\ Shape(c) /\ Locked(ilk, p, c) /\ sysc \in [Users -> SyscType] /\ dino \in DinoType /\ itab \in TabType
      /\ ilk \in [Inums -> Users \union {NoUser}] /\ (\A x \in ents : x[3] \in Inums) /\ fpanic \in BOOLEAN /\ CopyInv /\ p # NoUser
  BY Known
<1>2. /\ c.pc = "free" /\ UNCHANGED <<ilk, ftab, ofile, cwd, fpanic>>
      /\ dino' = [dino EXCEPT ![i] = [type |-> "free", nlink |-> itab[i].nlink]] /\ ents' \subseteq ents
      /\ itab' = [itab EXCEPT ![i].type = "free"]
  BY DEF IputFree, At, dirVars, fileVars
<1>3. sysc'[p] = e /\ sysc' = [sysc EXCEPT ![p] = e]
  BY <1>1 DEF IputFree, Now
<1>4. i \in Inums
  BY <1>1, <1>2, PutDoneFields DEF Putting
<1>5. /\ e \in SyscType /\ e.pc = "invalidate" /\ e.puts = c.puts /\ e.back = c.back
      /\ e.ip = c.ip /\ e.dp = c.dp /\ e.target = c.target
      /\ e.then = c.then /\ e.fail = c.fail /\ e.par = c.par /\ e.arg = c.arg
  <2>1. "invalidate" \in Places \union Putting
    BY DEF Putting
  <2> QED
    BY <1>1, <2>1 DEF SyscType
<1>6. c.pc \in Putting /\ e.pc \in Putting /\ Place(e) = c.back /\ Place(c) = c.back
  BY <1>2, <1>5 DEF Place, Putting
<1> HIDE DEF e
<1>7. Shape(e)
  BY <1>1, <1>5, <1>6 DEF Shape, WalkFit
<1>8. Locked(ilk', p, e) /\ LockStep(p)
  BY <1>1, <1>2, <1>5, <1>6 DEF Locked, LockStep
<1>9. "free" \in Types
  BY DEF Types
<1>10. /\ itab' \in TabType /\ dino' \in DinoType /\ itab'[i].type = "free"
       /\ \A j \in Inums : itab'[j].ref = itab[j].ref /\ (j # i => itab'[j] = itab[j] /\ dino'[j] = dino[j])
  <2> DEFINE x == [type |-> "free", nlink |-> itab[i].nlink]
  <2>1. x \in [type : Types, nlink : Int]
    BY <1>1, <1>4, <1>9 DEF TabType
  <2>2. dino' = [dino EXCEPT ![i] = x]
    BY <1>2
  <2> HIDE DEF x
  <2>3. dino' \in DinoType /\ \A j \in Inums : j # i => dino'[j] = dino[j]
    BY <1>1, <1>4, <2>1, <2>2 DEF DinoType
  <2> HIDE DEF i
  <2> QED
    BY <1>1, <1>2, <1>4, <1>9, <2>3 DEF TabType
<1>11. CopyInv'
  <2> SUFFICES ASSUME ~fpanic', NEW j \in Inums
               PROVE  CopyFit(j)'
    BY DEF CopyInv
  <2>1. CASE j = i
    <3>1. Freeing(j)'
      BY <1>3, <1>5, <2>1 DEF Freeing
    <3> HIDE DEF i
    <3> QED
      BY <1>10, <2>1, <3>1 DEF CopyFit
  <2>2. CASE j # i
    <3>1. CopyFit(j)
      BY <1>1, <1>2 DEF CopyInv
    <3>2. Freeing(j) => Freeing(j)'
      BY <1>1, <1>2, <1>3 DEF Freeing
    <3> QED
      BY <1>10, <2>2, <3>1, <3>2 DEF CopyFit
  <2> QED
    BY <2>1, <2>2
<1>12. ASSUME NEW j \in Inums
       PROVE  \E d \in {0 - 1, 0, 1} : Holding(e, cwd[p], j) = Holding(c, cwd[p], j) + d /\ itab'[j].ref = itab[j].ref + d
  <2>1. Holding(e, cwd[p], j) = Holding(c, cwd[p], j)
    BY <1>5 DEF Holding
  <2>2. Holding(c, cwd[p], j) \in 0 .. 6 /\ itab[j].ref \in Int
    BY <1>1, HoldingTyped DEF TabType
  <2>3. Holding(e, cwd[p], j) = Holding(c, cwd[p], j) + 0 /\ itab'[j].ref = itab[j].ref + 0
    BY <1>10, <2>1, <2>2
  <2> QED
    BY <2>3
<1>13. (\A x \in ents' : x[3] \in Inums) /\ fpanic' \in BOOLEAN /\ ilk' \in [Inums -> Users \union {NoUser}]
  BY <1>1, <1>2
<1> HIDE DEF c
<1> QED
  BY <1>2, <1>3, <1>6, <1>7, <1>8, <1>10, <1>11, <1>12, <1>13, PlainStep DEF c

\* The copy is given up with the lock.
LEMMA IputInvalidateStep ==
    ASSUME InodeInv, NEW p \in Users, IputInvalidate(p)
    PROVE  InodeInv'
<1> DEFINE c == sysc[p]
           i == Head(c.puts)
           e == [c EXCEPT !.pc = "unref"]
<1>1. /\ c \in SyscType /\ Shape(c) /\ Locked(ilk, p, c) /\ sysc \in [Users -> SyscType] /\ dino \in DinoType /\ itab \in TabType
      /\ ilk \in [Inums -> Users \union {NoUser}] /\ (\A x \in ents : x[3] \in Inums) /\ fpanic \in BOOLEAN /\ CopyInv /\ p # NoUser
  BY Known
<1>2. /\ c.pc = "invalidate" /\ UNCHANGED <<dino, ents, ftab, ofile, cwd, fpanic>>
      /\ ilk' = [ilk EXCEPT ![i] = NoUser] /\ itab' = [itab EXCEPT ![i].valid = FALSE]
  BY DEF IputInvalidate, At, dirVars, fileVars
<1>3. sysc'[p] = e /\ sysc' = [sysc EXCEPT ![p] = e]
  BY <1>1 DEF IputInvalidate, Now
<1>4. i \in Inums
  BY <1>1, <1>2, PutDoneFields DEF Putting
<1>5. /\ e \in SyscType /\ e.pc = "unref" /\ e.puts = c.puts /\ e.back = c.back
      /\ e.ip = c.ip /\ e.dp = c.dp /\ e.target = c.target
      /\ e.then = c.then /\ e.fail = c.fail /\ e.par = c.par /\ e.arg = c.arg
  <2>1. "unref" \in Places \union Putting
    BY DEF Putting
  <2> QED
    BY <1>1, <2>1 DEF SyscType
<1>6. c.pc \in Putting /\ e.pc \in Putting /\ Place(e) = c.back /\ Place(c) = c.back
  BY <1>2, <1>5 DEF Place, Putting
<1> HIDE DEF e
<1>7. Shape(e)
  BY <1>1, <1>5, <1>6 DEF Shape, WalkFit
<1>8. ilk' \in [Inums -> Users \union {NoUser}] /\ \A j \in Inums \ {i} : ilk'[j] = ilk[j]
  BY <1>1, <1>2, <1>4
<1>9. ilk[i] = p /\ (Place(c) \in KeepsDp => i # c.dp) /\ (Place(c) \in KeepsIp => i # c.ip)
  BY <1>1, <1>2 DEF Locked
<1>10. Locked(ilk', p, e) /\ LockStep(p)
  <2>1. Place(c) \in KeepsDp => c.dp \in Inums /\ ilk[c.dp] = p
    BY <1>1 DEF Shape, SyscType, InumOr0, KeepsDp, DpPlaces, Locked
  <2>2. Place(c) \in KeepsIp => c.ip \in Inums /\ ilk[c.ip] = p
    BY <1>1 DEF Shape, SyscType, InumOr0, KeepsIp, IpPlaces, Locked
  <2>3. LockStep(p)
    BY <1>8, <1>9 DEF LockStep
  <2> HIDE DEF c, i
  <2> QED
    BY <1>5, <1>6, <1>8, <1>9, <2>1, <2>2, <2>3 DEF Locked
<1>11. /\ itab' \in TabType /\ ~itab'[i].valid
       /\ \A j \in Inums : itab'[j].ref = itab[j].ref /\ (j # i => itab'[j] = itab[j])
  <2> HIDE DEF i
  <2> QED
    BY <1>1, <1>2, <1>4 DEF TabType
<1>12. CopyInv'
  <2> SUFFICES ASSUME ~fpanic', NEW j \in Inums
               PROVE  CopyFit(j)'
    BY DEF CopyInv
  <2>1. CASE j = i
    BY <1>11, <2>1 DEF CopyFit
  <2>2. CASE j # i
    <3>1. CopyFit(j)
      BY <1>1, <1>2 DEF CopyInv
    <3>2. Freeing(j) => Freeing(j)'
      BY <1>1, <1>2, <1>3, <2>2 DEF Freeing
    <3> HIDE DEF i
    <3> QED
      BY <1>2, <1>11, <2>2, <3>1, <3>2 DEF CopyFit
  <2> QED
    BY <2>1, <2>2
<1>13. ASSUME NEW j \in Inums
       PROVE  \E d \in {0 - 1, 0, 1} : Holding(e, cwd[p], j) = Holding(c, cwd[p], j) + d /\ itab'[j].ref = itab[j].ref + d
  <2>1. Holding(e, cwd[p], j) = Holding(c, cwd[p], j)
    BY <1>5 DEF Holding
  <2>2. Holding(c, cwd[p], j) \in 0 .. 6 /\ itab[j].ref \in Int
    BY <1>1, HoldingTyped DEF TabType
  <2>3. Holding(e, cwd[p], j) = Holding(c, cwd[p], j) + 0 /\ itab'[j].ref = itab[j].ref + 0
    BY <1>11, <2>1, <2>2
  <2> QED
    BY <2>3
<1>14. UNCHANGED <<ftab, ofile, cwd>> /\ dino' \in DinoType /\ (\A x \in ents' : x[3] \in Inums) /\ fpanic' \in BOOLEAN
  BY <1>1, <1>2
<1> HIDE DEF c
<1> QED
  BY <1>3, <1>6, <1>7, <1>8, <1>10, <1>11, <1>12, <1>13, <1>14, PlainStep DEF c

\* The reference itself goes last.
LEMMA IputUnrefStep ==
    ASSUME InodeInv, NEW p \in Users, IputUnref(p)
    PROVE  InodeInv'
BY RefDropped DEF IputUnref, At, dirVars, fileVars

\* A step of p that takes a reference to inode k, or none if k is 0.
LEMMA StepTaking ==
    ASSUME InodeInv, NEW p \in Users, NEW k \in InumOr0, sysc' = [sysc EXCEPT ![p] = sysc'[p]], Shape(sysc'[p]),
           sysc[p].pc # "invalidate", UNCHANGED <<ftab, ofile, cwd>>,
           Place(sysc'[p]) # "gone", Place(sysc[p]) # "gone",
           dino' \in DinoType, itab' \in TabType, ilk' \in [Inums -> Users \union {NoUser}],
           \A x \in ents' : x[3] \in Inums, fpanic' \in BOOLEAN,
           Locked(ilk', p, sysc'[p]), LockStep(p),
           ~fpanic' => ~fpanic /\ \A j \in Inums : Honest(itab[j], itab'[j], dino[j], dino'[j]),
           \A j \in Inums : itab'[j].ref = itab[j].ref + One(k, j),
           \A j \in Inums :
               One(sysc'[p].ip, j) + One(sysc'[p].dp, j) + One(sysc'[p].target, j) + PutCount(sysc'[p].puts, j)
               = One(sysc[p].ip, j) + One(sysc[p].dp, j) + One(sysc[p].target, j) + PutCount(sysc[p].puts, j) + One(k, j)
    PROVE  InodeInv'
<1>1. sysc \in [Users -> SyscType] /\ CopyInv /\ itab \in TabType
  BY Known
<1>2. CopyInv'
  <2>1. \A q \in Users \ {p} : sysc'[q] = sysc[q]
    BY <1>1
  <2> QED
    BY <1>1, <2>1, CopyKept
<1>3. ASSUME NEW j \in Inums
      PROVE  \E d \in {0 - 1, 0, 1} :
               Holding(sysc'[p], cwd[p], j) = Holding(sysc[p], cwd[p], j) + d /\ itab'[j].ref = itab[j].ref + d
  <2>1. \A x : One(x, j) \in {0, 1}
    BY CountTyped
  <2>2. \A s : PutCount(s, j) \in {0, 1, 2}
    BY CountTyped
  <2> DEFINE a == One(sysc'[p].ip, j) + One(sysc'[p].dp, j) + One(sysc'[p].target, j) + PutCount(sysc'[p].puts, j)
             b == One(sysc[p].ip, j) + One(sysc[p].dp, j) + One(sysc[p].target, j) + PutCount(sysc[p].puts, j)
  <2>3. a \in Int /\ b \in Int /\ a = b + One(k, j)
    BY <2>1, <2>2
  <2>4. Holding(sysc'[p], cwd[p], j) = a + One(cwd[p], j) /\ Holding(sysc[p], cwd[p], j) = b + One(cwd[p], j)
    BY DEF Holding
  <2> HIDE DEF a, b
  <2>5. Holding(sysc'[p], cwd[p], j) = Holding(sysc[p], cwd[p], j) + One(k, j)
    BY <2>1, <2>3, <2>4
  <2>6. One(k, j) \in {0 - 1, 0, 1}
    BY <2>1
  <2> QED
    BY <2>5, <2>6
<1> QED
  BY <1>2, <1>3, PlainStep

\* The table after ilock.
LEMMA TabRead ==
    ASSUME InodeInv, NEW i \in Inums
    PROVE  LET tab == Ilock(itab, i) IN
           /\ tab \in TabType /\ \A j \in Inums : tab[j].ref = itab[j].ref + One(0, j) /\ tab[j].ref \in Nat
           /\ ~NoType(itab, i) => \A j \in Inums : Honest(itab[j], tab[j], dino[j], dino[j])
<1>1. itab \in TabType /\ dino \in DinoType
  BY DEF InodeInv, InodeType
<1> DEFINE tab == Ilock(itab, i)
<1>2. tab \in TabType /\ \A j \in Inums : tab[j].ref = itab[j].ref
  BY <1>1, IlockFields
<1>3. ~NoType(itab, i) => \A j \in Inums : Honest(itab[j], tab[j], dino[j], dino[j])
  BY <1>1, HonestIlock
<1>4. \A j \in Inums : itab[j].ref \in Nat /\ One(0, j) = 0
  BY RefNat, Counts
<1> HIDE DEF tab
<1>5. \A j \in Inums : tab[j].ref = itab[j].ref + One(0, j) /\ tab[j].ref \in Nat
  BY <1>2, <1>4
<1> QED
  BY <1>2, <1>3, <1>5 DEF tab

\* The table after ilock and iget.
LEMMA TabTaken ==
    ASSUME InodeInv, NEW i \in Inums, NEW k \in Inums
    PROVE  LET new == Iget(Ilock(itab, i), k) IN
           /\ new \in TabType /\ \A j \in Inums : new[j].ref = itab[j].ref + One(k, j)
           /\ ~NoType(itab, i) => \A j \in Inums : Honest(itab[j], new[j], dino[j], dino[j])
<1> DEFINE tab == Ilock(itab, i)
           new == Iget(tab, k)
<1>1. /\ tab \in TabType /\ \A j \in Inums : tab[j].ref = itab[j].ref + One(0, j) /\ tab[j].ref \in Nat
      /\ ~NoType(itab, i) => \A j \in Inums : Honest(itab[j], tab[j], dino[j], dino[j])
  BY TabRead
<1>4. \A j \in Inums : itab[j].ref \in Nat /\ One(0, j) = 0
  BY RefNat, Counts
<1> HIDE DEF tab
<1>2. new \in TabType /\ new[k].ref = tab[k].ref + 1 /\ \A j \in Inums \ {k} : new[j] = tab[j]
  BY <1>1, IgetFields
<1>3. ~NoType(itab, i) => \A j \in Inums : Honest(itab[j], new[j], dino[j], dino[j])
  BY <1>1, HonestIget
<1> HIDE DEF new
<1>5. \A j \in Inums : new[j].ref = itab[j].ref + One(k, j)
  BY <1>1, <1>2, <1>4 DEF One
<1> QED
  BY <1>2, <1>3, <1>5 DEF new, tab

\* dirlookup finds an inode or nothing.
LEMMA LookupTyped ==
    ASSUME InodeInv, NEW d \in Inums, NEW name
    PROVE  Lookup(d, name) \in InumOr0
<1>1. \A x \in ents : x[3] \in Inums
  BY DEF InodeInv, InodeType
<1>2. CASE name = "."
  BY <1>2 DEF Lookup, InumOr0
<1>3. CASE name # "." /\ \E x \in ents : x[1] = d /\ x[2] = name
  <2> DEFINE y == CHOOSE x \in ents : x[1] = d /\ x[2] = name
  <2>1. y \in ents
    BY <1>3
  <2>2. Lookup(d, name) = y[3]
    BY <1>3 DEF Lookup
  <2> HIDE DEF y
  <2> QED
    BY <1>1, <2>1, <2>2 DEF InumOr0
<1>4. CASE name # "." /\ ~\E x \in ents : x[1] = d /\ x[2] = name
  BY <1>4 DEF Lookup, InumOr0
<1> QED
  BY <1>2, <1>3, <1>4

\* The inodes that a call holds.
LEMMA HeldInums ==
    ASSUME NEW c, Shape(c)
    PROVE  /\ Place(c) \in IpPlaces => c.ip \in Inums
           /\ Place(c) \in DpPlaces => c.dp \in Inums
           /\ c.target # 0 => c.target \in Inums
           /\ c.pc \notin Putting => c.puts = <<>> /\ Place(c) = c.pc
           /\ Place(c) \notin IpPlaces => c.ip = 0
           /\ Place(c) \notin DpPlaces => c.dp = 0
BY DEF Shape, SyscType, InumOr0, Place

\* What is known before a step that is not part of iput.
LEMMA KnownAt ==
    ASSUME InodeInv, NEW p \in Users, NEW w \in Places, sysc[p].pc = w
    PROVE  LET c == sysc[p] IN
           /\ c \in SyscType /\ Shape(c) /\ Locked(ilk, p, c) /\ c.puts = <<>> /\ Place(c) = w /\ c.pc = w
           /\ c.pc # "invalidate"
           /\ sysc \in [Users -> SyscType] /\ dino \in DinoType /\ itab \in TabType /\ ilk \in [Inums -> Users \union {NoUser}]
           /\ (\A e \in ents : e[3] \in Inums) /\ fpanic \in BOOLEAN /\ p # NoUser
           /\ c.ip \in InumOr0 /\ c.dp \in InumOr0 /\ c.target \in InumOr0
           /\ (w \in IpPlaces => c.ip \in Inums) /\ (w \in DpPlaces => c.dp \in Inums)
           /\ (w \notin IpPlaces => c.ip = 0) /\ (w \notin DpPlaces => c.dp = 0)
<1>1. w \notin Putting /\ w # "invalidate"
  BY PlacesApart DEF Putting
<1>2. Shape(sysc[p]) /\ sysc[p] \in SyscType
  BY Known
<1>3. sysc[p].ip \in InumOr0 /\ sysc[p].dp \in InumOr0 /\ sysc[p].target \in InumOr0
  BY <1>2 DEF SyscType
<1> QED
  BY <1>1, <1>2, <1>3, Known, HeldInums

\* A call at place w, whether it puts inodes before or not.
Fits(c, w) ==
    /\ c \in SyscType
    /\ c.ip # 0 <=> w \in IpPlaces
    /\ c.dp # 0 <=> w \in DpPlaces
    /\ c.target # 0 <=> w \in TargetPlaces \/ (w = "walk" /\ c.then = "dirlink")
    /\ w = "walk" => WalkFit(c)
    /\ w \in {"walk", "link"} => c.arg # <<>>

Kept(lk, p, c, w) == (w \in KeepsDp => lk[c.dp] = p) /\ (w \in KeepsIp => lk[c.ip] = p)

\* What a call that is not putting inodes looks like.
LEMMA FitsAt ==
    ASSUME InodeInv, NEW p \in Users, NEW w \in Places, sysc[p].pc = w
    PROVE  Fits(sysc[p], w) /\ Kept(ilk, p, sysc[p], w)
<1>1. Shape(sysc[p]) /\ Locked(ilk, p, sysc[p]) /\ Place(sysc[p]) = w
  BY KnownAt
<1> QED
  BY <1>1 DEF Fits, Kept, Shape, Locked

\* A call that begins to put inodes is in order if it fits the place it goes on to.
LEMMA PutShape ==
    ASSUME NEW b, NEW w \in Places, Fits(b, w), NEW s \in Seq(Inums), Len(s) \in {1, 2}, NEW lk, NEW p, Kept(lk, p, b, w)
    PROVE  LET e == PutThen(b, s, w) IN
           /\ Shape(e) /\ Locked(lk, p, e) /\ Place(e) = w /\ e \in SyscType
           /\ e.ip = b.ip /\ e.dp = b.dp /\ e.target = b.target /\ e.puts = s
<1> DEFINE e == PutThen(b, s, w)
<1>1. /\ e \in SyscType /\ e.pc = "put" /\ e.puts = s /\ e.back = w /\ Place(e) = w
      /\ e.then = b.then /\ e.fail = b.fail /\ e.par = b.par
      /\ e.ip = b.ip /\ e.dp = b.dp /\ e.target = b.target /\ e.arg = b.arg
  BY PutThenFields DEF Fits
<1>2. s # <<>> /\ Len(s) <= 2 /\ "put" \in Putting
  <2>1. "put" \in Putting
    BY DEF Putting
  <2>2. s # <<>>
    <3>1. Len(<<>>) = 0
      OBVIOUS
    <3>2. Len(s) # 0
      OBVIOUS
    <3> QED
      BY <3>1, <3>2
  <2>3. Len(s) <= 2
    <3>1. \A n \in {1, 2} : n <= 2
      OBVIOUS
    <3> QED
      BY <3>1
  <2> QED
    BY <2>1, <2>2, <2>3
<1> HIDE DEF e
<1>3. Shape(e)
  BY <1>1, <1>2 DEF Shape, Fits, WalkFit
<1>4. Locked(lk, p, e)
  BY <1>1 DEF Locked, Kept
<1> QED
  BY <1>1, <1>3, <1>4 DEF e

\* A call that goes on without putting inodes is in order if it fits that place.
LEMMA GoShape ==
    ASSUME NEW e, NEW w \in Places, Fits(e, w), e.pc = w, e.puts = <<>>, NEW lk, NEW p, Kept(lk, p, e, w)
    PROVE  Shape(e) /\ Locked(lk, p, e) /\ Place(e) = w
<1>1. w \notin Putting /\ Len(<<>>) = 0
  BY PlacesApart
<1>2. Place(e) = w
  BY <1>1 DEF Place
<1>3. Shape(e)
  BY <1>1, <1>2 DEF Shape, Fits
<1>4. Locked(lk, p, e)
  BY <1>1, <1>2 DEF Locked, Kept, Putting
<1> QED
  BY <1>2, <1>3, <1>4

\* What a step may do to inode table and disk when it takes a reference to k.
Table(k) ==
    /\ itab' \in TabType /\ dino' \in DinoType /\ (\A x \in ents' : x[3] \in Inums) /\ fpanic' \in BOOLEAN
    /\ ~fpanic' => ~fpanic /\ \A j \in Inums : Honest(itab[j], itab'[j], dino[j], dino'[j])
    /\ \A j \in Inums : itab'[j].ref = itab[j].ref + One(k, j)

\* A step that leaves the inode table alone takes no reference.
LEMMA TableSame ==
    ASSUME InodeInv, NEW p \in Users, UNCHANGED <<dirVars, itab, fpanic>>
    PROVE  Table(0)
<1>1. /\ dino \in DinoType /\ itab \in TabType /\ (\A e \in ents : e[3] \in Inums) /\ fpanic \in BOOLEAN
      /\ dino' = dino /\ ents' = ents
  BY Known DEF dirVars
<1>2. \A j \in Inums : itab[j].ref \in Nat /\ One(0, j) = 0
  BY RefNat, Counts
<1>3. \A j \in Inums : Honest(itab[j], itab'[j], dino[j], dino'[j])
  BY <1>1, HonestSame
<1> QED
  BY <1>1, <1>2, <1>3 DEF Table

\* Nor does ilock.
LEMMA TableRead ==
    ASSUME InodeInv, NEW p \in Users, NEW i \in Inums, itab' = Ilock(itab, i), UNCHANGED dirVars,
           fpanic' = (fpanic \/ NoType(itab, i))
    PROVE  Table(0)
<1>1. /\ dino \in DinoType /\ (\A e \in ents : e[3] \in Inums) /\ fpanic \in BOOLEAN /\ dino' = dino /\ ents' = ents
  BY Known DEF dirVars
<1>2. fpanic' \in BOOLEAN /\ (~fpanic' => ~fpanic /\ ~NoType(itab, i))
  BY <1>1
<1>3. /\ itab' \in TabType /\ \A j \in Inums : itab'[j].ref = itab[j].ref + One(0, j)
      /\ ~NoType(itab, i) => \A j \in Inums : Honest(itab[j], itab'[j], dino[j], dino[j])
  BY TabRead
<1> QED
  BY <1>1, <1>2, <1>3 DEF Table

\* ilock of one inode and iget of another take one reference.
LEMMA TableTaken ==
    ASSUME InodeInv, NEW p \in Users, NEW i \in Inums, NEW k \in Inums, itab' = Iget(Ilock(itab, i), k), UNCHANGED dirVars,
           fpanic' = (fpanic \/ NoType(itab, i) \/ TableFull(Ilock(itab, i), k))
    PROVE  Table(k)
<1>1. /\ dino \in DinoType /\ (\A e \in ents : e[3] \in Inums) /\ fpanic \in BOOLEAN /\ dino' = dino /\ ents' = ents
  BY Known DEF dirVars
<1>2. fpanic' \in BOOLEAN /\ (~fpanic' => ~fpanic /\ ~NoType(itab, i))
  BY <1>1
<1>3. /\ itab' \in TabType /\ \A j \in Inums : itab'[j].ref = itab[j].ref + One(k, j)
      /\ ~NoType(itab, i) => \A j \in Inums : Honest(itab[j], itab'[j], dino[j], dino[j])
  BY TabTaken
<1> QED
  BY <1>1, <1>2, <1>3 DEF Table

\* The references a call holds, with its own current directory left out.
Hand(c, j) == One(c.ip, j) + One(c.dp, j) + One(c.target, j)

\* A step from w that goes on to v, after putting the inodes in s.
LEMMA PutMove ==
    ASSUME InodeInv, NEW p \in Users, NEW w \in Places \ {"gone"}, sysc[p].pc = w, NEW k \in InumOr0, Table(k),
           NEW b, NEW v \in Places \ {"gone"}, Fits(b, v), NEW s \in Seq(Inums), Len(s) \in {1, 2},
           Now(p, PutThen(b, s, v)), UNCHANGED <<ftab, ofile, cwd>>,
           ilk' \in [Inums -> Users \union {NoUser}], LockStep(p), Kept(ilk', p, b, v),
           \A j \in Inums : Hand(b, j) + PutCount(s, j) = Hand(sysc[p], j) + One(k, j)
    PROVE  InodeInv'
<1> DEFINE e == PutThen(b, s, v)
<1>1. sysc \in [Users -> SyscType] /\ sysc[p].puts = <<>> /\ Place(sysc[p]) = w /\ sysc[p].pc # "invalidate"
  BY KnownAt
<1>2. /\ Shape(e) /\ Locked(ilk', p, e) /\ Place(e) = v /\ e \in SyscType
      /\ e.ip = b.ip /\ e.dp = b.dp /\ e.target = b.target /\ e.puts = s
  BY PutShape
<1>3. sysc' = [sysc EXCEPT ![p] = e] /\ sysc'[p] = e
  BY <1>1 DEF Now
<1> HIDE DEF e
<1>4. ASSUME NEW j \in Inums
      PROVE  One(e.ip, j) + One(e.dp, j) + One(e.target, j) + PutCount(e.puts, j)
             = One(sysc[p].ip, j) + One(sysc[p].dp, j) + One(sysc[p].target, j) + PutCount(sysc[p].puts, j) + One(k, j)
  <2>1. PutCount(sysc[p].puts, j) = 0 /\ \A x : One(x, j) \in {0, 1}
    BY <1>1, Counts
  <2>2. PutCount(s, j) \in {0, 1, 2}
    BY CountTyped
  <2>3. Hand(b, j) + PutCount(s, j) = Hand(sysc[p], j) + One(k, j)
    OBVIOUS
  <2> QED
    BY <1>2, <2>1, <2>2, <2>3 DEF Hand
<1> QED
  BY <1>1, <1>2, <1>3, <1>4, StepTaking DEF Table

\* A step from w that goes on to v without putting inodes.
LEMMA GoMove ==
    ASSUME InodeInv, NEW p \in Users, NEW w \in Places \ {"gone"}, sysc[p].pc = w, NEW k \in InumOr0, Table(k),
           NEW e, NEW v \in Places \ {"gone"}, Fits(e, v), e.pc = v, e.puts = <<>>,
           Now(p, e), UNCHANGED <<ftab, ofile, cwd>>,
           ilk' \in [Inums -> Users \union {NoUser}], LockStep(p), Kept(ilk', p, e, v),
           \A j \in Inums : Hand(e, j) = Hand(sysc[p], j) + One(k, j)
    PROVE  InodeInv'
<1>1. sysc \in [Users -> SyscType] /\ sysc[p].puts = <<>> /\ Place(sysc[p]) = w /\ sysc[p].pc # "invalidate"
  BY KnownAt
<1>2. Shape(e) /\ Locked(ilk', p, e) /\ Place(e) = v
  BY GoShape
<1>3. sysc' = [sysc EXCEPT ![p] = e] /\ sysc'[p] = e
  BY <1>1 DEF Now
<1>4. ASSUME NEW j \in Inums
      PROVE  One(e.ip, j) + One(e.dp, j) + One(e.target, j) + PutCount(e.puts, j)
             = One(sysc[p].ip, j) + One(sysc[p].dp, j) + One(sysc[p].target, j) + PutCount(sysc[p].puts, j) + One(k, j)
  <2>1. PutCount(<<>>, j) = 0 /\ \A x : One(x, j) \in {0, 1}
    BY Counts
  <2>2. PutCount(sysc[p].puts, j) = 0 /\ PutCount(e.puts, j) = 0
    BY <1>1, <2>1
  <2>3. Hand(e, j) = Hand(sysc[p], j) + One(k, j)
    OBVIOUS
  <2> QED
    BY <2>1, <2>2, <2>3 DEF Hand
<1> QED
  BY <1>1, <1>2, <1>3, <1>4, StepTaking DEF Table

\* One inode to put.
LEMMA OnePut ==
    ASSUME NEW a \in Inums
    PROVE  <<a>> \in Seq(Inums) /\ Len(<<a>>) \in {1, 2} /\ \A j \in Inums : PutCount(<<a>>, j) = One(a, j)
BY Counts

\* The summands of the counts are numbers, and 0 counts for no inode.
LEMMA Ones ==
    ASSUME NEW j \in Inums
    PROVE  One(0, j) = 0 /\ \A x : One(x, j) \in Int
<1>1. One(0, j) = 0
  BY Counts
<1>2. \A x : One(x, j) \in Int
  BY DEF One
<1> QED
  BY <1>1, <1>2

\* The locks stay as they are.
LEMMA LocksSame ==
    ASSUME InodeInv, NEW p \in Users, UNCHANGED ilk
    PROVE  ilk' \in [Inums -> Users \union {NoUser}] /\ LockStep(p)
BY Known DEF LockStep

\* The places of calls in progress.
LEMMA PlaceNames ==
    /\ \A x \in {"user", "exit"} \union IpPlaces \union DpPlaces \union TargetPlaces : x \in Places \ {"gone"}
    /\ \A x \in {"user", "exit"} : x \notin IpPlaces \union DpPlaces \union TargetPlaces
    /\ 0 \in InumOr0 /\ \A i \in Inums : i \in InumOr0 /\ i # 0
<1>1. 0 \notin Inums
  BY InodeAssumption
<1> QED
  BY <1>1 DEF Places, IpPlaces, DpPlaces, TargetPlaces, InumOr0

\* The path is used up.
LEMMA NamexEndStep ==
    ASSUME InodeInv, NEW p \in Users, NamexEnd(p)
    PROVE  InodeInv'
<1> DEFINE c == sysc[p]
<1>0. "walk" \in Places \ {"gone"} /\ c.pc = "walk"
  BY PlaceNames DEF NamexEnd, At, IpPlaces
<1>1. c \in SyscType /\ c.puts = <<>> /\ c.ip \in Inums /\ c.dp = 0 /\ Fits(c, "walk")
  BY <1>0, KnownAt, FitsAt DEF IpPlaces, DpPlaces
<1>2. UNCHANGED <<ftab, ofile, cwd, ilk>> /\ Table(0) /\ LockStep(p) /\ ilk' \in [Inums -> Users \union {NoUser}]
  BY TableSame, LocksSame DEF NamexEnd, dirVars, fileVars
<1>3. /\ c.then \in (IF c.par THEN {"create", "mkdir", "mknod", "unlink", "dirlink"} ELSE {"open", "chdir", "link"})
      /\ c.fail = (IF c.then = "dirlink" THEN "undo" ELSE "user") /\ c.arg # <<>>
      /\ c.target # 0 <=> c.then = "dirlink"
  BY <1>1 DEF Fits, WalkFit, TargetPlaces
<1>4. CASE c.par
  <2> DEFINE b == [c EXCEPT !.ip = 0]
             s == <<c.ip>>
  <2>1. b \in SyscType /\ b.ip = 0 /\ b.dp = 0 /\ b.target = c.target /\ b.then = c.then
    BY <1>1, PlaceNames DEF SyscType
  <2>2. c.fail \in {"user", "undo"} /\ c.fail \in Places \ {"gone"}
    BY <1>3, PlaceNames DEF TargetPlaces
  <2>3. Now(p, PutThen(b, s, c.fail))
    BY <1>4 DEF NamexEnd
  <2>4. s \in Seq(Inums) /\ Len(s) \in {1, 2} /\ \A j \in Inums : PutCount(s, j) = One(c.ip, j)
    BY <1>1, OnePut
  <2> HIDE DEF b, s, c
  <2>5. Fits(b, c.fail) /\ Kept(ilk', p, b, c.fail)
    BY <1>3, <2>1, <2>2 DEF Fits, Kept, IpPlaces, DpPlaces, TargetPlaces, KeepsDp, KeepsIp
  <2>6. ASSUME NEW j \in Inums PROVE Hand(b, j) + PutCount(s, j) = Hand(c, j) + One(0, j)
    BY <1>1, <2>1, <2>4, Ones DEF Hand
  <2> QED
    BY <1>0, <1>2, <2>2, <2>3, <2>4, <2>5, <2>6, PutMove, PlaceNames DEF c
<1>5. CASE ~c.par
  <2> DEFINE e == [c EXCEPT !.pc = c.then]
  <2>1. c.then \in {"open", "chdir", "link"} /\ c.then \in Places \ {"gone"}
    BY <1>3, <1>5, PlaceNames DEF IpPlaces
  <2>2. Now(p, e)
    BY <1>5 DEF NamexEnd
  <2>3. /\ e \in SyscType /\ e.pc = c.then /\ e.puts = <<>> /\ e.ip = c.ip /\ e.dp = c.dp /\ e.target = c.target
        /\ e.then = c.then /\ e.arg = c.arg
    BY <1>1, <2>1 DEF SyscType
  <2>4. c.ip # 0
    BY <1>1, PlaceNames
  <2> HIDE DEF e, c
  <2>5. Fits(e, c.then) /\ Kept(ilk', p, e, c.then)
    BY <1>1, <1>3, <2>1, <2>3, <2>4 DEF Fits, Kept, IpPlaces, DpPlaces, TargetPlaces, KeepsDp, KeepsIp
  <2>6. ASSUME NEW j \in Inums PROVE Hand(e, j) = Hand(c, j) + One(0, j)
    BY <1>1, <2>3, Ones DEF Hand
  <2> QED
    BY <1>0, <1>2, <2>1, <2>2, <2>3, <2>5, <2>6, GoMove, PlaceNames DEF c
<1> QED
  BY <1>4, <1>5

\* One turn of namex.
LEMMA NamexStep ==
    ASSUME InodeInv, NEW p \in Users, Namex(p)
    PROVE  InodeInv'
<1> DEFINE c == sysc[p]
           i == c.ip
           tab == Ilock(itab, i)
           next == Lookup(i, Head(c.path))
           s == <<i>>
<1>0. "walk" \in Places \ {"gone"} /\ c.pc = "walk"
  BY PlaceNames DEF Namex, At, IpPlaces
<1>1. /\ c \in SyscType /\ c.puts = <<>> /\ i \in Inums /\ c.dp = 0 /\ c.target \in InumOr0 /\ Fits(c, "walk")
      /\ c.path # <<>> /\ c.path \in Seq(STRING)
  <2>1. c \in SyscType /\ c.path # <<>>
    BY <1>0, KnownAt DEF Namex
  <2> QED
    BY <1>0, <2>1, KnownAt, FitsAt DEF IpPlaces, DpPlaces, SyscType
<1>2. UNCHANGED <<ftab, ofile, cwd, ilk, dirVars>> /\ LockStep(p) /\ ilk' \in [Inums -> Users \union {NoUser}]
  BY LocksSame DEF Namex, fileVars
<1>3. /\ c.then \in (IF c.par THEN {"create", "mkdir", "mknod", "unlink", "dirlink"} ELSE {"open", "chdir", "link"})
      /\ c.fail = (IF c.then = "dirlink" THEN "undo" ELSE "user") /\ c.arg # <<>>
      /\ c.target # 0 <=> c.then = "dirlink"
  BY <1>1 DEF Fits, WalkFit, TargetPlaces
<1>4. next \in InumOr0 /\ Head(c.path) \in STRING /\ Tail(c.path) \in Seq(STRING)
  <2>1. next \in InumOr0
    BY <1>1, LookupTyped
  <2> DEFINE t == c.path
  <2>2. t \in Seq(STRING) /\ t # <<>>
    BY <1>1
  <2> HIDE DEF t
  <2>3. Head(t) \in STRING /\ Tail(t) \in Seq(STRING)
    BY <2>2, HeadTailProperties
  <2> QED
    BY <2>1, <2>3 DEF t
<1>5. s \in Seq(Inums) /\ Len(s) \in {1, 2} /\ \A j \in Inums : PutCount(s, j) = One(i, j)
  BY <1>1, OnePut
<1>6. CASE /\ tab[i].type = "dir" /\ c.par /\ Len(c.path) = 1
           /\ itab' = tab
           /\ Now(p, [c EXCEPT !.pc = c.then, !.ip = 0, !.dp = i, !.name = Head(c.path), !.path = <<>>])
           /\ fpanic' = (fpanic \/ NoType(itab, i))
  <2> DEFINE nil == <<>>
             e == [c EXCEPT !.pc = c.then, !.ip = 0, !.dp = i, !.name = Head(c.path), !.path = nil]
  <2>1. c.then \in {"create", "mkdir", "mknod", "unlink", "dirlink"} /\ c.then \in Places \ {"gone"}
    BY <1>3, <1>6, PlaceNames DEF DpPlaces
  <2>2. Now(p, e) /\ Table(0) /\ nil \in Seq(STRING)
    BY <1>1, <1>2, <1>6, TableRead
  <2> HIDE DEF nil
  <2>3. /\ e \in SyscType /\ e.pc = c.then /\ e.puts = <<>> /\ e.ip = 0 /\ e.dp = i /\ e.target = c.target
        /\ e.then = c.then /\ e.arg = c.arg
    BY <1>1, <1>4, <2>1, <2>2, PlaceNames DEF SyscType
  <2>4. i # 0
    BY <1>1, PlaceNames
  <2> HIDE DEF e
  <2>5. Fits(e, c.then) /\ Kept(ilk', p, e, c.then)
    BY <1>3, <2>1, <2>3, <2>4 DEF Fits, Kept, IpPlaces, DpPlaces, TargetPlaces, KeepsDp, KeepsIp
  <2>6. ASSUME NEW j \in Inums PROVE Hand(e, j) = Hand(c, j) + One(0, j)
    BY <1>1, <2>3, Ones DEF Hand
  <2> HIDE DEF c, s
  <2> QED
    BY <1>0, <1>2, <2>1, <2>2, <2>3, <2>5, <2>6, GoMove, PlaceNames DEF c
<1>7. CASE /\ tab[i].type = "dir" /\ ~(c.par /\ Len(c.path) = 1) /\ next # 0
           /\ itab' = Iget(tab, next)
           /\ Now(p, PutThen([c EXCEPT !.ip = next, !.path = Tail(@)], <<i>>, "walk"))
           /\ fpanic' = (fpanic \/ NoType(itab, i) \/ TableFull(tab, next))
  <2> DEFINE b == [c EXCEPT !.ip = next, !.path = Tail(@)]
  <2>1. next \in Inums
    BY <1>4, <1>7 DEF InumOr0
  <2>2. Table(next)
    BY <1>1, <1>2, <1>7, <2>1, TableTaken
  <2> HIDE DEF next
  <2>3. /\ b \in SyscType /\ b.ip = next /\ b.dp = 0 /\ b.target = c.target /\ b.then = c.then /\ b.fail = c.fail
        /\ b.par = c.par /\ b.arg = c.arg
    BY <1>1, <1>4, <2>1, PlaceNames DEF SyscType
  <2>4. next # 0 /\ next \in InumOr0
    BY <2>1, PlaceNames
  <2>7. Now(p, PutThen(b, s, "walk"))
    BY <1>7 DEF next
  <2> HIDE DEF b
  <2>5. Fits(b, "walk") /\ Kept(ilk', p, b, "walk")
    BY <1>3, <2>3, <2>4 DEF Fits, Kept, WalkFit, IpPlaces, DpPlaces, TargetPlaces, KeepsDp, KeepsIp
  <2>6. ASSUME NEW j \in Inums PROVE Hand(b, j) + PutCount(s, j) = Hand(c, j) + One(next, j)
    <3>1. PutCount(s, j) = One(i, j)
      BY <1>5
    <3> HIDE DEF s
    <3> QED
      BY <1>1, <2>3, <3>1, Ones DEF Hand
  <2> HIDE DEF c, s
  <2> QED
    BY <1>0, <1>2, <1>5, <2>2, <2>4, <2>5, <2>6, <2>7, PutMove DEF c
<1>8. CASE /\ tab[i].type # "dir" \/ (~(c.par /\ Len(c.path) = 1) /\ next = 0)
           /\ itab' = tab
           /\ Now(p, PutThen([c EXCEPT !.ip = 0, !.path = <<>>], <<i>>, c.fail))
           /\ fpanic' = (fpanic \/ NoType(itab, i))
  <2> DEFINE nil == <<>>
             b == [c EXCEPT !.ip = 0, !.path = nil]
  <2>1. c.fail \in {"user", "undo"} /\ c.fail \in Places \ {"gone"}
    BY <1>3, PlaceNames DEF TargetPlaces
  <2>2. Table(0) /\ nil \in Seq(STRING) /\ Now(p, PutThen(b, s, c.fail))
    BY <1>1, <1>2, <1>8, TableRead
  <2> HIDE DEF nil
  <2>3. b \in SyscType /\ b.ip = 0 /\ b.dp = 0 /\ b.target = c.target /\ b.then = c.then
    BY <1>1, <2>2, PlaceNames DEF SyscType
  <2> HIDE DEF b
  <2>5. Fits(b, c.fail) /\ Kept(ilk', p, b, c.fail)
    BY <1>3, <2>1, <2>3 DEF Fits, Kept, IpPlaces, DpPlaces, TargetPlaces, KeepsDp, KeepsIp
  <2>6. ASSUME NEW j \in Inums PROVE Hand(b, j) + PutCount(s, j) = Hand(c, j) + One(0, j)
    <3>1. PutCount(s, j) = One(i, j)
      BY <1>5
    <3> HIDE DEF s
    <3> QED
      BY <1>1, <2>3, <3>1, Ones DEF Hand
  <2> HIDE DEF c, s
  <2> QED
    BY <1>0, <1>2, <1>5, <2>1, <2>2, <2>5, <2>6, PutMove, PlaceNames DEF c
<1> QED
  BY <1>6, <1>7, <1>8 DEF Namex

\* A sleep lock that was free is taken,
LEMMA LockTaken ==
    ASSUME InodeInv, NEW p \in Users, NEW i \in Inums, LockFree(i), ilk' = [ilk EXCEPT ![i] = p]
    PROVE  ilk' \in [Inums -> Users \union {NoUser}] /\ LockStep(p) /\ ilk'[i] = p
BY Known DEF LockStep, LockFree

\* one that is held is released,
LEMMA LockDropped ==
    ASSUME InodeInv, NEW p \in Users, NEW i \in Inums, ilk[i] = p, ilk' = Iunlock(ilk, i)
    PROVE  ilk' \in [Inums -> Users \union {NoUser}] /\ LockStep(p)
BY Known DEF LockStep, Iunlock

\* and one is released and another taken.
LEMMA LockMoved ==
    ASSUME InodeInv, NEW p \in Users, NEW d \in Inums, NEW i \in Inums, ilk[d] = p, LockFree(i),
           ilk' = [Iunlock(ilk, d) EXCEPT ![i] = p]
    PROVE  ilk' \in [Inums -> Users \union {NoUser}] /\ LockStep(p) /\ ilk'[i] = p /\ d # i
BY Known DEF LockStep, Iunlock, LockFree

\* exit begins.
LEMMA ExitFilesStep ==
    ASSUME InodeInv, NEW p \in Users, ExitFiles(p)
    PROVE  InodeInv'
<1> DEFINE e == [Idle EXCEPT !.pc = "exit"]
<1>1. "user" \in Places \ {"gone"} /\ "exit" \in Places \ {"gone"} /\ sysc[p].pc = "user" /\ Now(p, e)
  BY PlaceNames DEF ExitFiles, At
<1>2. /\ UNCHANGED <<ftab, ofile, cwd>> /\ Table(0) /\ LockStep(p) /\ ilk' \in [Inums -> Users \union {NoUser}]
  BY TableSame, LocksSame DEF ExitFiles, dirVars
<1>3. Idle \in SyscType /\ Idle.ip = 0 /\ Idle.dp = 0 /\ Idle.target = 0 /\ Idle.puts = <<>>
  BY IdleShape
<1>4. e \in SyscType /\ e.ip = 0 /\ e.dp = 0 /\ e.target = 0 /\ e.puts = <<>> /\ e.pc = "exit"
  BY <1>1, <1>3 DEF SyscType
<1>5. sysc[p].ip = 0 /\ sysc[p].dp = 0 /\ sysc[p].target = 0
  <2>1. Fits(sysc[p], "user")
    BY <1>1, FitsAt
  <2> QED
    BY <2>1 DEF Fits, IpPlaces, DpPlaces, TargetPlaces
<1> HIDE DEF e
<1>6. Fits(e, "exit") /\ Kept(ilk', p, e, "exit")
  BY <1>4 DEF Fits, Kept, IpPlaces, DpPlaces, TargetPlaces, KeepsDp, KeepsIp
<1>7. ASSUME NEW j \in Inums PROVE Hand(e, j) = Hand(sysc[p], j) + One(0, j)
  BY <1>4, <1>5, Ones DEF Hand
<1> QED
  BY <1>1, <1>2, <1>4, <1>6, <1>7, GoMove, PlaceNames

\* The table after iget.
LEMMA TableGot ==
    ASSUME InodeInv, NEW p \in Users, NEW k \in Inums, itab' = Iget(itab, k), UNCHANGED dirVars,
           fpanic' = (fpanic \/ TableFull(itab, k))
    PROVE  Table(k)
<1>1. /\ dino \in DinoType /\ itab \in TabType /\ (\A e \in ents : e[3] \in Inums) /\ fpanic \in BOOLEAN
      /\ dino' = dino /\ ents' = ents
  BY Known DEF dirVars
<1>2. fpanic' \in BOOLEAN /\ (~fpanic' => ~fpanic)
  BY <1>1
<1>3. \A j \in Inums : itab[j].ref \in Nat
  BY RefNat
<1>4. itab' \in TabType /\ itab'[k].ref = itab[k].ref + 1 /\ \A j \in Inums \ {k} : itab'[j] = itab[j]
  BY <1>1, <1>3, IgetFields
<1>5. \A j \in Inums : itab'[j].ref = itab[j].ref + One(k, j)
  BY <1>3, <1>4 DEF One
<1>6. \A j \in Inums : Honest(itab[j], itab'[j], dino[j], dino[j])
  <2>1. \A j \in Inums : Honest(itab[j], itab[j], dino[j], dino[j])
    BY HonestSame
  <2> QED
    BY <1>1, <1>3, <2>1, HonestIget
<1> QED
  BY <1>1, <1>2, <1>4, <1>5, <1>6 DEF Table

\* A process that is not gone has a current directory to start from.
LEMMA StartTyped ==
    ASSUME InodeInv, NEW p \in Users, NEW path, Place(sysc[p]) # "gone"
    PROVE  Start(p, path) \in Inums /\ cwd[p] \in Inums
<1>1. cwd[p] \in InumOr0 /\ cwd[p] # 0
  BY DEF InodeInv, InodeType, CallInv, Leaves
<1> QED
  BY <1>1, InodeAssumption DEF Start, InumOr0

\* The first namex of a call.
LEMMA SyscallStep ==
    ASSUME InodeInv, NEW p \in Users, NEW call \in Calls, Syscall(p, call)
    PROVE  InodeInv'
<1> DEFINE k == Start(p, call.path)
           names == call.path.names
           par == call.sys \in {"create", "mkdir", "mknod", "unlink"}
           arg == <<call.new>>
           e == [Idle EXCEPT !.sys = call.sys, !.pc = "walk", !.then = call.sys, !.path = names,
                             !.par = par, !.ip = k, !.arg = arg]
<1>1. /\ "user" \in Places \ {"gone"} /\ "walk" \in Places \ {"gone"} /\ sysc[p].pc = "user" /\ Now(p, e)
  BY PlaceNames DEF Syscall, At, Looks, IpPlaces
<1>8. k \in Inums /\ k # 0 /\ k \in InumOr0
  <2>1. Place(sysc[p]) = "user"
    BY <1>1, KnownAt
  <2> QED
    BY <2>1, StartTyped, PlaceNames
<1>2. UNCHANGED <<ftab, ofile, cwd>> /\ Table(k) /\ LockStep(p) /\ ilk' \in [Inums -> Users \union {NoUser}]
  <2>1. UNCHANGED <<ftab, ofile, cwd, dirVars, ilk>> /\ itab' = Iget(itab, k) /\ fpanic' = (fpanic \/ TableFull(itab, k))
    BY DEF Syscall
  <2> QED
    BY <1>8, <2>1, TableGot, LocksSame
<1>3. /\ call.sys \in {"open", "chdir", "link", "create", "mkdir", "mknod", "unlink"} /\ names \in Seq(STRING)
      /\ arg \in Seq(Paths) /\ arg # <<>> /\ par \in BOOLEAN
  BY InodeAssumption DEF Paths
<1>9. Idle \in SyscType /\ Idle.ip = 0 /\ Idle.dp = 0 /\ Idle.target = 0 /\ Idle.puts = <<>> /\ Idle.fail = "user"
  BY IdleShape DEF Idle
<1>10. call.sys \in SysNames /\ call.sys \in Places
  BY <1>3, PlaceNames DEF SysNames, IpPlaces, DpPlaces
<1>11. par <=> call.sys \in {"create", "mkdir", "mknod", "unlink"}
  OBVIOUS
<1> HIDE DEF names, arg, k, par
<1>4. /\ e \in SyscType /\ e.ip = k /\ e.dp = 0 /\ e.target = 0 /\ e.puts = <<>> /\ e.pc = "walk" /\ e.arg = arg
      /\ e.then = call.sys /\ e.fail = "user" /\ e.par = par
  BY <1>1, <1>3, <1>8, <1>9, <1>10 DEF SyscType
<1>5. sysc[p].ip = 0 /\ sysc[p].dp = 0 /\ sysc[p].target = 0
  <2>1. Fits(sysc[p], "user")
    BY <1>1, FitsAt
  <2> QED
    BY <2>1 DEF Fits, IpPlaces, DpPlaces, TargetPlaces
<1> HIDE DEF e
<1>6. Fits(e, "walk") /\ Kept(ilk', p, e, "walk")
  BY <1>3, <1>4, <1>8, <1>11 DEF Fits, Kept, WalkFit, IpPlaces, DpPlaces, TargetPlaces, KeepsDp, KeepsIp
<1>7. ASSUME NEW j \in Inums PROVE Hand(e, j) = Hand(sysc[p], j) + One(k, j)
  BY <1>4, <1>5, Ones DEF Hand
<1> QED
  BY <1>1, <1>2, <1>4, <1>6, <1>7, <1>8, GoMove

\* create under the lock of the parent.
LEMMA CreateLookStep ==
    ASSUME InodeInv, NEW p \in Users, CreateLook(p)
    PROVE  InodeInv'
<1> DEFINE c == sysc[p]
           d == c.dp
           tab == Ilock(itab, d)
           i == Lookup(d, c.name)
           s == <<d>>
<1>0. c.pc \in {"create", "mkdir", "mknod"} /\ c.pc \in Places \ {"gone"}
  BY PlaceNames DEF CreateLook, DpPlaces
<1>1. /\ c \in SyscType /\ c.puts = <<>> /\ c.ip = 0 /\ d \in Inums /\ d # 0 /\ c.target = 0 /\ Fits(c, c.pc)
  <2>1. Fits(c, c.pc) /\ c.puts = <<>> /\ (c.pc \in DpPlaces => d \in Inums)
    BY <1>0, KnownAt, FitsAt
  <2>2. c.pc \in DpPlaces /\ c.pc \notin IpPlaces /\ c.pc \notin TargetPlaces /\ c.pc # "walk"
    BY <1>0 DEF IpPlaces, DpPlaces, TargetPlaces
  <2> QED
    BY <2>1, <2>2, PlaceNames DEF Fits
<1>2. UNCHANGED <<ftab, ofile, cwd, dirVars>> /\ LockFree(d)
  BY DEF CreateLook, fileVars
<1>5. s \in Seq(Inums) /\ Len(s) \in {1, 2} /\ \A j \in Inums : PutCount(s, j) = One(d, j)
  BY <1>1, OnePut
<1>6. CASE /\ i # 0
           /\ itab' = Iget(tab, i)
           /\ Now(p, PutThen([c EXCEPT !.dp = 0, !.ip = i], <<c.dp>>, "found"))
           /\ fpanic' = (fpanic \/ NoType(itab, c.dp) \/ TableFull(tab, i))
           /\ UNCHANGED ilk
  <2> DEFINE b == [c EXCEPT !.dp = 0, !.ip = i]
  <2>1. i \in Inums /\ i \in InumOr0
    BY <1>1, <1>6, LookupTyped DEF InumOr0
  <2>2. Table(i) /\ Now(p, PutThen(b, s, "found")) /\ ilk' \in [Inums -> Users \union {NoUser}] /\ LockStep(p)
    BY <1>1, <1>2, <1>6, <2>1, TableTaken, LocksSame
  <2>4. i # 0 /\ "found" \in Places \ {"gone"}
    BY <1>6, PlaceNames DEF IpPlaces
  <2> HIDE DEF i
  <2>3. b \in SyscType /\ b.ip = i /\ b.dp = 0 /\ b.target = 0
    BY <1>1, <2>1, PlaceNames DEF SyscType
  <2> HIDE DEF b
  <2>5. Fits(b, "found") /\ Kept(ilk', p, b, "found")
    BY <2>3, <2>4 DEF Fits, Kept, IpPlaces, DpPlaces, TargetPlaces, KeepsDp, KeepsIp
  <2>6. ASSUME NEW j \in Inums PROVE Hand(b, j) + PutCount(s, j) = Hand(c, j) + One(i, j)
    <3>1. PutCount(s, j) = One(d, j)
      BY <1>5
    <3> HIDE DEF s
    <3> QED
      BY <1>1, <2>3, <3>1, Ones DEF Hand
  <2> HIDE DEF c, s
  <2> QED
    BY <1>0, <1>2, <1>5, <2>1, <2>2, <2>4, <2>5, <2>6, PutMove DEF c
<1>7. CASE /\ i = 0
           /\ itab' = tab
           /\ ilk' = [ilk EXCEPT ![c.dp] = p]
           /\ Now(p, [c EXCEPT !.pc = "ialloc"])
           /\ fpanic' = (fpanic \/ NoType(itab, c.dp))
  <2> DEFINE e == [c EXCEPT !.pc = "ialloc"]
  <2>1. "ialloc" \in Places \ {"gone"}
    BY PlaceNames DEF DpPlaces
  <2>2. Table(0) /\ Now(p, e) /\ ilk' \in [Inums -> Users \union {NoUser}] /\ LockStep(p) /\ ilk'[d] = p
    BY <1>1, <1>2, <1>7, TableRead, LockTaken
  <2>3. e \in SyscType /\ e.ip = 0 /\ e.dp = d /\ e.target = 0 /\ e.puts = <<>> /\ e.pc = "ialloc"
    BY <1>1, <2>1 DEF SyscType
  <2> HIDE DEF e
  <2>5. Fits(e, "ialloc") /\ Kept(ilk', p, e, "ialloc")
    BY <1>1, <2>2, <2>3 DEF Fits, Kept, IpPlaces, DpPlaces, TargetPlaces, KeepsDp, KeepsIp
  <2>6. ASSUME NEW j \in Inums PROVE Hand(e, j) = Hand(c, j) + One(0, j)
    BY <1>1, <2>3, Ones DEF Hand
  <2> HIDE DEF c
  <2> QED
    BY <1>0, <1>2, <2>1, <2>2, <2>3, <2>5, <2>6, GoMove, PlaceNames DEF c
<1> QED
  BY <1>6, <1>7 DEF CreateLook

\* iunlockput of the parent.
LEMMA ReleaseStep ==
    ASSUME InodeInv, NEW p \in Users, Release(p)
    PROVE  InodeInv'
<1> DEFINE c == sysc[p]
           d == c.dp
           s == <<d>>
           b == [c EXCEPT !.dp = 0]
<1>0. c.pc = "release" /\ "release" \in Places \ {"gone"} /\ "user" \in Places \ {"gone"}
  BY PlaceNames DEF Release, At, DpPlaces
<1>1. /\ c \in SyscType /\ c.puts = <<>> /\ c.ip = 0 /\ d \in Inums /\ d # 0 /\ c.target = 0 /\ ilk[d] = p
  <2>1. Fits(c, "release") /\ Kept(ilk, p, c, "release") /\ c.puts = <<>> /\ ("release" \in DpPlaces => d \in Inums)
    BY <1>0, KnownAt, FitsAt
  <2> QED
    BY <2>1, PlaceNames DEF Fits, Kept, IpPlaces, DpPlaces, TargetPlaces, KeepsDp
<1>2. /\ UNCHANGED <<ftab, ofile, cwd>> /\ Table(0) /\ ilk' \in [Inums -> Users \union {NoUser}] /\ LockStep(p)
      /\ Now(p, PutThen(b, s, "user"))
  <2>1. UNCHANGED <<ftab, ofile, cwd, dirVars, itab, fpanic>> /\ ilk' = Iunlock(ilk, d) /\ Now(p, PutThen(b, s, "user"))
    BY DEF Release, fileVars
  <2> QED
    BY <1>1, <2>1, TableSame, LockDropped
<1>3. s \in Seq(Inums) /\ Len(s) \in {1, 2} /\ \A j \in Inums : PutCount(s, j) = One(d, j)
  BY <1>1, OnePut
<1>4. b \in SyscType /\ b.ip = 0 /\ b.dp = 0 /\ b.target = 0
  BY <1>1, PlaceNames DEF SyscType
<1> HIDE DEF b
<1>5. Fits(b, "user") /\ Kept(ilk', p, b, "user")
  BY <1>4 DEF Fits, Kept, IpPlaces, DpPlaces, TargetPlaces, KeepsDp, KeepsIp
<1>6. ASSUME NEW j \in Inums PROVE Hand(b, j) + PutCount(s, j) = Hand(c, j) + One(0, j)
  <2>1. PutCount(s, j) = One(d, j)
    BY <1>3
  <2> HIDE DEF s
  <2> QED
    BY <1>1, <1>4, <2>1, Ones DEF Hand
<1> HIDE DEF c, s
<1> QED
  BY <1>0, <1>2, <1>3, <1>5, <1>6, PutMove, PlaceNames DEF c

\* dirlink of the new name.
LEMMA LinkEnterStep ==
    ASSUME InodeInv, NEW p \in Users, LinkEnter(p)
    PROVE  InodeInv'
<1> DEFINE c == sysc[p]
           d == c.dp
           t == c.target
           tab == Ilock(itab, d)
           i == Lookup(d, c.name)
<1>0. /\ c.pc = "dirlink" /\ "dirlink" \in Places \ {"gone"} /\ "user" \in Places \ {"gone"}
      /\ "undo" \in Places \ {"gone"} /\ "exists" \in Places \ {"gone"}
  BY PlaceNames DEF LinkEnter, At, DpPlaces, TargetPlaces
<1>1. /\ c \in SyscType /\ c.puts = <<>> /\ c.ip = 0 /\ d \in Inums /\ d # 0 /\ t \in Inums /\ t # 0
  <2>1. Fits(c, "dirlink") /\ c.puts = <<>> /\ ("dirlink" \in DpPlaces => d \in Inums) /\ t \in InumOr0
    BY <1>0, KnownAt, FitsAt
  <2> QED
    BY <2>1, PlaceNames DEF Fits, IpPlaces, DpPlaces, TargetPlaces, InumOr0
<1>2. UNCHANGED <<ftab, ofile, cwd, dino, lost>> /\ LockFree(d)
  BY DEF LinkEnter, fileVars
<1>3. ASSUME itab' = tab, fpanic' = (fpanic \/ NoType(itab, d)), \A x \in ents' : x[3] \in Inums PROVE Table(0)
  <2>1. dino \in DinoType /\ fpanic \in BOOLEAN
    BY Known
  <2>2. fpanic' \in BOOLEAN /\ (~fpanic' => ~fpanic /\ ~NoType(itab, d))
    BY <1>3, <2>1
  <2>3. /\ itab' \in TabType /\ \A j \in Inums : itab'[j].ref = itab[j].ref + One(0, j)
        /\ ~NoType(itab, d) => \A j \in Inums : Honest(itab[j], itab'[j], dino[j], dino[j])
    BY <1>1, <1>3, TabRead
  <2> QED
    BY <1>2, <1>3, <2>1, <2>2, <2>3 DEF Table
<1>4. CASE /\ itab' = tab /\ fpanic' = (fpanic \/ NoType(itab, c.dp)) /\ UNCHANGED ilk
           /\ ents' = Dirlink(ents, c.dp, c.name, c.target)
           /\ Now(p, PutThen([c EXCEPT !.dp = 0, !.target = 0], <<c.dp, c.target>>, "user"))
  <2> DEFINE b == [c EXCEPT !.dp = 0, !.target = 0]
             s == <<d, t>>
  <2>1. Table(0)
    <3>1. \A x \in ents : x[3] \in Inums
      BY Known
    <3>2. ents' = ents \union {<<d, c.name, t>>}
      BY <1>4 DEF Dirlink
    <3>3. <<d, c.name, t>>[3] = t
      OBVIOUS
    <3> QED
      BY <1>1, <1>3, <1>4, <3>1, <3>2, <3>3
  <2>2. s \in Seq(Inums) /\ Len(s) \in {1, 2} /\ \A j \in Inums : PutCount(s, j) = One(d, j) + One(t, j)
    BY <1>1, Counts
  <2>3. b \in SyscType /\ b.ip = 0 /\ b.dp = 0 /\ b.target = 0 /\ Now(p, PutThen(b, s, "user"))
    BY <1>1, <1>4, PlaceNames DEF SyscType
  <2>6. ilk' \in [Inums -> Users \union {NoUser}] /\ LockStep(p)
    BY <1>4, LocksSame
  <2> HIDE DEF b
  <2>4. Fits(b, "user") /\ Kept(ilk', p, b, "user")
    BY <2>3 DEF Fits, Kept, IpPlaces, DpPlaces, TargetPlaces, KeepsDp, KeepsIp
  <2>5. ASSUME NEW j \in Inums PROVE Hand(b, j) + PutCount(s, j) = Hand(c, j) + One(0, j)
    <3>1. PutCount(s, j) = One(d, j) + One(t, j)
      BY <2>2
    <3> HIDE DEF s
    <3> QED
      BY <1>1, <2>3, <3>1, Ones DEF Hand
  <2> HIDE DEF c, s
  <2> QED
    BY <1>0, <1>2, <2>1, <2>2, <2>3, <2>4, <2>5, <2>6, PutMove, PlaceNames DEF c
<1>5. CASE /\ itab' = tab /\ fpanic' = (fpanic \/ NoType(itab, c.dp)) /\ UNCHANGED ilk
           /\ Now(p, PutThen([c EXCEPT !.dp = 0], <<c.dp>>, "undo")) /\ UNCHANGED ents
  <2> DEFINE b == [c EXCEPT !.dp = 0]
             s == <<d>>
  <2>1. Table(0)
    <3>1. \A x \in ents : x[3] \in Inums
      BY Known
    <3> QED
      BY <1>3, <1>5, <3>1
  <2>2. s \in Seq(Inums) /\ Len(s) \in {1, 2} /\ \A j \in Inums : PutCount(s, j) = One(d, j)
    BY <1>1, OnePut
  <2>3. b \in SyscType /\ b.ip = 0 /\ b.dp = 0 /\ b.target = t /\ Now(p, PutThen(b, s, "undo"))
    BY <1>1, <1>5, PlaceNames DEF SyscType
  <2>6. ilk' \in [Inums -> Users \union {NoUser}] /\ LockStep(p)
    BY <1>5, LocksSame
  <2> HIDE DEF b
  <2>4. Fits(b, "undo") /\ Kept(ilk', p, b, "undo")
    BY <1>1, <2>3 DEF Fits, Kept, IpPlaces, DpPlaces, TargetPlaces, KeepsDp, KeepsIp
  <2>5. ASSUME NEW j \in Inums PROVE Hand(b, j) + PutCount(s, j) = Hand(c, j) + One(0, j)
    <3>1. PutCount(s, j) = One(d, j)
      BY <2>2
    <3> HIDE DEF s
    <3> QED
      BY <1>1, <2>3, <3>1, Ones DEF Hand
  <2> HIDE DEF c, s
  <2> QED
    BY <1>0, <1>2, <2>1, <2>2, <2>3, <2>4, <2>5, <2>6, PutMove, PlaceNames DEF c
<1>6. CASE /\ i # 0
           /\ itab' = Iget(tab, i)
           /\ ilk' = [ilk EXCEPT ![c.dp] = p]
           /\ Now(p, PutThen(c, <<i>>, "exists"))
           /\ fpanic' = (fpanic \/ NoType(itab, c.dp) \/ TableFull(tab, i))
           /\ UNCHANGED ents
  <2> DEFINE s == <<i>>
  <2>1. i \in Inums /\ i \in InumOr0 /\ UNCHANGED dirVars
    BY <1>1, <1>2, <1>6, LookupTyped DEF InumOr0, dirVars
  <2>2. Table(i) /\ Now(p, PutThen(c, s, "exists")) /\ ilk' \in [Inums -> Users \union {NoUser}] /\ LockStep(p) /\ ilk'[d] = p
    BY <1>1, <1>2, <1>6, <2>1, TableTaken, LockTaken
  <2> HIDE DEF i
  <2>3. s \in Seq(Inums) /\ Len(s) \in {1, 2} /\ \A j \in Inums : PutCount(s, j) = One(i, j)
    BY <2>1, OnePut
  <2>4. Fits(c, "exists") /\ Kept(ilk', p, c, "exists")
    BY <1>1, <2>2 DEF Fits, Kept, IpPlaces, DpPlaces, TargetPlaces, KeepsDp, KeepsIp
  <2>5. ASSUME NEW j \in Inums PROVE Hand(c, j) + PutCount(s, j) = Hand(c, j) + One(i, j)
    BY <2>3
  <2> HIDE DEF c, s
  <2> QED
    BY <1>0, <1>2, <2>1, <2>2, <2>3, <2>4, <2>5, PutMove, PlaceNames DEF c
<1> QED
  BY <1>4, <1>5, <1>6 DEF LinkEnter

\* iunlockput of the directory that has the name of a link.
LEMMA LinkExistsStep ==
    ASSUME InodeInv, NEW p \in Users, LinkExists(p)
    PROVE  InodeInv'
<1> DEFINE c == sysc[p]
           d == c.dp
           t == c.target
           s == <<d>>
           b == [c EXCEPT !.dp = 0]
<1>0. c.pc = "exists" /\ "exists" \in Places \ {"gone"} /\ "undo" \in Places \ {"gone"}
  BY PlaceNames DEF LinkExists, At, DpPlaces, TargetPlaces
<1>1. /\ c \in SyscType /\ c.puts = <<>> /\ c.ip = 0 /\ d \in Inums /\ d # 0 /\ t \in Inums /\ t # 0 /\ ilk[d] = p
  <2>1. /\ Fits(c, "exists") /\ Kept(ilk, p, c, "exists") /\ c.puts = <<>>
        /\ ("exists" \in DpPlaces => d \in Inums) /\ t \in InumOr0
    BY <1>0, KnownAt, FitsAt
  <2> QED
    BY <2>1, PlaceNames DEF Fits, Kept, IpPlaces, DpPlaces, TargetPlaces, KeepsDp, InumOr0
<1>2. /\ UNCHANGED <<ftab, ofile, cwd>> /\ Table(0) /\ ilk' \in [Inums -> Users \union {NoUser}] /\ LockStep(p)
      /\ Now(p, PutThen(b, s, "undo"))
  <2>1. UNCHANGED <<ftab, ofile, cwd, dirVars, itab, fpanic>> /\ ilk' = Iunlock(ilk, d) /\ Now(p, PutThen(b, s, "undo"))
    BY DEF LinkExists, fileVars
  <2> QED
    BY <1>1, <2>1, TableSame, LockDropped
<1>3. s \in Seq(Inums) /\ Len(s) \in {1, 2} /\ \A j \in Inums : PutCount(s, j) = One(d, j)
  BY <1>1, OnePut
<1>4. b \in SyscType /\ b.ip = 0 /\ b.dp = 0 /\ b.target = t
  BY <1>1, PlaceNames DEF SyscType
<1> HIDE DEF b
<1>5. Fits(b, "undo") /\ Kept(ilk', p, b, "undo")
  BY <1>1, <1>4 DEF Fits, Kept, IpPlaces, DpPlaces, TargetPlaces, KeepsDp, KeepsIp
<1>6. ASSUME NEW j \in Inums PROVE Hand(b, j) + PutCount(s, j) = Hand(c, j) + One(0, j)
  <2>1. PutCount(s, j) = One(d, j)
    BY <1>3
  <2> HIDE DEF s
  <2> QED
    BY <1>1, <1>4, <2>1, Ones DEF Hand
<1> HIDE DEF c, s
<1> QED
  BY <1>0, <1>2, <1>3, <1>5, <1>6, PutMove, PlaceNames DEF c

\* unlink under the lock of the directory.
LEMMA UnlinkLookStep ==
    ASSUME InodeInv, NEW p \in Users, UnlinkLook(p)
    PROVE  InodeInv'
<1> DEFINE c == sysc[p]
           d == c.dp
           tab == Ilock(itab, d)
           i == Lookup(d, c.name)
           s == <<d>>
<1>0. c.pc = "unlink" /\ "unlink" \in Places \ {"gone"} /\ "user" \in Places \ {"gone"} /\ "erase" \in Places \ {"gone"}
  BY PlaceNames DEF UnlinkLook, At, DpPlaces
<1>1. /\ c \in SyscType /\ c.puts = <<>> /\ c.ip = 0 /\ d \in Inums /\ d # 0 /\ c.target = 0
  <2>1. Fits(c, "unlink") /\ c.puts = <<>> /\ ("unlink" \in DpPlaces => d \in Inums)
    BY <1>0, KnownAt, FitsAt
  <2> QED
    BY <2>1, PlaceNames DEF Fits, IpPlaces, DpPlaces, TargetPlaces
<1>2. UNCHANGED <<ftab, ofile, cwd, dirVars>> /\ LockFree(d)
  BY DEF UnlinkLook, fileVars
<1>6. CASE /\ itab' = tab
           /\ Now(p, PutThen([c EXCEPT !.dp = 0], <<c.dp>>, "user"))
           /\ fpanic' = (fpanic \/ NoType(itab, c.dp))
           /\ UNCHANGED ilk
  <2> DEFINE b == [c EXCEPT !.dp = 0]
  <2>1. s \in Seq(Inums) /\ Len(s) \in {1, 2} /\ \A j \in Inums : PutCount(s, j) = One(d, j)
    BY <1>1, OnePut
  <2>2. Table(0) /\ Now(p, PutThen(b, s, "user")) /\ ilk' \in [Inums -> Users \union {NoUser}] /\ LockStep(p)
    BY <1>1, <1>2, <1>6, TableRead, LocksSame
  <2>3. b \in SyscType /\ b.ip = 0 /\ b.dp = 0 /\ b.target = 0
    BY <1>1, PlaceNames DEF SyscType
  <2> HIDE DEF b
  <2>5. Fits(b, "user") /\ Kept(ilk', p, b, "user")
    BY <2>3 DEF Fits, Kept, IpPlaces, DpPlaces, TargetPlaces, KeepsDp, KeepsIp
  <2>6. ASSUME NEW j \in Inums PROVE Hand(b, j) + PutCount(s, j) = Hand(c, j) + One(0, j)
    <3>1. PutCount(s, j) = One(d, j)
      BY <2>1
    <3> HIDE DEF s
    <3> QED
      BY <1>1, <2>3, <3>1, Ones DEF Hand
  <2> HIDE DEF c, s
  <2> QED
    BY <1>0, <1>2, <2>1, <2>2, <2>5, <2>6, PutMove, PlaceNames DEF c
<1>7. CASE /\ i # 0
           /\ itab' = Iget(tab, i)
           /\ ilk' = [ilk EXCEPT ![c.dp] = p]
           /\ Now(p, [c EXCEPT !.ip = i, !.pc = "erase"])
           /\ fpanic' = (fpanic \/ NoType(itab, c.dp) \/ TableFull(tab, i))
  <2> DEFINE e == [c EXCEPT !.ip = i, !.pc = "erase"]
  <2>1. i \in Inums /\ i \in InumOr0 /\ i # 0
    BY <1>1, <1>7, LookupTyped DEF InumOr0
  <2>2. Table(i) /\ Now(p, e) /\ ilk' \in [Inums -> Users \union {NoUser}] /\ LockStep(p) /\ ilk'[d] = p
    BY <1>1, <1>2, <1>7, <2>1, TableTaken, LockTaken
  <2> HIDE DEF i
  <2>3. e \in SyscType /\ e.ip = i /\ e.dp = d /\ e.target = 0 /\ e.puts = <<>> /\ e.pc = "erase"
    BY <1>0, <1>1, <2>1 DEF SyscType
  <2> HIDE DEF e
  <2>5. Fits(e, "erase") /\ Kept(ilk', p, e, "erase")
    BY <1>1, <2>1, <2>2, <2>3 DEF Fits, Kept, IpPlaces, DpPlaces, TargetPlaces, KeepsDp, KeepsIp
  <2>6. ASSUME NEW j \in Inums PROVE Hand(e, j) = Hand(c, j) + One(i, j)
    BY <1>1, <2>3, Ones DEF Hand
  <2> HIDE DEF c
  <2> QED
    BY <1>0, <1>2, <2>1, <2>2, <2>3, <2>5, <2>6, GoMove DEF c
<1> QED
  BY <1>6, <1>7 DEF UnlinkLook

-----------------------------------------------------------------------------
(* Changes of the link count.                                                *)

\* Under its lock, a valid copy shows the disk.
LEMMA TrueCopy ==
    ASSUME InodeInv, ~fpanic, NEW p \in Users, NEW i \in Inums, ilk[i] \in {NoUser, p}, sysc[p].pc # "invalidate",
           itab[i].ref > 0, itab[i].valid
    PROVE  itab[i].type # "free" /\ itab[i].type = dino[i].type /\ itab[i].nlink = dino[i].nlink
<1>1. CopyFit(i)
  BY DEF InodeInv, CopyInv
<1>2. ~Freeing(i)
  <2> SUFFICES ASSUME NEW q \in Users, sysc[q].pc = "invalidate", Head(sysc[q].puts) = i
               PROVE  FALSE
    BY DEF Freeing
  <2>1. ilk[i] = q
    BY DEF InodeInv, CallInv, Locked
  <2>2. q # NoUser
    BY InodeAssumption
  <2> QED
    BY <2>1, <2>2
<1> QED
  BY <1>1, <1>2 DEF CopyFit

\* A link count changed in the copy and written with iupdate.
Relinked(tab, new, upd, i, n) ==
    /\ new \in TabType /\ upd \in DinoType
    /\ \A j \in Inums : new[j].ref = itab[j].ref
    /\ \A j \in Inums \ {i} : new[j] = tab[j] /\ upd[j] = dino[j]
    /\ new[i].nlink = n /\ new[i].valid = tab[i].valid /\ new[i].type = tab[i].type
    /\ upd[i].type = tab[i].type /\ upd[i].nlink = n

\* A link more or less changes one count.
LEMMA LinkedFields ==
    ASSUME InodeInv, NEW i \in Inums, NEW tab \in TabType, \A j \in Inums : tab[j].ref = itab[j].ref, NEW n \in Int,
           NEW new, new = [tab EXCEPT ![i].nlink = n]
    PROVE  Relinked(tab, new, Updated(new, i), i, n)
<1> DEFINE upd == Updated(new, i)
<1>1. dino \in DinoType
  BY DEF InodeInv, InodeType
<1>2. /\ new \in TabType /\ (\A j \in Inums : new[j].ref = itab[j].ref) /\ \A j \in Inums \ {i} : new[j] = tab[j]
      /\ new[i].nlink = n /\ new[i].valid = tab[i].valid /\ new[i].type = tab[i].type
  BY DEF TabType
<1>3. upd \in DinoType /\ (\A j \in Inums \ {i} : upd[j] = dino[j]) /\ upd[i].type = tab[i].type /\ upd[i].nlink = n
  <2> DEFINE x == [type |-> new[i].type, nlink |-> new[i].nlink]
  <2>1. x \in [type : Types, nlink : Int] /\ x.type = tab[i].type /\ x.nlink = n
    BY <1>2 DEF TabType
  <2>2. upd = [dino EXCEPT ![i] = x]
    BY DEF Updated
  <2> HIDE DEF x
  <2> QED
    BY <1>1, <2>1, <2>2 DEF DinoType
<1> HIDE DEF upd
<1> QED
  BY <1>2, <1>3 DEF upd, Relinked

\* That keeps the copy true.
LEMMA HonestLinked ==
    ASSUME InodeInv, ~fpanic, NEW p \in Users, NEW i \in Inums, ilk[i] \in {NoUser, p}, sysc[p].pc # "invalidate",
           NEW tab \in TabType, \A j \in Inums : tab[j].ref = itab[j].ref, NEW n \in Int,
           \A j \in Inums : Honest(itab[j], tab[j], dino[j], dino[j]), NEW new, new = [tab EXCEPT ![i].nlink = n]
    PROVE  \A j \in Inums : Honest(itab[j], new[j], dino[j], Updated(new, i)[j])
<1> DEFINE upd == Updated(new, i)
<1>0. Relinked(tab, new, upd, i, n)
  BY LinkedFields
<1> HIDE DEF upd
<1>1. /\ \A j \in Inums : new[j].ref = itab[j].ref
      /\ \A j \in Inums \ {i} : new[j] = tab[j] /\ upd[j] = dino[j]
      /\ new[i].nlink = n /\ new[i].valid = tab[i].valid /\ new[i].type = tab[i].type
      /\ upd[i].type = tab[i].type /\ upd[i].nlink = n
  BY <1>0 DEF Relinked
<1>2. ASSUME NEW j \in Inums PROVE Honest(itab[j], new[j], dino[j], upd[j])
  <2>1. CASE j # i
    BY <1>1, <2>1
  <2>2. CASE j = i
    <3>1. Honest(itab[i], tab[i], dino[i], dino[i])
      OBVIOUS
    <3>2. new[i].ref > 0 /\ new[i].valid => tab[i].type # "free"
      BY <1>1, <3>1, TrueCopy DEF Honest
    <3> QED
      BY <1>1, <2>2, <3>2 DEF Honest
  <2> QED
    BY <2>1, <2>2
<1> QED
  BY <1>2 DEF upd

\* The link count of i is changed and written through: no reference is taken.
LEMMA TableLinked ==
    ASSUME InodeInv, NEW p \in Users, NEW i \in Inums, ilk[i] \in {NoUser, p}, sysc[p].pc # "invalidate",
           NEW tab \in TabType, \A j \in Inums : tab[j].ref = itab[j].ref, NEW n \in Int,
           itab' = [tab EXCEPT ![i].nlink = n], dino' = Updated(itab', i),
           \A x \in ents' : x[3] \in Inums, fpanic' \in BOOLEAN,
           ~fpanic' => ~fpanic /\ \A j \in Inums : Honest(itab[j], tab[j], dino[j], dino[j])
    PROVE  Table(0)
<1>1. itab' \in TabType /\ dino' \in DinoType /\ \A j \in Inums : itab'[j].ref = itab[j].ref
  <2>1. Relinked(tab, itab', dino', i, n)
    BY LinkedFields
  <2> QED
    BY <2>1 DEF Relinked
<1>2. ~fpanic' => \A j \in Inums : Honest(itab[j], itab'[j], dino[j], dino'[j])
  BY HonestLinked
<1>3. \A j \in Inums : itab'[j].ref = itab[j].ref + One(0, j)
  BY <1>1, RefNat, Ones
<1> QED
  BY <1>1, <1>2, <1>3 DEF Table

\* The link is counted before the second path is looked up.
LEMMA LinkCountStep ==
    ASSUME InodeInv, NEW p \in Users, LinkCount(p)
    PROVE  InodeInv'
<1> DEFINE c == sysc[p]
           i == c.ip
           tab == Ilock(itab, i)
           from == Start(p, Head(c.arg))
<1>0. c.pc = "link" /\ "link" \in Places \ {"gone"} /\ "user" \in Places \ {"gone"} /\ "walk" \in Places \ {"gone"}
  BY PlaceNames DEF LinkCount, At, IpPlaces
<1>1. /\ c \in SyscType /\ c.puts = <<>> /\ c.dp = 0 /\ i \in Inums /\ i # 0 /\ c.target = 0 /\ Place(c) = "link"
      /\ c.arg # <<>> /\ c.arg \in Seq(Paths) /\ c.pc # "invalidate"
  <2>1. Fits(c, "link") /\ c.puts = <<>> /\ ("link" \in IpPlaces => i \in Inums) /\ Place(c) = "link" /\ c.pc # "invalidate"
    BY <1>0, KnownAt, FitsAt
  <2> QED
    BY <2>1, PlaceNames DEF Fits, IpPlaces, DpPlaces, TargetPlaces, SyscType
<1>2. /\ UNCHANGED <<ftab, ofile, cwd, ilk, ents, lost>> /\ LockFree(i)
      /\ ilk' \in [Inums -> Users \union {NoUser}] /\ LockStep(p)
  BY LocksSame DEF LinkCount, fileVars
<1>3. Head(c.arg) \in Paths
  <2> DEFINE s == c.arg
  <2>1. s \in Seq(Paths) /\ s # <<>>
    BY <1>1
  <2> HIDE DEF s
  <2>2. Head(s) \in Paths
    BY <2>1, HeadTailProperties
  <2> QED
    BY <2>2 DEF s
<1>4. from \in Inums /\ from # 0 /\ from \in InumOr0
  BY <1>1, StartTyped, PlaceNames
<1>6. CASE /\ itab' = tab
           /\ Now(p, PutThen([c EXCEPT !.ip = 0], <<i>>, "user"))
           /\ fpanic' = (fpanic \/ NoType(itab, i))
           /\ UNCHANGED dino
  <2> DEFINE b == [c EXCEPT !.ip = 0]
             s == <<i>>
  <2>1. s \in Seq(Inums) /\ Len(s) \in {1, 2} /\ \A j \in Inums : PutCount(s, j) = One(i, j)
    BY <1>1, OnePut
  <2>2. Table(0) /\ Now(p, PutThen(b, s, "user"))
    BY <1>1, <1>2, <1>6, TableRead DEF dirVars
  <2>3. b \in SyscType /\ b.ip = 0 /\ b.dp = 0 /\ b.target = 0
    BY <1>1, PlaceNames DEF SyscType
  <2> HIDE DEF b
  <2>5. Fits(b, "user") /\ Kept(ilk', p, b, "user")
    BY <2>3 DEF Fits, Kept, IpPlaces, DpPlaces, TargetPlaces, KeepsDp, KeepsIp
  <2>6. ASSUME NEW j \in Inums PROVE Hand(b, j) + PutCount(s, j) = Hand(c, j) + One(0, j)
    <3>1. PutCount(s, j) = One(i, j)
      BY <2>1
    <3> HIDE DEF s
    <3> QED
      BY <1>1, <2>3, <3>1, Ones DEF Hand
  <2> HIDE DEF c, s
  <2> QED
    BY <1>0, <1>2, <2>1, <2>2, <2>5, <2>6, PutMove, PlaceNames DEF c
<1>7. CASE /\ itab' = Iget(Linked(tab, i, 1), from)
           /\ dino' = Updated(Linked(tab, i, 1), i)
           /\ Now(p, [c EXCEPT !.target = i, !.ip = from, !.path = Head(c.arg).names, !.par = TRUE,
                               !.then = "dirlink", !.fail = "undo", !.pc = "walk"])
           /\ fpanic' = (fpanic \/ NoType(itab, i) \/ TableFull(tab, from))
  <2> DEFINE yes == TRUE
             names == Head(c.arg).names
             e == [c EXCEPT !.target = i, !.ip = from, !.path = names, !.par = yes,
                            !.then = "dirlink", !.fail = "undo", !.pc = "walk"]
             n == tab[i].nlink + 1
             new == [tab EXCEPT ![i].nlink = n]
             upd == Updated(new, i)
  <2>1. names \in Seq(STRING) /\ yes \in BOOLEAN /\ yes /\ "undo" \in Places /\ "dirlink" \in Places
    BY <1>3, PlaceNames DEF Paths, TargetPlaces
  <2>2. /\ tab \in TabType /\ \A j \in Inums : tab[j].ref = itab[j].ref /\ tab[j].ref \in Nat
        /\ ~NoType(itab, i) => \A j \in Inums : Honest(itab[j], tab[j], dino[j], dino[j])
    BY <1>1, TabRead, RefNat, Ones
  <2>3. itab' = Iget(new, from) /\ dino' = upd /\ Now(p, e)
    BY <1>7 DEF Linked
  <2>9. fpanic' = (fpanic \/ NoType(itab, i) \/ TableFull(tab, from))
    BY <1>7
  <2> HIDE DEF tab, from
  <2>4. n \in Int
    BY <1>1, <2>2 DEF TabType
  <2> HIDE DEF n
  <2>5. new \in TabType /\ upd \in DinoType /\ \A j \in Inums : new[j].ref = itab[j].ref
    <3>1. Relinked(tab, new, upd, i, n)
      BY <1>1, <2>2, <2>4, LinkedFields
    <3> QED
      BY <3>1 DEF Relinked
  <2>6. ~fpanic /\ ~NoType(itab, i) => \A j \in Inums : Honest(itab[j], new[j], dino[j], upd[j])
    BY <1>1, <1>2, <2>2, <2>4, HonestLinked DEF LockFree
  <2> HIDE DEF new, upd
  <2>7. Table(from)
    <3>1. (\A x \in ents : x[3] \in Inums) /\ fpanic \in BOOLEAN
      BY Known
    <3>2. fpanic' \in BOOLEAN /\ (~fpanic' => ~fpanic /\ ~NoType(itab, i))
      BY <2>9, <3>1
    <3>3. \A j \in Inums : itab[j].ref \in Nat
      BY RefNat
    <3>4. itab' \in TabType /\ itab'[from].ref = new[from].ref + 1 /\ \A j \in Inums \ {from} : itab'[j] = new[j]
      BY <1>4, <2>3, <2>5, <3>3, IgetFields
    <3>5. ~fpanic' => \A j \in Inums : Honest(itab[j], itab'[j], dino[j], dino'[j])
      BY <1>4, <2>3, <2>5, <2>6, <3>2, <3>3, HonestIget
    <3>6. \A j \in Inums : itab'[j].ref = itab[j].ref + One(from, j)
      BY <2>5, <3>3, <3>4 DEF One
    <3> QED
      BY <1>2, <2>3, <2>5, <3>1, <3>2, <3>4, <3>5, <3>6 DEF Table
  <2> HIDE DEF names, yes
  <2>8. /\ e \in SyscType /\ e.ip = from /\ e.dp = 0 /\ e.target = i /\ e.puts = <<>> /\ e.pc = "walk" /\ e.par
        /\ e.then = "dirlink" /\ e.fail = "undo" /\ e.arg # <<>>
    BY <1>0, <1>1, <1>4, <2>1, PlaceNames DEF SyscType
  <2> HIDE DEF e
  <2>10. Fits(e, "walk") /\ Kept(ilk', p, e, "walk")
    BY <1>1, <1>4, <2>8 DEF Fits, Kept, WalkFit, IpPlaces, DpPlaces, TargetPlaces, KeepsDp, KeepsIp
  <2>11. ASSUME NEW j \in Inums PROVE Hand(e, j) = Hand(c, j) + One(from, j)
    BY <1>1, <2>8, Ones DEF Hand
  <2> HIDE DEF c
  <2> QED
    BY <1>0, <1>2, <1>4, <2>3, <2>7, <2>8, <2>10, <2>11, GoMove DEF c
<1> QED
  BY <1>6, <1>7 DEF LinkCount

\* The link is uncounted.
LEMMA LinkUndoStep ==
    ASSUME InodeInv, NEW p \in Users, LinkUndo(p)
    PROVE  InodeInv'
<1> DEFINE c == sysc[p]
           i == c.target
           tab == Ilock(itab, i)
           b == [c EXCEPT !.target = 0]
           s == <<i>>
<1>0. c.pc = "undo" /\ "undo" \in Places \ {"gone"} /\ "user" \in Places \ {"gone"}
  BY PlaceNames DEF LinkUndo, At, TargetPlaces
<1>1. /\ c \in SyscType /\ c.puts = <<>> /\ c.dp = 0 /\ c.ip = 0 /\ i \in Inums /\ i # 0 /\ c.pc # "invalidate"
  <2>1. Fits(c, "undo") /\ c.puts = <<>> /\ c.pc # "invalidate" /\ i \in InumOr0
    BY <1>0, KnownAt, FitsAt
  <2> QED
    BY <2>1, PlaceNames DEF Fits, IpPlaces, DpPlaces, TargetPlaces, InumOr0
<1>2. /\ UNCHANGED <<ftab, ofile, cwd, ilk, ents>> /\ LockFree(i) /\ Now(p, PutThen(b, s, "user"))
      /\ ilk' \in [Inums -> Users \union {NoUser}] /\ LockStep(p)
  BY LocksSame DEF LinkUndo, fileVars
<1>3. /\ tab \in TabType /\ \A j \in Inums : tab[j].ref = itab[j].ref
      /\ ~NoType(itab, i) => \A j \in Inums : Honest(itab[j], tab[j], dino[j], dino[j])
  BY <1>1, TabRead, RefNat, Ones
<1>4. Table(0)
  <2> DEFINE n == tab[i].nlink + (0 - 1)
  <2>1. itab' = [tab EXCEPT ![i].nlink = n] /\ dino' = Updated(itab', i) /\ fpanic' = (fpanic \/ NoType(itab, i))
    BY DEF LinkUndo, Linked
  <2>2. (\A x \in ents' : x[3] \in Inums) /\ fpanic \in BOOLEAN
    BY <1>2, Known
  <2>3. fpanic' \in BOOLEAN /\ (~fpanic' => ~fpanic /\ ~NoType(itab, i))
    BY <2>1, <2>2
  <2> HIDE DEF tab
  <2>4. n \in Int
    BY <1>1, <1>3 DEF TabType
  <2> HIDE DEF n
  <2> QED
    BY <1>1, <1>2, <1>3, <2>1, <2>2, <2>3, <2>4, TableLinked DEF LockFree
<1>5. s \in Seq(Inums) /\ Len(s) \in {1, 2} /\ \A j \in Inums : PutCount(s, j) = One(i, j)
  BY <1>1, OnePut
<1>6. b \in SyscType /\ b.ip = 0 /\ b.dp = 0 /\ b.target = 0
  BY <1>1, PlaceNames DEF SyscType
<1> HIDE DEF b
<1>7. Fits(b, "user") /\ Kept(ilk', p, b, "user")
  BY <1>6 DEF Fits, Kept, IpPlaces, DpPlaces, TargetPlaces, KeepsDp, KeepsIp
<1>8. ASSUME NEW j \in Inums PROVE Hand(b, j) + PutCount(s, j) = Hand(c, j) + One(0, j)
  <2>1. PutCount(s, j) = One(i, j)
    BY <1>5
  <2> HIDE DEF s
  <2> QED
    BY <1>1, <1>6, <2>1, Ones DEF Hand
<1> HIDE DEF c, s
<1> QED
  BY <1>0, <1>2, <1>4, <1>5, <1>7, <1>8, PutMove, PlaceNames DEF c

\* The erased name is uncounted.
LEMMA UnlinkDropStep ==
    ASSUME InodeInv, NEW p \in Users, UnlinkDrop(p)
    PROVE  InodeInv'
<1> DEFINE c == sysc[p]
           i == c.ip
           b == [c EXCEPT !.ip = 0]
           s == <<i>>
<1>0. c.pc = "drop" /\ "drop" \in Places \ {"gone"} /\ "user" \in Places \ {"gone"}
  BY PlaceNames DEF UnlinkDrop, At, IpPlaces
<1>1. /\ c \in SyscType /\ c.puts = <<>> /\ c.dp = 0 /\ c.target = 0 /\ i \in Inums /\ i # 0 /\ c.pc # "invalidate" /\ ilk[i] = p
  <2>1. Fits(c, "drop") /\ Kept(ilk, p, c, "drop") /\ c.puts = <<>> /\ c.pc # "invalidate" /\ ("drop" \in IpPlaces => i \in Inums)
    BY <1>0, KnownAt, FitsAt
  <2> QED
    BY <2>1, PlaceNames DEF Fits, Kept, IpPlaces, DpPlaces, TargetPlaces, KeepsIp
<1>2. /\ UNCHANGED <<ftab, ofile, cwd, ents, fpanic>> /\ Now(p, PutThen(b, s, "user"))
      /\ ilk' \in [Inums -> Users \union {NoUser}] /\ LockStep(p)
  BY <1>1, LockDropped DEF UnlinkDrop, fileVars
<1>4. Table(0)
  <2> DEFINE n == itab[i].nlink + (0 - 1)
  <2>1. itab' = [itab EXCEPT ![i].nlink = n] /\ dino' = Updated(itab', i)
    BY DEF UnlinkDrop, Linked
  <2>2. (\A x \in ents' : x[3] \in Inums) /\ fpanic' \in BOOLEAN /\ itab \in TabType
    BY <1>2, Known
  <2>4. n \in Int
    BY <1>1, <2>2 DEF TabType
  <2>5. \A j \in Inums : Honest(itab[j], itab[j], dino[j], dino[j])
    BY HonestSame
  <2> HIDE DEF n
  <2> QED
    BY <1>1, <1>2, <2>1, <2>2, <2>4, <2>5, TableLinked
<1>5. s \in Seq(Inums) /\ Len(s) \in {1, 2} /\ \A j \in Inums : PutCount(s, j) = One(i, j)
  BY <1>1, OnePut
<1>6. b \in SyscType /\ b.ip = 0 /\ b.dp = 0 /\ b.target = 0
  BY <1>1, PlaceNames DEF SyscType
<1> HIDE DEF b
<1>7. Fits(b, "user") /\ Kept(ilk', p, b, "user")
  BY <1>6 DEF Fits, Kept, IpPlaces, DpPlaces, TargetPlaces, KeepsDp, KeepsIp
<1>8. ASSUME NEW j \in Inums PROVE Hand(b, j) + PutCount(s, j) = Hand(c, j) + One(0, j)
  <2>1. PutCount(s, j) = One(i, j)
    BY <1>5
  <2> HIDE DEF s
  <2> QED
    BY <1>1, <1>6, <2>1, Ones DEF Hand
<1> HIDE DEF c, s
<1> QED
  BY <1>0, <1>2, <1>4, <1>5, <1>7, <1>8, PutMove, PlaceNames DEF c

\* The erased entry of unlink, with both inodes locked.
LEMMA UnlinkEraseStep ==
    ASSUME InodeInv, NEW p \in Users, UnlinkErase(p)
    PROVE  InodeInv'
<1> DEFINE c == sysc[p]
           i == c.ip
           d == c.dp
           tab == Ilock(itab, i)
           isdir == tab[i].type = "dir"
<1>0. c.pc = "erase" /\ "erase" \in Places \ {"gone"} /\ "release" \in Places \ {"gone"} /\ "drop" \in Places \ {"gone"}
  BY PlaceNames DEF UnlinkErase, At, IpPlaces, DpPlaces
<1>1. /\ c \in SyscType /\ c.puts = <<>> /\ c.target = 0 /\ i \in Inums /\ i # 0 /\ d \in Inums /\ d # 0
      /\ c.pc # "invalidate" /\ ilk[d] = p
  <2>1. /\ Fits(c, "erase") /\ Kept(ilk, p, c, "erase") /\ c.puts = <<>> /\ c.pc # "invalidate"
        /\ ("erase" \in IpPlaces => i \in Inums) /\ ("erase" \in DpPlaces => d \in Inums)
    BY <1>0, KnownAt, FitsAt
  <2> QED
    BY <2>1, PlaceNames DEF Fits, Kept, IpPlaces, DpPlaces, TargetPlaces, KeepsDp
<1>2. /\ UNCHANGED <<ftab, ofile, cwd>> /\ LockFree(i)
      /\ fpanic' = (fpanic \/ NoType(itab, i) \/ tab[i].nlink < 1)
  BY DEF UnlinkErase, fileVars
<1>3. /\ tab \in TabType /\ \A j \in Inums : tab[j].ref = itab[j].ref
      /\ ~NoType(itab, i) => \A j \in Inums : Honest(itab[j], tab[j], dino[j], dino[j])
  BY <1>1, TabRead, RefNat, Ones
<1>4. dino \in DinoType /\ (\A x \in ents : x[3] \in Inums) /\ fpanic \in BOOLEAN
  BY Known
<1>5. fpanic' \in BOOLEAN /\ (~fpanic' => ~fpanic /\ ~NoType(itab, i))
  BY <1>2, <1>4
<1>6. CASE /\ itab' = tab
           /\ Now(p, PutThen([c EXCEPT !.ip = 0], <<c.ip>>, "release"))
           /\ UNCHANGED <<dino, ents, ilk>>
  <2> DEFINE b == [c EXCEPT !.ip = 0]
             s == <<i>>
  <2>1. s \in Seq(Inums) /\ Len(s) \in {1, 2} /\ \A j \in Inums : PutCount(s, j) = One(i, j)
    BY <1>1, OnePut
  <2>2. Now(p, PutThen(b, s, "release")) /\ ilk' \in [Inums -> Users \union {NoUser}] /\ LockStep(p) /\ ilk' = ilk
    BY <1>6, LocksSame
  <2>7. Table(0)
    <3>1. dino' = dino /\ ents' = ents /\ itab' = tab
      BY <1>6
    <3> HIDE DEF tab
    <3>2. \A j \in Inums : itab'[j].ref = itab[j].ref + One(0, j)
      BY <1>3, <3>1, RefNat, Ones
    <3> QED
      BY <1>3, <1>4, <1>5, <3>1, <3>2 DEF Table
  <2>3. b \in SyscType /\ b.ip = 0 /\ b.dp = d /\ b.target = 0
    BY <1>1, PlaceNames DEF SyscType
  <2> HIDE DEF b
  <2>5. Fits(b, "release") /\ Kept(ilk', p, b, "release")
    BY <1>1, <2>2, <2>3 DEF Fits, Kept, IpPlaces, DpPlaces, TargetPlaces, KeepsDp, KeepsIp
  <2>6. ASSUME NEW j \in Inums PROVE Hand(b, j) + PutCount(s, j) = Hand(c, j) + One(0, j)
    <3>1. PutCount(s, j) = One(i, j)
      BY <2>1
    <3> HIDE DEF s
    <3> QED
      BY <1>1, <2>3, <3>1, Ones DEF Hand
  <2> HIDE DEF c, s
  <2> QED
    BY <1>0, <1>2, <2>1, <2>2, <2>5, <2>6, <2>7, PutMove, PlaceNames DEF c
<1>7. CASE /\ ents' = ents \ {<<c.dp, c.name, c.ip>>}
           /\ itab' = IF isdir THEN Linked(tab, c.dp, 0 - 1) ELSE tab
           /\ dino' = Updated(itab', c.dp)
           /\ ilk' = [Iunlock(ilk, c.dp) EXCEPT ![c.ip] = p]
           /\ Now(p, PutThen([c EXCEPT !.dp = 0], <<c.dp>>, "drop"))
  <2> DEFINE b == [c EXCEPT !.dp = 0]
             s == <<d>>
             n == IF isdir THEN tab[d].nlink + (0 - 1) ELSE tab[d].nlink
  <2>1. s \in Seq(Inums) /\ Len(s) \in {1, 2} /\ \A j \in Inums : PutCount(s, j) = One(d, j)
    BY <1>1, OnePut
  <2>2. /\ Now(p, PutThen(b, s, "drop")) /\ ilk' \in [Inums -> Users \union {NoUser}] /\ LockStep(p) /\ ilk'[i] = p
        /\ dino' = Updated(itab', d) /\ ents' \subseteq ents
    BY <1>1, <1>2, <1>7, LockMoved
  <2>7. Table(0)
    <3>0. itab' = IF isdir THEN [tab EXCEPT ![d].nlink = tab[d].nlink + (0 - 1)] ELSE tab
      BY <1>7 DEF Linked
    <3> HIDE DEF tab, isdir
    <3>1. tab = [tab EXCEPT ![d].nlink = tab[d].nlink]
      BY <1>1, <1>3 DEF TabType
    <3>2. itab' = [tab EXCEPT ![d].nlink = n]
      BY <3>0, <3>1
    <3>3. n \in Int
      BY <1>1, <1>3 DEF TabType
    <3> HIDE DEF n
    <3>4. \A x \in ents' : x[3] \in Inums
      BY <1>4, <2>2
    <3> QED
      BY <1>1, <1>3, <1>5, <2>2, <3>2, <3>3, <3>4, TableLinked
  <2>3. b \in SyscType /\ b.ip = i /\ b.dp = 0 /\ b.target = 0
    BY <1>1, PlaceNames DEF SyscType
  <2> HIDE DEF b
  <2>5. Fits(b, "drop") /\ Kept(ilk', p, b, "drop")
    BY <1>1, <2>2, <2>3 DEF Fits, Kept, IpPlaces, DpPlaces, TargetPlaces, KeepsDp, KeepsIp
  <2>6. ASSUME NEW j \in Inums PROVE Hand(b, j) + PutCount(s, j) = Hand(c, j) + One(0, j)
    <3>1. PutCount(s, j) = One(d, j)
      BY <2>1
    <3> HIDE DEF s
    <3> QED
      BY <1>1, <2>3, <3>1, Ones DEF Hand
  <2> HIDE DEF c, s
  <2> QED
    BY <1>0, <1>2, <2>1, <2>2, <2>5, <2>6, <2>7, PutMove, PlaceNames DEF c
<1> QED
  BY <1>6, <1>7 DEF UnlinkErase

\* A set of naturals has a least element, and Least picks it.
LEMMA LeastIn ==
    ASSUME NEW S \in SUBSET Nat, S # {}
    PROVE  Least(S) \in S
<1>1. PICK x \in S : \A y \in S : ~(<<y, x>> \in OpToRel(<, Nat))
  BY NatLessThanWellFounded, WFMin
<1>2. ASSUME NEW y \in S PROVE x <= y
  <2>1. <<y, x>> \notin OpToRel(<, Nat)
    BY <1>1
  <2>2. y \in Nat /\ x \in Nat
    OBVIOUS
  <2>3. ~(y < x)
    BY <2>1, <2>2 DEF OpToRel
  <2> QED
    BY <2>2, <2>3
<1> QED
  BY <1>2 DEF Least

\* The inode that ialloc takes.
LEMMA IallocStep ==
    ASSUME InodeInv, NEW p \in Users, Ialloc(p)
    PROVE  InodeInv'
<1> DEFINE c == sysc[p]
           d == c.dp
           avail == {j \in Inums : dino[j].type = "free"}
           i == Least(avail)
<1>0. c.pc = "ialloc" /\ "ialloc" \in Places \ {"gone"} /\ "release" \in Places \ {"gone"} /\ "fill" \in Places \ {"gone"}
  BY PlaceNames DEF Ialloc, At, DpPlaces
<1>1. /\ c \in SyscType /\ c.puts = <<>> /\ c.target = 0 /\ c.ip = 0 /\ d \in Inums /\ d # 0 /\ ilk[d] = p
  <2>1. /\ Fits(c, "ialloc") /\ Kept(ilk, p, c, "ialloc") /\ c.puts = <<>> /\ ("ialloc" \in DpPlaces => d \in Inums)
    BY <1>0, KnownAt, FitsAt
  <2> QED
    BY <2>1, PlaceNames DEF Fits, Kept, IpPlaces, DpPlaces, TargetPlaces, KeepsDp
<1>2. UNCHANGED <<ftab, ofile, cwd, ents, lost, ilk>> /\ ilk' \in [Inums -> Users \union {NoUser}] /\ LockStep(p)
  BY LocksSame DEF Ialloc, fileVars
<1>6. CASE /\ avail # {}
           /\ dino' = [dino EXCEPT ![i] = [type |-> NewType(c), nlink |-> 0]]
           /\ itab' = Iget(itab, i)
           /\ fpanic' = (fpanic \/ TableFull(itab, i))
           /\ Now(p, [c EXCEPT !.pc = "fill", !.ip = i])
  <2> DEFINE e == [c EXCEPT !.pc = "fill", !.ip = i]
             x == [type |-> NewType(c), nlink |-> 0]
  <2>1. i \in Inums /\ dino[i].type = "free"
    <3>1. avail \in SUBSET Nat
      BY InodeAssumption
    <3>2. i \in avail
      BY <1>6, <3>1, LeastIn
    <3> QED
      BY <3>2
  <2>2. i # 0 /\ i \in InumOr0
    BY <2>1, PlaceNames
  <2>3. dino' = [dino EXCEPT ![i] = x] /\ itab' = Iget(itab, i) /\ fpanic' = (fpanic \/ TableFull(itab, i)) /\ Now(p, e)
    BY <1>6
  <2> HIDE DEF i
  <2>4. /\ dino \in DinoType /\ itab \in TabType /\ (\A y \in ents : y[3] \in Inums) /\ fpanic \in BOOLEAN
        /\ CopyInv /\ \A j \in Inums : itab[j].ref \in Nat
    BY Known, RefNat
  <2>5. dino' \in DinoType /\ \A j \in Inums \ {i} : dino'[j] = dino[j]
    <3>1. x \in [type : Types, nlink : Int]
      BY DEF NewType, Types
    <3> HIDE DEF x
    <3> QED
      BY <2>1, <2>3, <2>4, <3>1 DEF DinoType
  <2>6. /\ itab' \in TabType /\ itab'[i].ref = itab[i].ref + 1
        /\ \A j \in Inums \ {i} : itab'[j] = itab[j]
        /\ IF itab[i].ref > 0 THEN itab'[i].valid = itab[i].valid /\ itab'[i].type = itab[i].type /\ itab'[i].nlink = itab[i].nlink
           ELSE ~itab'[i].valid
    BY <2>1, <2>3, <2>4, IgetFields
  <2>7. Table(i)
    <3>1. fpanic' \in BOOLEAN /\ (~fpanic' => ~fpanic)
      BY <2>3, <2>4
    <3>2. \A j \in Inums : itab'[j].ref = itab[j].ref + One(i, j)
      BY <2>4, <2>6 DEF One
    <3>3. ASSUME ~fpanic, NEW j \in Inums PROVE Honest(itab[j], itab'[j], dino[j], dino'[j])
      <4>1. CASE j # i
        BY <2>5, <2>6, <4>1, HonestSame
      <4>2. CASE j = i
        <5>1. CopyFit(i)
          BY <2>1, <2>4, <3>3 DEF CopyInv
        <5>2. itab[i].ref > 0 /\ itab[i].valid => itab[i].type = "free"
          BY <2>1, <5>1 DEF CopyFit
        <5> QED
          BY <2>6, <4>2, <5>2 DEF Honest
      <4> QED
        BY <4>1, <4>2
    <3>4. \A y \in ents' : y[3] \in Inums
      BY <1>2, <2>4
    <3> QED
      BY <2>5, <2>6, <3>1, <3>2, <3>3, <3>4 DEF Table
  <2>8. e \in SyscType /\ e.ip = i /\ e.dp = d /\ e.target = 0 /\ e.puts = <<>> /\ e.pc = "fill"
    BY <1>0, <1>1, <2>2 DEF SyscType
  <2> HIDE DEF e
  <2>9. Fits(e, "fill") /\ Kept(ilk', p, e, "fill")
    BY <1>1, <1>2, <2>2, <2>8 DEF Fits, Kept, IpPlaces, DpPlaces, TargetPlaces, KeepsDp, KeepsIp
  <2>10. ASSUME NEW j \in Inums PROVE Hand(e, j) = Hand(c, j) + One(i, j)
    BY <1>1, <2>8, Ones DEF Hand
  <2> HIDE DEF c
  <2> QED
    BY <1>0, <1>2, <2>2, <2>3, <2>7, <2>8, <2>9, <2>10, GoMove DEF c
<1>7. CASE Now(p, [c EXCEPT !.pc = "release"]) /\ UNCHANGED <<dino, itab, fpanic>>
  <2> DEFINE e == [c EXCEPT !.pc = "release"]
  <2>1. Table(0) /\ Now(p, e)
    BY <1>2, <1>7, TableSame DEF dirVars
  <2>2. e \in SyscType /\ e.ip = 0 /\ e.dp = d /\ e.target = 0 /\ e.puts = <<>> /\ e.pc = "release"
    BY <1>0, <1>1 DEF SyscType
  <2> HIDE DEF e
  <2>3. Fits(e, "release") /\ Kept(ilk', p, e, "release")
    BY <1>1, <1>2, <2>2 DEF Fits, Kept, IpPlaces, DpPlaces, TargetPlaces, KeepsDp, KeepsIp
  <2>4. ASSUME NEW j \in Inums PROVE Hand(e, j) = Hand(c, j) + One(0, j)
    BY <1>1, <2>2, Ones DEF Hand
  <2> HIDE DEF c
  <2> QED
    BY <1>0, <1>2, <2>1, <2>2, <2>3, <2>4, GoMove, PlaceNames DEF c
<1> QED
  BY <1>6, <1>7 DEF Ialloc

\* The new inode under its lock.
LEMMA CreateFillStep ==
    ASSUME InodeInv, NEW p \in Users, CreateFill(p)
    PROVE  InodeInv'
<1> DEFINE c == sysc[p]
           i == c.ip
           d == c.dp
           isdir == c.sys = "mkdir"
           read == Ilock(itab, i)
           tab == [read EXCEPT ![i].nlink = 1]
           linked == IF isdir THEN Linked(tab, d, 1) ELSE tab
           dot == {<<i, "..", d>> : x \in {y \in {1} : isdir}}
<1>0. c.pc = "fill" /\ "fill" \in Places \ {"gone"} /\ "release" \in Places \ {"gone"} /\ "created" \in Places \ {"gone"}
  BY PlaceNames DEF CreateFill, At, IpPlaces, DpPlaces
<1>1. /\ c \in SyscType /\ c.puts = <<>> /\ c.target = 0 /\ i \in Inums /\ i # 0 /\ d \in Inums /\ d # 0
      /\ c.pc # "invalidate" /\ ilk[d] = p
  <2>1. /\ Fits(c, "fill") /\ Kept(ilk, p, c, "fill") /\ c.puts = <<>> /\ c.pc # "invalidate"
        /\ ("fill" \in IpPlaces => i \in Inums) /\ ("fill" \in DpPlaces => d \in Inums)
    BY <1>0, KnownAt, FitsAt
  <2> QED
    BY <2>1, PlaceNames DEF Fits, Kept, IpPlaces, DpPlaces, TargetPlaces, KeepsDp
<1>2. UNCHANGED <<ftab, ofile, cwd>> /\ LockFree(i) /\ ilk[i] = NoUser /\ fpanic' = (fpanic \/ NoType(itab, i)) /\ d # i
  <2>1. UNCHANGED <<ftab, ofile, cwd>> /\ LockFree(i) /\ fpanic' = (fpanic \/ NoType(itab, i)) /\ p # NoUser
    BY Known DEF CreateFill, fileVars
  <2> QED
    BY <1>1, <2>1 DEF LockFree
<1>3. /\ read \in TabType /\ \A j \in Inums : read[j].ref = itab[j].ref
      /\ ~NoType(itab, i) => \A j \in Inums : Honest(itab[j], read[j], dino[j], dino[j])
      /\ \A j \in Inums \ {i} : read[j] = itab[j]
  BY <1>1, TabRead, RefNat, Ones, Known, IlockFields
<1>4. dino \in DinoType /\ (\A x \in ents : x[3] \in Inums) /\ fpanic \in BOOLEAN
  BY Known
<1>5. fpanic' \in BOOLEAN /\ (~fpanic' => ~fpanic /\ ~NoType(itab, i))
  BY <1>2, <1>4
<1>6. \A x \in ents \union dot : x[3] \in Inums
  <2>1. <<i, "..", d>>[3] = d
    OBVIOUS
  <2> QED
    BY <1>1, <1>4, <2>1
<1> HIDE DEF dot
<1>7. CASE /\ ents' = Dirlink(ents \union dot, d, c.name, i)
           /\ itab' = linked
           /\ dino' = [Updated(linked, i) EXCEPT ![d].nlink = linked[d].nlink]
           /\ ilk' = [Iunlock(ilk, d) EXCEPT ![i] = p]
           /\ Now(p, PutThen([c EXCEPT !.dp = 0], <<d>>, "created"))
  <2> DEFINE b == [c EXCEPT !.dp = 0]
             s == <<d>>
             n == IF isdir THEN read[d].nlink + 1 ELSE read[d].nlink
  <2>1. s \in Seq(Inums) /\ Len(s) \in {1, 2} /\ \A j \in Inums : PutCount(s, j) = One(d, j)
    BY <1>1, OnePut
  <2>2. Now(p, PutThen(b, s, "created")) /\ ilk' \in [Inums -> Users \union {NoUser}] /\ LockStep(p) /\ ilk'[i] = p
    BY <1>1, <1>2, <1>7, LockMoved
  <2>3. \A x \in ents' : x[3] \in Inums
    <3>1. <<d, c.name, i>>[3] = i
      OBVIOUS
    <3>2. ents' = (ents \union dot) \union {<<d, c.name, i>>}
      BY <1>7 DEF Dirlink
    <3> QED
      BY <1>1, <1>6, <3>1, <3>2
  <2>4. Table(0)
    <3>0. itab' = linked /\ linked = (IF isdir THEN [tab EXCEPT ![d].nlink = tab[d].nlink + 1] ELSE tab)
      BY <1>7 DEF Linked
    <3>1. dino' = [Updated(linked, i) EXCEPT ![d].nlink = linked[d].nlink]
      BY <1>7
    <3> HIDE DEF read, isdir, linked
    <3>2. /\ tab \in TabType /\ (\A j \in Inums : tab[j].ref = itab[j].ref) /\ (\A j \in Inums \ {i} : tab[j] = itab[j])
          /\ tab[i].valid = read[i].valid /\ tab[i].type = read[i].type
      <4>1. Relinked(read, tab, Updated(tab, i), i, 1)
        <5>1. tab = [read EXCEPT ![i].nlink = 1] /\ 1 \in Int
          OBVIOUS
        <5> HIDE DEF tab
        <5> QED
          BY <1>1, <1>3, <5>1, LinkedFields
      <4> HIDE DEF tab
      <4> QED
        BY <1>3, <4>1 DEF Relinked
    <3> HIDE DEF tab
    <3>3. /\ linked \in TabType /\ (\A j \in Inums : linked[j].ref = itab[j].ref) /\ (\A j \in Inums \ {i, d} : linked[j] = itab[j])
          /\ linked[i].valid = read[i].valid /\ linked[i].type = read[i].type
          /\ linked[d].valid = itab[d].valid /\ linked[d].type = itab[d].type
      <4>1. CASE isdir
        BY <1>1, <1>2, <3>0, <3>2, <4>1 DEF TabType
      <4>2. CASE ~isdir
        BY <1>1, <1>2, <3>0, <3>2, <4>2
      <4> QED
        BY <4>1, <4>2
    <3>4. /\ dino' \in DinoType /\ (\A j \in Inums \ {i, d} : dino'[j] = dino[j])
          /\ dino'[i].type = linked[i].type /\ dino'[i].nlink = linked[i].nlink
          /\ dino'[d].type = dino[d].type /\ dino'[d].nlink = linked[d].nlink
      <4> DEFINE y == [type |-> linked[i].type, nlink |-> linked[i].nlink]
                 u == [dino EXCEPT ![i] = y]
      <4>1. y \in [type : Types, nlink : Int] /\ y.type = linked[i].type /\ y.nlink = linked[i].nlink
        BY <1>1, <3>3 DEF TabType
      <4>2. dino' = [u EXCEPT ![d].nlink = linked[d].nlink] /\ linked[d].nlink \in Int
        BY <1>1, <3>1, <3>3 DEF Updated, TabType
      <4> HIDE DEF y
      <4>3. u \in DinoType /\ u[i] = y /\ \A j \in Inums \ {i} : u[j] = dino[j]
        BY <1>1, <1>4, <4>1 DEF DinoType
      <4> HIDE DEF u
      <4> QED
        BY <1>1, <1>2, <4>1, <4>2, <4>3 DEF DinoType
    <3>5. ASSUME ~fpanic', NEW j \in Inums PROVE Honest(itab[j], itab'[j], dino[j], dino'[j])
      <4>1. CASE j \notin {i, d}
        BY <3>0, <3>3, <3>4, <4>1, HonestSame
      <4>2. CASE j = i
        <5>1. Honest(itab[i], read[i], dino[i], dino[i]) /\ ~fpanic
          BY <1>1, <1>3, <1>5, <3>5
        <5>2. linked[i].ref > 0 /\ linked[i].valid => linked[i].type # "free"
          <6>1. itab[i].ref > 0 /\ itab[i].valid => itab[i].type # "free"
            BY <1>1, <1>2, <5>1, TrueCopy
          <6> QED
            BY <1>1, <1>3, <3>3, <5>1, <6>1 DEF Honest
        <5> QED
          BY <3>0, <3>4, <4>2, <5>2 DEF Honest
      <4>3. CASE j = d
        <5>1. linked[d].ref > 0 /\ linked[d].valid => linked[d].type # "free" /\ linked[d].type = dino[d].type
          BY <1>1, <1>5, <3>3, <3>5, TrueCopy
        <5> QED
          BY <3>0, <3>4, <4>3, <5>1 DEF Honest
      <4> QED
        BY <4>1, <4>2, <4>3
    <3>6. \A j \in Inums : itab'[j].ref = itab[j].ref + One(0, j)
      BY <3>0, <3>3, RefNat, Ones
    <3> QED
      BY <1>5, <2>3, <3>0, <3>3, <3>4, <3>5, <3>6 DEF Table
  <2>5. b \in SyscType /\ b.ip = i /\ b.dp = 0 /\ b.target = 0
    BY <1>1, PlaceNames DEF SyscType
  <2> HIDE DEF b
  <2>6. Fits(b, "created") /\ Kept(ilk', p, b, "created")
    BY <1>1, <2>2, <2>5 DEF Fits, Kept, IpPlaces, DpPlaces, TargetPlaces, KeepsDp, KeepsIp
  <2>7. ASSUME NEW j \in Inums PROVE Hand(b, j) + PutCount(s, j) = Hand(c, j) + One(0, j)
    <3>1. PutCount(s, j) = One(d, j)
      BY <2>1
    <3> HIDE DEF s
    <3> QED
      BY <1>1, <2>5, <3>1, Ones DEF Hand
  <2> HIDE DEF c, s
  <2> QED
    BY <1>0, <1>2, <2>1, <2>2, <2>4, <2>6, <2>7, PutMove, PlaceNames DEF c
<1>8. CASE /\ ents' = ents \union dot
           /\ itab' = [tab EXCEPT ![i].nlink = 0]
           /\ dino' = Updated(itab', i)
           /\ Now(p, PutThen([c EXCEPT !.ip = 0], <<i>>, "release"))
           /\ UNCHANGED ilk
  <2> DEFINE b == [c EXCEPT !.ip = 0]
             s == <<i>>
  <2>1. s \in Seq(Inums) /\ Len(s) \in {1, 2} /\ \A j \in Inums : PutCount(s, j) = One(i, j)
    BY <1>1, OnePut
  <2>2. Now(p, PutThen(b, s, "release")) /\ ilk' \in [Inums -> Users \union {NoUser}] /\ LockStep(p) /\ ilk' = ilk
    BY <1>8, LocksSame
  <2>4. Table(0)
    <3>0. itab' = [tab EXCEPT ![i].nlink = 0] /\ dino' = Updated(itab', i) /\ ents' = ents \union dot
      BY <1>8
    <3> HIDE DEF read
    <3>1. itab' = [read EXCEPT ![i].nlink = 0]
      BY <1>1, <1>3, <3>0 DEF TabType
    <3> HIDE DEF tab
    <3>2. \A x \in ents' : x[3] \in Inums
      BY <1>6, <3>0
    <3>3. 0 \in Int
      OBVIOUS
    <3> QED
      BY <1>1, <1>2, <1>3, <1>5, <3>0, <3>1, <3>2, <3>3, TableLinked
  <2>5. b \in SyscType /\ b.ip = 0 /\ b.dp = d /\ b.target = 0
    BY <1>1, PlaceNames DEF SyscType
  <2> HIDE DEF b
  <2>6. Fits(b, "release") /\ Kept(ilk', p, b, "release")
    BY <1>1, <2>2, <2>5 DEF Fits, Kept, IpPlaces, DpPlaces, TargetPlaces, KeepsDp, KeepsIp
  <2>7. ASSUME NEW j \in Inums PROVE Hand(b, j) + PutCount(s, j) = Hand(c, j) + One(0, j)
    <3>1. PutCount(s, j) = One(i, j)
      BY <2>1
    <3> HIDE DEF s
    <3> QED
      BY <1>1, <2>5, <3>1, Ones DEF Hand
  <2> HIDE DEF c, s
  <2> QED
    BY <1>0, <1>2, <2>1, <2>2, <2>4, <2>6, <2>7, PutMove, PlaceNames DEF c
<1> QED
  BY <1>7, <1>8 DEF CreateFill, dot

-----------------------------------------------------------------------------
(* Steps that change open files or current directories.                      *)

FtabType == [1 .. NFILE -> [ref : Int, ip : InumOr0]]
OfileType == [Users -> SUBSET ((0 .. NOFILE - 1) \X (1 .. NFILE))]

\* The files behind which an inode is are finitely many.
FilesIn(t, i) == {f \in 1 .. NFILE : t[f].ip = i}

\* The files with an inode behind them are finitely many.
LEMMA FilesFinite ==
    ASSUME NEW t, NEW i
    PROVE  IsFiniteSet(FilesIn(t, i)) /\ Cardinality(FilesIn(t, i)) \in Nat
<1>1. IsFiniteSet(1 .. NFILE)
  BY InodeAssumption, FS_Interval
<1>2. FilesIn(t, i) \subseteq 1 .. NFILE
  BY DEF FilesIn
<1> QED
  BY <1>1, <1>2, FS_Subset, FS_CardinalityType

\* The count of one inode when one process moves.
LEMMA CountMoved ==
    ASSUME InodeInv, Regular(sysc), Regular(sysc'), NEW p \in Users, Alone(p), NEW e, sysc'[p] = e, NEW i \in Inums,
           NEW d \in {0 - 1, 0, 1}, Holding(e, cwd'[p], i) = Holding(sysc[p], cwd[p], i) + d,
           NEW a \in {0, 1}, Cardinality(FilesIn(ftab', i)) + d = Cardinality(FilesIn(ftab, i)) + a,
           itab'[i].ref = itab[i].ref + a
    PROVE  itab'[i].ref = Cardinality(Upto(LocalsOf(sysc', cwd', i))) + Cardinality(FilesIn(ftab', i))
<1>1. Cardinality(Upto(LocalsOf(sysc', cwd', i))) = Cardinality(Upto(LocalsOf(sysc, cwd, i))) + d
  BY LocalsStep DEF Alone
<1>2. itab[i].ref = Cardinality(Upto(LocalsOf(sysc, cwd, i))) + Cardinality(FilesIn(ftab, i))
  <2>1. Locals(i) = LocalsOf(sysc, cwd, i) /\ FilesOn(i) = FilesIn(ftab, i)
    BY DEF Locals, LocalsOf, FilesOn, FilesIn
  <2> QED
    BY <2>1 DEF InodeInv, InodeRefs
<1>3. Cardinality(FilesIn(ftab, i)) \in Nat /\ Cardinality(FilesIn(ftab', i)) \in Nat
  BY FilesFinite
<1>4. Cardinality(Upto(LocalsOf(sysc, cwd, i))) \in Nat
  BY UptoFinite
<1> QED
  BY <1>1, <1>2, <1>3, <1>4

\* What p holds and what the open files hold of j change by the reference taken.
Balanced(p, e, k, j) ==
    \E d \in {0 - 1, 0, 1} :
        /\ Holding(e, cwd'[p], j) = Holding(sysc[p], cwd[p], j) + d
        /\ Cardinality(FilesIn(ftab', j)) + d = Cardinality(FilesIn(ftab, j)) + One(k, j)

\* A step of p that takes a reference to k and may change its files and its directory.
LEMMA FileMove ==
    ASSUME InodeInv, NEW p \in Users, sysc[p].pc # "invalidate", NEW k \in InumOr0, Table(k),
           NEW e, Now(p, e), Shape(e), Locked(ilk', p, e), Leaves(cwd'[p], ofile'[p], e),
           ilk' \in [Inums -> Users \union {NoUser}], LockStep(p),
           cwd' \in [Users -> InumOr0], ofile' \in OfileType, ftab' \in FtabType,
           \A q \in Users \ {p} : cwd'[q] = cwd[q] /\ ofile'[q] = ofile[q],
           FileInv', FileRefs', \A j \in Inums : Balanced(p, e, k, j)
    PROVE  InodeInv'
<1>1. sysc \in [Users -> SyscType] /\ CopyInv /\ itab \in TabType /\ CallInv
  BY Known DEF InodeInv
<1>2. sysc' = [sysc EXCEPT ![p] = e] /\ sysc'[p] = e /\ sysc' \in [Users -> SyscType] /\ \A q \in Users \ {p} : sysc'[q] = sysc[q]
  BY <1>1 DEF Now, Shape
<1>3. Alone(p)
  BY <1>2 DEF Alone
<1>4. InodeType'
  BY <1>2 DEF InodeType, Table, OfileType, FtabType
<1>5. CallInv'
  BY <1>1, <1>2, <1>3, CallKept
<1>6. CopyInv'
  BY <1>1, <1>2, CopyKept DEF Table
<1>7. InodeRefs'
  <2>1. Regular(sysc) /\ Regular(sysc')
    BY <1>1, <1>5 DEF CallInv, Shape, Regular
  <2>2. ASSUME NEW i \in Inums
        PROVE  itab'[i].ref = Cardinality(Upto(LocalsOf(sysc', cwd', i))) + Cardinality(FilesIn(ftab', i))
    <3>1. PICK d \in {0 - 1, 0, 1} :
               /\ Holding(e, cwd'[p], i) = Holding(sysc[p], cwd[p], i) + d
               /\ Cardinality(FilesIn(ftab', i)) + d = Cardinality(FilesIn(ftab, i)) + One(k, i)
      BY DEF Balanced
    <3>2. itab'[i].ref = itab[i].ref + One(k, i)
      BY DEF Table
    <3> QED
      <4>1. One(k, i) \in {0, 1}
        BY CountTyped
      <4> DEFINE a == One(k, i)
      <4>2. /\ a \in {0, 1} /\ sysc'[p] = e /\ Holding(e, cwd'[p], i) = Holding(sysc[p], cwd[p], i) + d
            /\ Cardinality(FilesIn(ftab', i)) + d = Cardinality(FilesIn(ftab, i)) + a /\ itab'[i].ref = itab[i].ref + a
        BY <1>2, <3>1, <3>2, <4>1
      <4> HIDE DEF a
      <4> QED
        BY <1>3, <2>1, <4>2, CountMoved
  <2> QED
    BY <2>2 DEF InodeRefs, Upto, Locals, LocalsOf, FilesOn, FilesIn
<1> QED
  BY <1>4, <1>5, <1>6, <1>7 DEF InodeInv

\* The descriptors that name a file.
NamingIn(of, f) == {d \in Users \X (0 .. NOFILE - 1) : <<d[2], f>> \in of[d[1]]}

\* The descriptors that name a file are finitely many.
LEMMA NamingFinite ==
    ASSUME NEW of, NEW f
    PROVE  IsFiniteSet(NamingIn(of, f)) /\ Cardinality(NamingIn(of, f)) \in Nat
<1>1. IsFiniteSet(Users \X (0 .. NOFILE - 1))
  <2>1. IsFiniteSet(0 .. NOFILE - 1)
    BY InodeAssumption, FS_Interval
  <2> QED
    BY <2>1, InodeAssumption, FS_Product
<1>2. NamingIn(of, f) \subseteq Users \X (0 .. NOFILE - 1)
  BY DEF NamingIn
<1> QED
  BY <1>1, <1>2, FS_Subset, FS_CardinalityType

\* One descriptor more.
NamedMore(of, new, f) ==
    /\ new \in OfileType
    /\ \A g \in 1 .. NFILE : Cardinality(NamingIn(new, g)) = Cardinality(NamingIn(of, g)) + One(f, g)

\* A descriptor that was free names f: one descriptor more for it.
LEMMA FdAdded ==
    ASSUME NEW of \in OfileType, NEW p \in Users, NEW fd \in 0 .. NOFILE - 1, NEW f \in 1 .. NFILE,
           \A o \in of[p] : o[1] # fd, NEW new, new = [of EXCEPT ![p] = @ \union {<<fd, f>>}]
    PROVE  NamedMore(of, new, f)
<1>1. new \in OfileType /\ new[p] = of[p] \union {<<fd, f>>} /\ \A q \in Users \ {p} : new[q] = of[q]
  BY DEF OfileType
<1>2. ASSUME NEW g \in 1 .. NFILE PROVE Cardinality(NamingIn(new, g)) = Cardinality(NamingIn(of, g)) + One(f, g)
  <2> DEFINE x == <<p, fd>>
  <2>0. x \in Users \X (0 .. NOFILE - 1) /\ x[1] = p /\ x[2] = fd
    OBVIOUS
  <2>1. ASSUME NEW d \in Users \X (0 .. NOFILE - 1)
        PROVE  d \in NamingIn(new, g) <=> d \in NamingIn(of, g) \/ (d = x /\ g = f)
    <3>1. d = <<d[1], d[2]>> /\ d[1] \in Users
      OBVIOUS
    <3>2. CASE d[1] # p
      BY <1>1, <2>0, <3>1, <3>2 DEF NamingIn
    <3>3. CASE d[1] = p
      <4>1. <<d[2], g>> = <<fd, f>> <=> d = x /\ g = f
        BY <3>1, <3>3
      <4> QED
        BY <1>1, <3>3, <4>1 DEF NamingIn
    <3> QED
      BY <3>2, <3>3
  <2>2. IsFiniteSet(NamingIn(of, g)) /\ Cardinality(NamingIn(of, g)) \in Nat
    BY NamingFinite
  <2>3. NamingIn(new, g) \subseteq Users \X (0 .. NOFILE - 1) /\ NamingIn(of, g) \subseteq Users \X (0 .. NOFILE - 1)
    BY DEF NamingIn
  <2>4. CASE g = f
    <3>1. NamingIn(new, g) = NamingIn(of, g) \union {x}
      <4> HIDE DEF x
      <4> QED
        BY <2>0, <2>1, <2>3, <2>4
    <3>2. x \notin NamingIn(of, g)
      <4>1. <<fd, g>>[1] = fd
        OBVIOUS
      <4> QED
        BY <4>1 DEF NamingIn
    <3> HIDE DEF x
    <3> QED
      BY <2>2, <2>4, <3>1, <3>2, FS_AddElement DEF One
  <2>5. CASE g # f
    <3>1. NamingIn(new, g) = NamingIn(of, g)
      BY <2>1, <2>3, <2>5
    <3> QED
      BY <2>2, <2>5, <3>1 DEF One
  <2> QED
    BY <2>4, <2>5
<1> QED
  BY <1>1, <1>2 DEF NamedMore

\* A free descriptor keeps the descriptors of a process apart.
Apart(s) == \A d, e \in s : d[1] = e[1] => d = e

\* A free descriptor keeps the descriptors of a process apart.
LEMMA ApartAdded ==
    ASSUME NEW s, Apart(s), NEW fd, NEW f, \A o \in s : o[1] # fd
    PROVE  Apart(s \union {<<fd, f>>})
<1>1. <<fd, f>>[1] = fd
  OBVIOUS
<1> QED
  BY <1>1 DEF Apart

\* What is known of the files.
LEMMA FilesKnown ==
    ASSUME InodeInv
    PROVE  /\ ftab \in FtabType /\ ofile \in OfileType /\ cwd \in [Users -> InumOr0]
           /\ \A f \in 1 .. NFILE : /\ ftab[f].ref = Cardinality(NamingIn(ofile, f)) /\ ftab[f].ref \in Nat
                                    /\ ftab[f].ref = 0 => ftab[f].ip = 0
           /\ \A p \in Users : Apart(ofile[p])
<1>1. ftab \in FtabType /\ ofile \in OfileType /\ cwd \in [Users -> InumOr0]
  BY DEF InodeInv, InodeType, FtabType, OfileType
<1>2. ASSUME NEW f \in 1 .. NFILE PROVE ftab[f].ref = Cardinality(NamingIn(ofile, f))
  <2>1. Naming(f) = NamingIn(ofile, f)
    BY DEF Naming, NamingIn
  <2> QED
    BY <2>1 DEF InodeInv, FileRefs
<1>3. \A f \in 1 .. NFILE : ftab[f].ref \in Nat
  BY <1>2, NamingFinite
<1>4. (\A f \in 1 .. NFILE : ftab[f].ref = 0 => ftab[f].ip = 0) /\ \A p \in Users : Apart(ofile[p])
  BY DEF InodeInv, FileInv, Apart
<1> QED
  BY <1>1, <1>2, <1>3, <1>4

\* The two parts of the invariant about files after a step.
LEMMA FilesKept ==
    ASSUME \A f \in 1 .. NFILE : ftab'[f].ref = Cardinality(NamingIn(ofile', f)) /\ (ftab'[f].ref = 0 => ftab'[f].ip = 0),
           \A p \in Users : Apart(ofile'[p])
    PROVE  FileInv' /\ FileRefs'
<1>1. FileInv'
  BY DEF FileInv, Apart
<1>2. \A f \in 1 .. NFILE : Naming(f)' = NamingIn(ofile', f)
  BY DEF Naming, NamingIn
<1>3. FileRefs'
  BY <1>2 DEF FileRefs
<1> QED
  BY <1>1, <1>3

\* An inode gets behind one file more.
Behind(u, v, f, i) == u[f].ip = 0 /\ v[f].ip = i /\ \A g \in 1 .. NFILE \ {f} : v[g].ip = u[g].ip

\* A file gets its inode: one reference more for it.
LEMMA IpSet ==
    ASSUME NEW u, NEW v, NEW f \in 1 .. NFILE, NEW i \in Inums, Behind(u, v, f, i), NEW j \in Inums
    PROVE  Cardinality(FilesIn(v, j)) = Cardinality(FilesIn(u, j)) + One(i, j)
<1>0. u[f].ip = 0 /\ v[f].ip = i /\ \A g \in 1 .. NFILE \ {f} : v[g].ip = u[g].ip
  BY DEF Behind
<1>1. IsFiniteSet(FilesIn(u, j)) /\ Cardinality(FilesIn(u, j)) \in Nat
  BY FilesFinite
<1>2. j # 0
  BY PlaceNames
<1>3. CASE j = i
  <2>1. FilesIn(v, j) = FilesIn(u, j) \union {f} /\ f \notin FilesIn(u, j)
    BY <1>0, <1>2, <1>3 DEF FilesIn
  <2>2. Cardinality(FilesIn(u, j) \union {f}) = Cardinality(FilesIn(u, j)) + 1 /\ One(i, j) = 1
    BY <1>1, <1>3, <2>1, FS_AddElement DEF One
  <2> QED
    BY <2>1, <2>2
<1>4. CASE j # i
  <2>1. FilesIn(v, j) = FilesIn(u, j)
    BY <1>0, <1>2, <1>4 DEF FilesIn
  <2> QED
    BY <1>1, <1>4, <2>1 DEF One
<1> QED
  BY <1>3, <1>4

\* The file and the descriptor that are taken.
LEMMA FreeTaken ==
    ASSUME NEW p \in Users, FreeFds(p) # {}
    PROVE  LET fd == Least(FreeFds(p)) IN fd \in 0 .. NOFILE - 1 /\ \A o \in ofile[p] : o[1] # fd
<1>1. FreeFds(p) \in SUBSET Nat
  BY DEF FreeFds
<1> DEFINE fd == Least(FreeFds(p))
<1>2. fd \in FreeFds(p)
  BY <1>1, LeastIn
<1> HIDE DEF fd
<1>3. fd \in 0 .. NOFILE - 1 /\ \A o \in ofile[p] : o[1] # fd
  BY <1>2 DEF FreeFds
<1> QED
  BY <1>3 DEF fd

\* filealloc takes a file without references.
LEMMA FileTaken ==
    ASSUME FreeFiles # {}
    PROVE  Least(FreeFiles) \in 1 .. NFILE /\ ftab[Least(FreeFiles)].ref = 0
<1>1. FreeFiles \in SUBSET Nat
  BY DEF FreeFiles
<1> DEFINE f == Least(FreeFiles)
<1>2. f \in FreeFiles
  BY <1>1, LeastIn
<1> HIDE DEF f
<1>3. f \in 1 .. NFILE /\ ftab[f].ref = 0
  BY <1>2 DEF FreeFiles
<1> QED
  BY <1>3 DEF f

OpenPlaces == {"open", "found", "created"}

\* What is known before an inode is opened.
LEMMA OpenKnown ==
    ASSUME InodeInv, NEW p \in Users, sysc[p].pc \in OpenPlaces
    PROVE  LET c == sysc[p] IN
           /\ c \in SyscType /\ c.puts = <<>> /\ c.dp = 0 /\ c.target = 0 /\ c.ip \in Inums /\ c.pc # "invalidate"
           /\ Place(c) # "gone" /\ c.pc \in Places \ {"gone"} /\ Kept(ilk, p, c, c.pc)
<1> DEFINE c == sysc[p]
<1>1. c.pc \in Places \ {"gone"} /\ c.pc \in IpPlaces /\ c.pc \notin DpPlaces /\ c.pc \notin TargetPlaces /\ c.pc # "walk"
  BY PlaceNames DEF OpenPlaces, IpPlaces, DpPlaces, TargetPlaces
<1>2. /\ c \in SyscType /\ c.puts = <<>> /\ Place(c) = c.pc /\ c.pc # "invalidate" /\ c.ip \in Inums /\ c.dp = 0
      /\ Fits(c, c.pc) /\ Kept(ilk, p, c, c.pc)
  BY <1>1, KnownAt, FitsAt
<1>3. c.target = 0
  BY <1>1, <1>2 DEF Fits
<1> QED
  BY <1>1, <1>2, <1>3

\* sys_open gives up.
LEMMA OpenFailed ==
    ASSUME InodeInv, NEW p \in Users, sysc[p].pc \in OpenPlaces, Table(0), UNCHANGED <<ftab, ofile, cwd>>,
           ilk' \in [Inums -> Users \union {NoUser}], LockStep(p),
           Now(p, PutThen([sysc[p] EXCEPT !.ip = 0], <<sysc[p].ip>>, "user"))
    PROVE  InodeInv'
<1> DEFINE c == sysc[p]
           i == c.ip
           b == [c EXCEPT !.ip = 0]
           s == <<i>>
<1>1. /\ c \in SyscType /\ c.puts = <<>> /\ c.dp = 0 /\ c.target = 0 /\ i \in Inums
      /\ c.pc \in Places \ {"gone"} /\ "user" \in Places \ {"gone"}
  BY OpenKnown, PlaceNames
<1>2. s \in Seq(Inums) /\ Len(s) \in {1, 2} /\ \A j \in Inums : PutCount(s, j) = One(i, j)
  BY <1>1, OnePut
<1>3. b \in SyscType /\ b.ip = 0 /\ b.dp = 0 /\ b.target = 0 /\ Now(p, PutThen(b, s, "user"))
  BY <1>1, PlaceNames DEF SyscType
<1> HIDE DEF b
<1>4. Fits(b, "user") /\ Kept(ilk', p, b, "user")
  BY <1>3 DEF Fits, Kept, IpPlaces, DpPlaces, TargetPlaces, KeepsDp, KeepsIp
<1>5. ASSUME NEW j \in Inums PROVE Hand(b, j) + PutCount(s, j) = Hand(c, j) + One(0, j)
  <2>1. PutCount(s, j) = One(i, j)
    BY <1>2
  <2> HIDE DEF s
  <2> QED
    BY <1>1, <1>3, <2>1, Ones DEF Hand
<1> HIDE DEF c, s
<1> QED
  BY <1>1, <1>2, <1>3, <1>4, <1>5, PutMove, PlaceNames DEF c

\* sys_open hands the reference over to a file.
LEMMA OpenDone ==
    ASSUME InodeInv, NEW p \in Users, sysc[p].pc \in OpenPlaces, Table(0), UNCHANGED cwd,
           ilk' \in [Inums -> Users \union {NoUser}], LockStep(p), Now(p, Idle),
           NEW f \in 1 .. NFILE, ftab[f].ref = 0, NEW fd \in 0 .. NOFILE - 1, \A o \in ofile[p] : o[1] # fd,
           ftab' = [ftab EXCEPT ![f] = [ref |-> 1, ip |-> sysc[p].ip]],
           ofile' = [ofile EXCEPT ![p] = @ \union {<<fd, f>>}]
    PROVE  InodeInv'
<1> DEFINE c == sysc[p]
           i == c.ip
<1>1. /\ c \in SyscType /\ c.puts = <<>> /\ c.dp = 0 /\ c.target = 0 /\ i \in Inums /\ c.pc # "invalidate" /\ Place(c) # "gone"
  BY OpenKnown
<1>2. /\ ftab \in FtabType /\ ofile \in OfileType /\ cwd \in [Users -> InumOr0]
      /\ \A g \in 1 .. NFILE : /\ ftab[g].ref = Cardinality(NamingIn(ofile, g)) /\ ftab[g].ref \in Nat
                               /\ ftab[g].ref = 0 => ftab[g].ip = 0
      /\ \A q \in Users : Apart(ofile[q])
  BY FilesKnown
<1>3. /\ ofile' \in OfileType
      /\ \A g \in 1 .. NFILE : Cardinality(NamingIn(ofile', g)) = Cardinality(NamingIn(ofile, g)) + One(f, g)
  <2>1. NamedMore(ofile, ofile', f)
    BY <1>2, FdAdded
  <2> QED
    BY <2>1 DEF NamedMore
<1>4. /\ ftab' \in FtabType /\ ftab'[f].ref = 1 /\ ftab'[f].ip = i
      /\ \A g \in 1 .. NFILE \ {f} : ftab'[g] = ftab[g]
  <2> DEFINE x == [ref |-> 1, ip |-> i]
  <2>1. x \in [ref : Int, ip : InumOr0] /\ x.ref = 1 /\ x.ip = i /\ ftab' = [ftab EXCEPT ![f] = x]
    BY <1>1, PlaceNames
  <2> HIDE DEF x, i
  <2> QED
    BY <1>2, <2>1 DEF FtabType
<1>5. FileInv' /\ FileRefs'
  <2>1. ASSUME NEW g \in 1 .. NFILE
        PROVE  ftab'[g].ref = Cardinality(NamingIn(ofile', g)) /\ (ftab'[g].ref = 0 => ftab'[g].ip = 0)
    <3>0. /\ Cardinality(NamingIn(ofile', g)) = ftab[g].ref + One(f, g) /\ ftab[g].ref \in Nat
          /\ ftab[g].ref = 0 => ftab[g].ip = 0
      BY <1>2, <1>3
    <3>1. CASE g = f
      <4>1. One(f, g) = 1
        BY <3>1 DEF One
      <4> QED
        BY <1>4, <3>0, <3>1, <4>1
    <3>2. CASE g # f
      <4>1. One(f, g) = 0
        BY <3>2 DEF One
      <4> QED
        BY <1>4, <3>0, <3>2, <4>1
    <3> QED
      BY <3>1, <3>2
  <2>2. \A q \in Users : Apart(ofile'[q])
    <3>1. ofile'[p] = ofile[p] \union {<<fd, f>>} /\ \A q \in Users \ {p} : ofile'[q] = ofile[q]
      BY <1>2 DEF OfileType
    <3>2. Apart(ofile[p] \union {<<fd, f>>})
      BY <1>2, ApartAdded
    <3> QED
      BY <1>2, <3>1, <3>2
  <2> QED
    BY <2>1, <2>2, FilesKept
<1>6. Shape(Idle) /\ Locked(ilk', p, Idle) /\ Leaves(cwd'[p], ofile'[p], Idle)
  <2>1. Shape(Idle) /\ Place(Idle) = "user" /\ Idle.pc = "user"
    BY IdleShape
  <2>2. cwd[p] # 0
    BY <1>1, StartTyped, PlaceNames
  <2> QED
    BY <2>1, <2>2 DEF Locked, Leaves, KeepsDp, KeepsIp
<1>7. ASSUME NEW j \in Inums PROVE Balanced(p, Idle, 0, j)
  <2> DEFINE d == 0 - One(i, j)
  <2>1. Cardinality(FilesIn(ftab', j)) = Cardinality(FilesIn(ftab, j)) + One(i, j)
    <3>1. Behind(ftab, ftab', f, i)
      BY <1>2, <1>4 DEF Behind
    <3> QED
      BY <1>1, <3>1, IpSet
  <2>2. One(i, j) \in {0, 1} /\ One(0, j) = 0 /\ One(cwd[p], j) \in {0, 1} /\ PutCount(<<>>, j) = 0
    BY Counts
  <2>3. Cardinality(FilesIn(ftab, j)) \in Nat
    BY FilesFinite
  <2>4. Holding(Idle, cwd'[p], j) = Holding(c, cwd[p], j) + d
    <3>1. Idle.ip = 0 /\ Idle.dp = 0 /\ Idle.target = 0 /\ Idle.puts = <<>>
      BY IdleShape
    <3>2. Holding(Idle, cwd'[p], j) = One(cwd[p], j)
      BY <2>2, <3>1 DEF Holding
    <3>3. Holding(c, cwd[p], j) = One(i, j) + One(cwd[p], j)
      BY <1>1, <2>2 DEF Holding
    <3> QED
      BY <2>2, <3>2, <3>3
  <2>5. Cardinality(FilesIn(ftab', j)) + d = Cardinality(FilesIn(ftab, j)) + One(0, j) /\ d \in {0 - 1, 0, 1}
    BY <2>1, <2>2, <2>3
  <2> HIDE DEF d
  <2> QED
    BY <2>4, <2>5 DEF Balanced
<1>8. \A q \in Users \ {p} : cwd'[q] = cwd[q] /\ ofile'[q] = ofile[q]
  BY <1>2 DEF OfileType
<1> QED
  BY <1>1, <1>2, <1>3, <1>4, <1>5, <1>6, <1>7, <1>8, FileMove, PlaceNames

\* Both endings of sys_open.
LEMMA OpenedStep ==
    ASSUME InodeInv, NEW p \in Users, sysc[p].pc \in OpenPlaces, Table(0), UNCHANGED cwd,
           ilk' \in [Inums -> Users \union {NoUser}], LockStep(p),
           \/ /\ FreeFiles # {} /\ FreeFds(p) # {}
              /\ ftab' = [ftab EXCEPT ![Least(FreeFiles)] = [ref |-> 1, ip |-> sysc[p].ip]]
              /\ ofile' = [ofile EXCEPT ![p] = @ \union {<<Least(FreeFds(p)), Least(FreeFiles)>>}]
              /\ Now(p, Idle)
           \/ /\ Now(p, PutThen([sysc[p] EXCEPT !.ip = 0], <<sysc[p].ip>>, "user"))
              /\ UNCHANGED <<ftab, ofile>>
    PROVE  InodeInv'
<1>1. CASE /\ FreeFiles # {} /\ FreeFds(p) # {}
           /\ ftab' = [ftab EXCEPT ![Least(FreeFiles)] = [ref |-> 1, ip |-> sysc[p].ip]]
           /\ ofile' = [ofile EXCEPT ![p] = @ \union {<<Least(FreeFds(p)), Least(FreeFiles)>>}]
           /\ Now(p, Idle)
  <2> DEFINE f == Least(FreeFiles)
             fd == Least(FreeFds(p))
  <2>1. f \in 1 .. NFILE /\ ftab[f].ref = 0 /\ fd \in 0 .. NOFILE - 1 /\ \A o \in ofile[p] : o[1] # fd
    BY <1>1, FreeTaken, FileTaken
  <2>2. /\ ftab' = [ftab EXCEPT ![f] = [ref |-> 1, ip |-> sysc[p].ip]]
        /\ ofile' = [ofile EXCEPT ![p] = @ \union {<<fd, f>>}]
        /\ Now(p, Idle)
    BY <1>1
  <2> HIDE DEF f, fd
  <2> QED
    BY <2>1, <2>2, OpenDone
<1>2. CASE /\ Now(p, PutThen([sysc[p] EXCEPT !.ip = 0], <<sysc[p].ip>>, "user"))
           /\ UNCHANGED <<ftab, ofile>>
  BY <1>2, OpenFailed
<1> QED
  BY <1>1, <1>2

\* Open preserves the invariant.
LEMMA OpenStep ==
    ASSUME InodeInv, NEW p \in Users, NEW rdonly, Open(p, rdonly)
    PROVE  InodeInv'
<1>1. sysc[p].pc \in OpenPlaces /\ sysc[p].pc = "open"
  BY DEF Open, At, OpenPlaces
<1>2. sysc[p].ip \in Inums
  BY <1>1, OpenKnown
<1>3. itab' = Ilock(itab, sysc[p].ip) /\ fpanic' = (fpanic \/ NoType(itab, sysc[p].ip)) /\ UNCHANGED <<dirVars, ilk, cwd>>
  BY DEF Open, Opened
<1>4. Table(0) /\ ilk' \in [Inums -> Users \union {NoUser}] /\ LockStep(p)
  BY <1>2, <1>3, TableRead, LocksSame
<1> QED
  BY <1>1, <1>3, <1>4, OpenedStep DEF Open, Opened

\* CreateFound preserves the invariant.
LEMMA CreateFoundStep ==
    ASSUME InodeInv, NEW p \in Users, CreateFound(p)
    PROVE  InodeInv'
<1>1. sysc[p].pc \in OpenPlaces
  BY DEF CreateFound, At, OpenPlaces
<1>2. sysc[p].ip \in Inums
  BY <1>1, OpenKnown
<1>3. itab' = Ilock(itab, sysc[p].ip) /\ fpanic' = (fpanic \/ NoType(itab, sysc[p].ip)) /\ UNCHANGED <<dirVars, ilk, cwd>>
  BY DEF CreateFound, Opened
<1>4. Table(0) /\ ilk' \in [Inums -> Users \union {NoUser}] /\ LockStep(p)
  BY <1>2, <1>3, TableRead, LocksSame
<1> QED
  BY <1>1, <1>3, <1>4, OpenedStep DEF CreateFound, Opened

\* Created preserves the invariant.
LEMMA CreatedStep ==
    ASSUME InodeInv, NEW p \in Users, Created(p)
    PROVE  InodeInv'
<1>1. sysc[p].pc \in OpenPlaces /\ sysc[p].pc = "created"
  BY DEF Created, At, OpenPlaces
<1>2. sysc[p].ip \in Inums /\ ilk[sysc[p].ip] = p
  BY <1>1, OpenKnown DEF Kept, KeepsIp
<1>3. itab' = itab /\ ilk' = Iunlock(ilk, sysc[p].ip) /\ UNCHANGED <<dirVars, cwd, fpanic>>
  BY DEF Created, Opened
<1>4. Table(0) /\ ilk' \in [Inums -> Users \union {NoUser}] /\ LockStep(p)
  BY <1>2, <1>3, TableSame, LockDropped
<1> QED
  BY <1>1, <1>3, <1>4, OpenedStep DEF Created, Opened

\* A step that changes only references to files and descriptors of p.
LEMMA FilesOnly ==
    ASSUME InodeInv, NEW p \in Users, sysc[p].pc = "user", UNCHANGED <<dirVars, itab, ilk, cwd, sysc, fpanic>>,
           ofile' \in OfileType, \A q \in Users \ {p} : ofile'[q] = ofile[q], ftab' \in FtabType,
           \A f \in 1 .. NFILE : ftab'[f].ip = ftab[f].ip, FileInv', FileRefs'
    PROVE  InodeInv'
<1> DEFINE c == sysc[p]
<1>1. "user" \in Places /\ 0 \in InumOr0
  BY PlaceNames
<1>2. /\ c.pc # "invalidate" /\ Shape(c) /\ Locked(ilk, p, c) /\ Place(c) = "user" /\ sysc \in [Users -> SyscType]
  BY <1>1, KnownAt
<1>3. Table(0) /\ ilk' \in [Inums -> Users \union {NoUser}] /\ LockStep(p)
  BY TableSame, LocksSame
<1>4. cwd \in [Users -> InumOr0] /\ Leaves(cwd'[p], ofile'[p], c)
  BY <1>2, Known, FilesKnown DEF Leaves
<1>5. Now(p, c)
  BY <1>2 DEF Now
<1>6. ASSUME NEW j \in Inums PROVE Balanced(p, c, 0, j)
  <2>1. FilesIn(ftab', j) = FilesIn(ftab, j)
    BY DEF FilesIn
  <2>2. Cardinality(FilesIn(ftab, j)) \in Nat /\ One(0, j) = 0
    BY FilesFinite, Ones
  <2>3. Holding(c, cwd[p], j) \in 0 .. 6
    BY HoldingTyped
  <2>4. /\ Holding(c, cwd'[p], j) = Holding(c, cwd[p], j) + 0
        /\ Cardinality(FilesIn(ftab', j)) + 0 = Cardinality(FilesIn(ftab, j)) + One(0, j)
    BY <2>1, <2>2, <2>3
  <2> QED
    BY <2>4 DEF Balanced
<1> HIDE DEF c
<1> QED
  BY <1>1, <1>2, <1>3, <1>4, <1>5, <1>6, FileMove DEF c

\* The file behind a descriptor.
LEMMA ArgfdIs ==
    ASSUME InodeInv, NEW p \in Users, NEW fd, NEW f \in Argfd(p, fd)
    PROVE  <<fd, f>> \in ofile[p] /\ fd \in 0 .. NOFILE - 1 /\ f \in 1 .. NFILE
<1>1. PICK o \in ofile[p] : o[1] = fd /\ o[2] = f
  BY DEF Argfd
<1>2. ofile[p] \subseteq (0 .. NOFILE - 1) \X (1 .. NFILE)
  BY FilesKnown DEF OfileType
<1>3. o \in (0 .. NOFILE - 1) \X (1 .. NFILE)
  BY <1>2
<1>4. o = <<o[1], o[2]>> /\ o[1] \in 0 .. NOFILE - 1 /\ o[2] \in 1 .. NFILE
  BY <1>3
<1> QED
  BY <1>1, <1>4

\* dup takes one more descriptor for the file.
LEMMA SysDupStep ==
    ASSUME InodeInv, NEW p \in Users, NEW fd, SysDup(p, fd)
    PROVE  InodeInv'
<1>1. PICK f \in Argfd(p, fd) :
        /\ At(p, "user") /\ FreeFds(p) # {}
        /\ ofile' = [ofile EXCEPT ![p] = @ \union {<<Least(FreeFds(p)), f>>}]
        /\ ftab' = [ftab EXCEPT ![f].ref = @ + 1]
        /\ UNCHANGED <<dirVars, itab, ilk, cwd, sysc, fpanic>>
  BY DEF SysDup
<1> DEFINE n == Least(FreeFds(p))
<1>2. f \in 1 .. NFILE
  BY ArgfdIs
<1>3. n \in 0 .. NOFILE - 1 /\ \A o \in ofile[p] : o[1] # n
  BY <1>1, FreeTaken
<1>4. ofile' = [ofile EXCEPT ![p] = @ \union {<<n, f>>}] /\ ftab' = [ftab EXCEPT ![f].ref = @ + 1]
  BY <1>1
<1> HIDE DEF n
<1>5. /\ ftab \in FtabType /\ ofile \in OfileType
      /\ \A g \in 1 .. NFILE : /\ ftab[g].ref = Cardinality(NamingIn(ofile, g)) /\ ftab[g].ref \in Nat
                               /\ ftab[g].ref = 0 => ftab[g].ip = 0
      /\ \A q \in Users : Apart(ofile[q])
  BY FilesKnown
<1>6. NamedMore(ofile, ofile', f)
  BY <1>2, <1>3, <1>4, <1>5, FdAdded
<1>7. ftab' \in FtabType /\ \A g \in 1 .. NFILE : ftab'[g].ip = ftab[g].ip /\ ftab'[g].ref = ftab[g].ref + One(f, g)
  BY <1>2, <1>4, <1>5 DEF FtabType, One
<1>8. FileInv' /\ FileRefs'
  <2>1. ASSUME NEW g \in 1 .. NFILE
        PROVE  ftab'[g].ref = Cardinality(NamingIn(ofile', g)) /\ (ftab'[g].ref = 0 => ftab'[g].ip = 0)
    <3>1. /\ Cardinality(NamingIn(ofile', g)) = ftab[g].ref + One(f, g) /\ ftab[g].ref \in Nat
          /\ ftab[g].ref = 0 => ftab[g].ip = 0
      BY <1>5, <1>6 DEF NamedMore
    <3>2. One(f, g) \in {0, 1}
      BY CountTyped
    <3> QED
      BY <1>7, <3>1, <3>2
  <2>2. \A q \in Users : Apart(ofile'[q])
    <3>1. ofile'[p] = ofile[p] \union {<<n, f>>} /\ \A q \in Users \ {p} : ofile'[q] = ofile[q]
      BY <1>4, <1>5 DEF OfileType
    <3>2. Apart(ofile[p] \union {<<n, f>>})
      BY <1>3, <1>5, ApartAdded
    <3> QED
      BY <1>5, <3>1, <3>2
  <2> QED
    BY <2>1, <2>2, FilesKept
<1>9. \A q \in Users \ {p} : ofile'[q] = ofile[q]
  BY <1>4, <1>5 DEF OfileType
<1> QED
  BY <1>1, <1>6, <1>7, <1>8, <1>9, FilesOnly DEF NamedMore, At

\* A set with two elements or more has one that is not x.
LEMMA TwoOrMore ==
    ASSUME NEW S, IsFiniteSet(S), Cardinality(S) >= 2, NEW x
    PROVE  S # {} /\ S \ {x} # {}
<1>1. Cardinality(S) \in Nat
  BY FS_CardinalityType
<1>2. Cardinality({}) = 0
  BY FS_EmptySet
<1>3. S # {}
  BY <1>1, <1>2
<1>4. Cardinality(S \ {x}) = IF x \in S THEN Cardinality(S) - 1 ELSE Cardinality(S)
  BY FS_RemoveElement
<1>5. Cardinality(S \ {x}) # 0
  BY <1>1, <1>4
<1> QED
  BY <1>2, <1>3, <1>5

\* pipe takes two files and two descriptors.
LEMMA SysPipeStep ==
    ASSUME InodeInv, NEW p \in Users, SysPipe(p)
    PROVE  InodeInv'
<1> DEFINE f == Least(FreeFiles)
           g == Least(FreeFiles \ {f})
           fd == Least(FreeFds(p))
           gd == Least(FreeFds(p) \ {fd})
<1>1. /\ sysc[p].pc = "user" /\ Cardinality(FreeFiles) >= 2 /\ Cardinality(FreeFds(p)) >= 2
      /\ ftab' = [ftab EXCEPT ![f].ref = 1, ![g].ref = 1]
      /\ ofile' = [ofile EXCEPT ![p] = @ \union {<<fd, f>>, <<gd, g>>}]
      /\ UNCHANGED <<dirVars, itab, ilk, cwd, sysc, fpanic>>
  BY DEF SysPipe, At
<1>2. IsFiniteSet(FreeFiles) /\ FreeFiles \subseteq Nat /\ IsFiniteSet(FreeFds(p)) /\ FreeFds(p) \subseteq Nat
  <2>1. IsFiniteSet(1 .. NFILE) /\ IsFiniteSet(0 .. NOFILE - 1)
    BY InodeAssumption, FS_Interval
  <2>2. FreeFiles \subseteq 1 .. NFILE /\ FreeFds(p) \subseteq 0 .. NOFILE - 1
    BY DEF FreeFiles, FreeFds
  <2>3. 1 .. NFILE \subseteq Nat /\ 0 .. NOFILE - 1 \subseteq Nat
    BY InodeAssumption
  <2> QED
    BY <2>1, <2>2, <2>3, FS_Subset
<1>3. f \in FreeFiles /\ g \in FreeFiles /\ g # f
  <2>1. FreeFiles # {} /\ FreeFiles \ {f} # {} /\ FreeFiles \ {f} \in SUBSET Nat
    BY <1>1, <1>2, TwoOrMore
  <2>2. f \in FreeFiles
    BY <1>2, <2>1, LeastIn
  <2>3. g \in FreeFiles \ {f}
    BY <2>1, LeastIn
  <2> HIDE DEF f, g
  <2> QED
    BY <2>2, <2>3
<1>4. fd \in FreeFds(p) /\ gd \in FreeFds(p) /\ gd # fd
  <2>1. FreeFds(p) # {} /\ FreeFds(p) \ {fd} # {} /\ FreeFds(p) \ {fd} \in SUBSET Nat
    BY <1>1, <1>2, TwoOrMore
  <2>2. fd \in FreeFds(p)
    BY <1>2, <2>1, LeastIn
  <2>3. gd \in FreeFds(p) \ {fd}
    BY <2>1, LeastIn
  <2> HIDE DEF fd, gd
  <2> QED
    BY <2>2, <2>3
<1> HIDE DEF f, g, fd, gd
<1>5. /\ f \in 1 .. NFILE /\ g \in 1 .. NFILE /\ ftab[f].ref = 0 /\ ftab[g].ref = 0
      /\ fd \in 0 .. NOFILE - 1 /\ gd \in 0 .. NOFILE - 1 /\ \A o \in ofile[p] : o[1] # fd /\ o[1] # gd
  BY <1>3, <1>4 DEF FreeFiles, FreeFds
<1>6. /\ ftab \in FtabType /\ ofile \in OfileType
      /\ \A h \in 1 .. NFILE : /\ ftab[h].ref = Cardinality(NamingIn(ofile, h)) /\ ftab[h].ref \in Nat
                               /\ ftab[h].ref = 0 => ftab[h].ip = 0
      /\ \A q \in Users : Apart(ofile[q])
  BY FilesKnown
<1> DEFINE mid == [ofile EXCEPT ![p] = @ \union {<<fd, f>>}]
<1>7. /\ NamedMore(ofile, mid, f) /\ mid \in OfileType /\ mid[p] = ofile[p] \union {<<fd, f>>} /\ Apart(mid[p])
      /\ \A q \in Users \ {p} : mid[q] = ofile[q]
  <2>1. NamedMore(ofile, mid, f)
    BY <1>5, <1>6, FdAdded
  <2>2. mid[p] = ofile[p] \union {<<fd, f>>} /\ \A q \in Users \ {p} : mid[q] = ofile[q]
    BY <1>6 DEF OfileType
  <2>3. Apart(ofile[p] \union {<<fd, f>>})
    BY <1>5, <1>6, ApartAdded
  <2> HIDE DEF mid
  <2> QED
    BY <2>1, <2>2, <2>3 DEF NamedMore
<1>8. ofile' = [mid EXCEPT ![p] = @ \union {<<gd, g>>}]
  <2>1. ofile' = [ofile EXCEPT ![p] = @ \union {<<fd, f>>, <<gd, g>>}]
    BY <1>1
  <2> QED
    BY <1>6, <2>1 DEF OfileType
<1> HIDE DEF mid
<1>9. \A o \in mid[p] : o[1] # gd
  <2>1. <<fd, f>>[1] = fd
    OBVIOUS
  <2> QED
    BY <1>4, <1>5, <1>7, <2>1
<1>10. NamedMore(mid, ofile', g)
  BY <1>5, <1>7, <1>8, <1>9, FdAdded
<1>11. \A q \in Users : Apart(ofile'[q])
  <2>1. ofile'[p] = mid[p] \union {<<gd, g>>} /\ \A q \in Users \ {p} : ofile'[q] = mid[q]
    BY <1>7, <1>8 DEF OfileType
  <2>2. Apart(mid[p] \union {<<gd, g>>})
    BY <1>7, <1>9, ApartAdded
  <2> QED
    BY <1>6, <1>7, <2>1, <2>2
<1>12. /\ ftab' \in FtabType /\ \A h \in 1 .. NFILE : ftab'[h].ip = ftab[h].ip /\ ftab'[h].ref = ftab[h].ref + One(f, h) + One(g, h)
  <2>1. ftab' = [ftab EXCEPT ![f].ref = 1, ![g].ref = 1]
    BY <1>1
  <2> QED
    BY <1>3, <1>5, <1>6, <2>1 DEF FtabType, One
<1>13. FileInv' /\ FileRefs'
  <2>1. ASSUME NEW h \in 1 .. NFILE
        PROVE  ftab'[h].ref = Cardinality(NamingIn(ofile', h)) /\ (ftab'[h].ref = 0 => ftab'[h].ip = 0)
    <3>1. /\ Cardinality(NamingIn(mid, h)) = ftab[h].ref + One(f, h) /\ ftab[h].ref \in Nat
          /\ ftab[h].ref = 0 => ftab[h].ip = 0
          /\ Cardinality(NamingIn(ofile', h)) = Cardinality(NamingIn(mid, h)) + One(g, h)
      BY <1>6, <1>7, <1>10 DEF NamedMore
    <3>2. One(f, h) \in {0, 1} /\ One(g, h) \in {0, 1}
      BY CountTyped
    <3> QED
      BY <1>12, <3>1, <3>2
  <2> QED
    BY <1>11, <2>1, FilesKept
<1>14. ofile' \in OfileType /\ \A q \in Users \ {p} : ofile'[q] = ofile[q]
  <2>1. ofile' \in OfileType
    BY <1>10 DEF NamedMore
  <2>2. \A q \in Users \ {p} : ofile'[q] = mid[q]
    BY <1>7, <1>8 DEF OfileType
  <2> QED
    BY <1>7, <2>1, <2>2
<1> QED
  BY <1>1, <1>12, <1>13, <1>14, FilesOnly

\* chdir and the end of exit: the current directory is handed over to iput.
LEMMA DirMoved ==
    ASSUME InodeInv, NEW p \in Users, NEW w \in Places \ {"gone"}, sysc[p].pc = w, Table(0), UNCHANGED <<ftab, ofile, ilk>>,
           cwd' = [cwd EXCEPT ![p] = cwd'[p]], cwd'[p] \in InumOr0,
           NEW b, NEW v \in Places, Fits(b, v), v \in {"user", "gone"}, Now(p, PutThen(b, <<cwd[p]>>, v)),
           cwd'[p] = 0 <=> v = "gone", v = "gone" => ofile[p] = {},
           \A j \in Inums : One(cwd'[p], j) + Hand(b, j) = Hand(sysc[p], j)
    PROVE  InodeInv'
<1> DEFINE c == sysc[p]
           s == <<cwd[p]>>
           e == PutThen(b, s, v)
<1>1. c.pc # "invalidate" /\ c.puts = <<>> /\ Place(c) = w
  BY KnownAt
<1>2. cwd \in [Users -> InumOr0] /\ ofile \in OfileType /\ ftab \in FtabType /\ cwd[p] \in Inums
  BY <1>1, FilesKnown, StartTyped
<1>3. s \in Seq(Inums) /\ Len(s) \in {1, 2} /\ \A j \in Inums : PutCount(s, j) = One(cwd[p], j)
  BY <1>2, OnePut
<1>4. Kept(ilk', p, b, v)
  BY DEF Kept, KeepsDp, KeepsIp
<1>5. Now(p, e)
  OBVIOUS
<1> HIDE DEF s
<1>6. /\ Shape(e) /\ Locked(ilk', p, e) /\ Place(e) = v
      /\ e.ip = b.ip /\ e.dp = b.dp /\ e.target = b.target /\ e.puts = s
  BY <1>3, <1>4, PutShape
<1> HIDE DEF e
<1>7. Leaves(cwd'[p], ofile'[p], e)
  BY <1>6 DEF Leaves
<1>8. cwd' \in [Users -> InumOr0] /\ \A q \in Users \ {p} : cwd'[q] = cwd[q]
  BY <1>2
<1>9. FileInv' /\ FileRefs'
  BY FilesKnown, FilesKept
<1>10. ASSUME NEW j \in Inums PROVE Balanced(p, e, 0, j)
  <2>1. Cardinality(FilesIn(ftab, j)) \in Nat /\ One(0, j) = 0 /\ \A x : One(x, j) \in Int
    BY FilesFinite, Ones
  <2>2. PutCount(s, j) = One(cwd[p], j) /\ PutCount(c.puts, j) = 0
    BY <1>1, <1>3, Counts
  <2>3. Holding(e, cwd'[p], j) = Hand(b, j) + PutCount(s, j) + One(cwd'[p], j)
    BY <1>6 DEF Holding, Hand
  <2>4. Holding(c, cwd[p], j) = Hand(c, j) + PutCount(c.puts, j) + One(cwd[p], j)
    BY DEF Holding, Hand
  <2>5. Hand(b, j) \in Int /\ Hand(c, j) \in Int
    BY <2>1 DEF Hand
  <2>6. One(cwd'[p], j) + Hand(b, j) = Hand(c, j)
    OBVIOUS
  <2> HIDE DEF c
  <2>7. Holding(e, cwd'[p], j) = Holding(c, cwd[p], j) + 0
    BY <2>1, <2>2, <2>3, <2>4, <2>5, <2>6
  <2>8. Cardinality(FilesIn(ftab', j)) + 0 = Cardinality(FilesIn(ftab, j)) + One(0, j)
    BY <2>1
  <2> QED
    BY <2>7, <2>8 DEF Balanced, c
<1>11. ilk' \in [Inums -> Users \union {NoUser}] /\ LockStep(p)
  BY LocksSame
<1> QED
  BY <1>1, <1>2, <1>5, <1>6, <1>7, <1>8, <1>9, <1>10, <1>11, FileMove, PlaceNames

\* SysChdir preserves the invariant.
LEMMA SysChdirStep ==
    ASSUME InodeInv, NEW p \in Users, SysChdir(p)
    PROVE  InodeInv'
<1> DEFINE c == sysc[p]
           i == c.ip
           b == [c EXCEPT !.ip = 0]
<1>0. c.pc = "chdir" /\ "chdir" \in Places \ {"gone"} /\ "user" \in Places \ {"gone"}
  BY PlaceNames DEF SysChdir, At, IpPlaces
<1>1. c \in SyscType /\ c.puts = <<>> /\ c.dp = 0 /\ c.target = 0 /\ i \in Inums /\ i # 0
  <2>1. Fits(c, "chdir") /\ c.puts = <<>> /\ ("chdir" \in IpPlaces => i \in Inums)
    BY <1>0, KnownAt, FitsAt
  <2> QED
    BY <2>1, PlaceNames DEF Fits, IpPlaces, DpPlaces, TargetPlaces
<1>2. UNCHANGED <<ftab, ofile, ilk>> /\ Table(0) /\ LockStep(p) /\ ilk' \in [Inums -> Users \union {NoUser}]
  <2>1. UNCHANGED <<ftab, ofile, ilk, dirVars>> /\ itab' = Ilock(itab, i) /\ fpanic' = (fpanic \/ NoType(itab, i))
    BY DEF SysChdir
  <2> QED
    BY <1>1, <2>1, TableRead, LocksSame
<1>3. b \in SyscType /\ b.ip = 0 /\ b.dp = 0 /\ b.target = 0
  BY <1>1, PlaceNames DEF SyscType
<1>4. CASE cwd' = [cwd EXCEPT ![p] = i] /\ Now(p, PutThen(b, <<cwd[p]>>, "user"))
  <2> HIDE DEF b
  <2>1. Fits(b, "user")
    BY <1>3 DEF Fits, IpPlaces, DpPlaces, TargetPlaces
  <2>2. cwd' = [cwd EXCEPT ![p] = cwd'[p]] /\ cwd'[p] = i /\ i \in InumOr0
    BY <1>1, <1>4, FilesKnown, PlaceNames
  <2>3. ASSUME NEW j \in Inums PROVE One(cwd'[p], j) + Hand(b, j) = Hand(c, j)
    BY <1>1, <1>3, <2>2, Ones DEF Hand
  <2> QED
    BY <1>0, <1>1, <1>2, <1>4, <2>1, <2>2, <2>3, DirMoved
<1>5. CASE Now(p, PutThen(b, <<i>>, "user")) /\ UNCHANGED cwd
  <2> DEFINE s == <<i>>
  <2>1. s \in Seq(Inums) /\ Len(s) \in {1, 2} /\ \A j \in Inums : PutCount(s, j) = One(i, j)
    BY <1>1, OnePut
  <2>2. Now(p, PutThen(b, s, "user")) /\ UNCHANGED cwd
    BY <1>5
  <2> HIDE DEF b
  <2>3. Fits(b, "user") /\ Kept(ilk', p, b, "user")
    BY <1>3 DEF Fits, Kept, IpPlaces, DpPlaces, TargetPlaces, KeepsDp, KeepsIp
  <2>4. ASSUME NEW j \in Inums PROVE Hand(b, j) + PutCount(s, j) = Hand(c, j) + One(0, j)
    <3>1. PutCount(s, j) = One(i, j)
      BY <2>1
    <3> HIDE DEF s
    <3> QED
      BY <1>1, <1>3, <3>1, Ones DEF Hand
  <2> HIDE DEF c, s
  <2> QED
    BY <1>0, <1>2, <2>1, <2>2, <2>3, <2>4, PutMove, PlaceNames DEF c
<1> QED
  BY <1>4, <1>5 DEF SysChdir

\* fileclose.
LEMMA CloseStep ==
    ASSUME InodeInv, NEW p \in Users, NEW w \in {"user", "exit"}, sysc[p].pc = w, Table(0), UNCHANGED <<cwd, ilk>>,
           NEW fd, Argfd(p, fd) # {}, Close(p, fd, w)
    PROVE  InodeInv'
<1> DEFINE c == sysc[p]
           f == CHOOSE g \in Argfd(p, fd) : TRUE
           i == ftab[f].ip
           last == ftab[f].ref = 1
           e == IF last /\ i # 0 THEN PutThen([c EXCEPT !.sys = "close"], <<i>>, w) ELSE Goto(c, w)
           x == IF last THEN [ref |-> 0, ip |-> 0] ELSE [ref |-> ftab[f].ref - 1, ip |-> ftab[f].ip]
<1>0. w \in Places \ {"gone"} /\ w \in Places
  BY PlaceNames
<1>1. /\ c \in SyscType /\ c.puts = <<>> /\ c.ip = 0 /\ c.dp = 0 /\ c.target = 0 /\ c.pc # "invalidate" /\ Place(c) = w
  <2>1. Fits(c, w) /\ c.puts = <<>> /\ c.pc # "invalidate" /\ Place(c) = w
    BY <1>0, KnownAt, FitsAt
  <2> QED
    BY <2>1, PlaceNames DEF Fits
<1>2. f \in Argfd(p, fd)
  OBVIOUS
<1>3. /\ ofile' = [ofile EXCEPT ![p] = {o \in @ : o[1] # fd}] /\ ftab' = [ftab EXCEPT ![f] = x] /\ Now(p, e)
  BY DEF Close
<1> HIDE DEF f
<1>4. <<fd, f>> \in ofile[p] /\ fd \in 0 .. NOFILE - 1 /\ f \in 1 .. NFILE
  BY <1>2, ArgfdIs
<1>5. /\ ftab \in FtabType /\ ofile \in OfileType /\ cwd \in [Users -> InumOr0]
      /\ \A h \in 1 .. NFILE : /\ ftab[h].ref = Cardinality(NamingIn(ofile, h)) /\ ftab[h].ref \in Nat
                               /\ ftab[h].ref = 0 => ftab[h].ip = 0
      /\ \A q \in Users : Apart(ofile[q])
  BY FilesKnown
<1>6. /\ ofile' \in OfileType /\ ofile'[p] = {o \in ofile[p] : o[1] # fd} /\ \A q \in Users \ {p} : ofile'[q] = ofile[q]
  BY <1>3, <1>5 DEF OfileType
<1>7. ofile = [ofile' EXCEPT ![p] = @ \union {<<fd, f>>}]
  <2>1. ofile[p] = ofile'[p] \union {<<fd, f>>}
    <3>1. ASSUME NEW o \in ofile[p] PROVE o[1] # fd \/ o = <<fd, f>>
      <4>1. Apart(ofile[p]) /\ <<fd, f>>[1] = fd
        BY <1>5
      <4> QED
        BY <1>4, <4>1 DEF Apart
    <3> QED
      BY <1>4, <1>6, <3>1
  <2> QED
    BY <1>5, <1>6, <2>1 DEF OfileType
<1>8. NamedMore(ofile', ofile, f)
  <2>1. \A o \in ofile'[p] : o[1] # fd
    BY <1>6
  <2> QED
    BY <1>4, <1>6, <1>7, <2>1, FdAdded
<1>9. \A h \in 1 .. NFILE : ftab[h].ref = Cardinality(NamingIn(ofile', h)) + One(f, h) /\ Cardinality(NamingIn(ofile', h)) \in Nat
  BY <1>5, <1>8, NamingFinite DEF NamedMore
<1>10. ftab[f].ref \in Nat /\ ftab[f].ref >= 1 /\ i \in InumOr0
  <2>1. One(f, f) = 1
    BY DEF One
  <2> QED
    BY <1>4, <1>5, <1>9, <2>1 DEF FtabType
<1>11. /\ ftab' \in FtabType /\ ftab'[f].ref = ftab[f].ref - 1 /\ ftab'[f].ip = (IF last THEN 0 ELSE i)
       /\ \A h \in 1 .. NFILE \ {f} : ftab'[h] = ftab[h]
  <2>1. x \in [ref : Int, ip : InumOr0] /\ x.ref = ftab[f].ref - 1 /\ x.ip = IF last THEN 0 ELSE i
    <3>1. CASE last
      BY <3>1, PlaceNames
    <3>2. CASE ~last
      <4>1. x = [ref |-> ftab[f].ref - 1, ip |-> ftab[f].ip]
        BY <3>2
      <4>2. ftab[f] \in [ref : Int, ip : InumOr0]
        BY <1>4, <1>5 DEF FtabType
      <4> QED
        BY <3>2, <4>1, <4>2
    <3> QED
      BY <3>1, <3>2
  <2> HIDE DEF x, i
  <2> QED
    BY <1>3, <1>4, <1>5, <2>1 DEF FtabType
<1>12. FileInv' /\ FileRefs'
  <2>1. ASSUME NEW h \in 1 .. NFILE
        PROVE  ftab'[h].ref = Cardinality(NamingIn(ofile', h)) /\ (ftab'[h].ref = 0 => ftab'[h].ip = 0)
    <3>1. CASE h = f
      <4>1. One(f, h) = 1
        BY <3>1 DEF One
      <4>2. ftab[h].ref = Cardinality(NamingIn(ofile', h)) + One(f, h) /\ Cardinality(NamingIn(ofile', h)) \in Nat
        BY <1>9
      <4> QED
        BY <1>10, <1>11, <3>1, <4>1, <4>2
    <3>2. CASE h # f
      <4>1. One(f, h) = 0
        BY <3>2 DEF One
      <4>2. ftab[h].ref = Cardinality(NamingIn(ofile', h)) + One(f, h) /\ Cardinality(NamingIn(ofile', h)) \in Nat
        BY <1>9
      <4> QED
        BY <1>5, <1>11, <3>2, <4>1, <4>2
    <3> QED
      BY <3>1, <3>2
  <2>2. \A q \in Users : Apart(ofile'[q])
    BY <1>5, <1>6 DEF Apart
  <2> QED
    BY <2>1, <2>2, FilesKept
<1>13. /\ Shape(e) /\ Locked(ilk', p, e) /\ Place(e) = w /\ e.ip = 0 /\ e.dp = 0 /\ e.target = 0
       /\ \A j \in Inums : PutCount(e.puts, j) = IF last /\ i # 0 THEN One(i, j) ELSE 0
  <2>1. CASE last /\ i # 0
    <3> DEFINE b == [c EXCEPT !.sys = "close"]
               s == <<i>>
    <3>1. b \in SyscType /\ b.ip = 0 /\ b.dp = 0 /\ b.target = 0
      <4>1. "close" \in SysNames
        BY DEF SysNames
      <4> QED
        BY <1>1, <4>1 DEF SyscType
    <3>2. i \in Inums /\ e = PutThen(b, s, w)
      BY <1>10, <2>1 DEF InumOr0
    <3>3. s \in Seq(Inums) /\ Len(s) \in {1, 2} /\ \A j \in Inums : PutCount(s, j) = One(i, j)
      BY <3>2, OnePut
    <3> HIDE DEF b, s, e, i
    <3>4. Fits(b, w) /\ Kept(ilk', p, b, w)
      BY <3>1 DEF Fits, Kept, IpPlaces, DpPlaces, TargetPlaces, KeepsDp, KeepsIp
    <3>5. Shape(e) /\ Locked(ilk', p, e) /\ Place(e) = w /\ e.ip = 0 /\ e.dp = 0 /\ e.target = 0 /\ e.puts = s
      BY <1>0, <3>1, <3>2, <3>3, <3>4, PutShape
    <3> QED
      BY <2>1, <3>3, <3>5
  <2>2. CASE ~(last /\ i # 0)
    <3>1. e = Goto(c, w)
      BY <2>2
    <3> HIDE DEF e, i
    <3>2. e \in SyscType /\ e.pc = w /\ e.puts = <<>> /\ Place(e) = w /\ e.ip = 0 /\ e.dp = 0 /\ e.target = 0
      BY <1>0, <1>1, <3>1, GotoFields
    <3>3. Fits(e, w) /\ Kept(ilk', p, e, w)
      BY <3>2 DEF Fits, Kept, IpPlaces, DpPlaces, TargetPlaces, KeepsDp, KeepsIp
    <3>4. Shape(e) /\ Locked(ilk', p, e)
      BY <1>0, <3>2, <3>3, GoShape
    <3> QED
      BY <2>2, <3>2, <3>4, Counts
  <2> QED
    BY <2>1, <2>2
<1>14. Leaves(cwd'[p], ofile'[p], e)
  <2>1. cwd[p] # 0
    BY <1>0, <1>1, StartTyped, PlaceNames
  <2> QED
    BY <1>13, <2>1 DEF Leaves
<1> HIDE DEF e, x
<1>15. ASSUME NEW j \in Inums PROVE Balanced(p, e, 0, j)
  <2>1. Cardinality(FilesIn(ftab, j)) \in Nat /\ Cardinality(FilesIn(ftab', j)) \in Nat /\ One(0, j) = 0
    BY FilesFinite, Ones
  <2>2. One(cwd[p], j) \in {0, 1} /\ One(i, j) \in {0, 1} /\ PutCount(c.puts, j) = 0
    BY <1>1, Counts
  <2>3. Holding(c, cwd[p], j) = One(cwd[p], j)
    BY <1>1, <2>1, <2>2 DEF Holding
  <2>4. Holding(e, cwd'[p], j) = PutCount(e.puts, j) + One(cwd[p], j)
    <3>1. PutCount(e.puts, j) \in {0, 1, 2}
      BY CountTyped
    <3> QED
      BY <1>13, <2>1, <2>2, <3>1 DEF Holding
  <2>5. CASE last /\ i # 0
    <3>1. i \in Inums /\ PutCount(e.puts, j) = One(i, j)
      BY <1>10, <1>13, <2>5 DEF InumOr0
    <3>2. Behind(ftab', ftab, f, i)
      BY <1>11, <2>5 DEF Behind
    <3>3. Cardinality(FilesIn(ftab, j)) = Cardinality(FilesIn(ftab', j)) + One(i, j)
      BY <1>4, <3>1, <3>2, IpSet
    <3> DEFINE d == One(i, j)
    <3>4. /\ d \in {0 - 1, 0, 1} /\ Holding(e, cwd'[p], j) = Holding(c, cwd[p], j) + d
          /\ Cardinality(FilesIn(ftab', j)) + d = Cardinality(FilesIn(ftab, j)) + One(0, j)
      BY <2>1, <2>2, <2>3, <2>4, <3>1, <3>3
    <3> HIDE DEF d
    <3> QED
      BY <3>4 DEF Balanced
  <2>6. CASE ~(last /\ i # 0)
    <3>1. PutCount(e.puts, j) = 0
      BY <1>13, <2>6
    <3>2. FilesIn(ftab', j) = FilesIn(ftab, j)
      <4>1. \A h \in 1 .. NFILE : ftab'[h].ip = ftab[h].ip
        BY <1>11, <2>6
      <4> QED
        BY <4>1 DEF FilesIn
    <3>3. /\ Holding(e, cwd'[p], j) = Holding(c, cwd[p], j) + 0
          /\ Cardinality(FilesIn(ftab', j)) + 0 = Cardinality(FilesIn(ftab, j)) + One(0, j)
      BY <2>1, <2>2, <2>3, <2>4, <3>1, <3>2
    <3> QED
      BY <3>3 DEF Balanced
  <2> QED
    BY <2>5, <2>6
<1>16. ilk' \in [Inums -> Users \union {NoUser}] /\ LockStep(p)
  BY LocksSame
<1>17. cwd' \in [Users -> InumOr0] /\ \A q \in Users \ {p} : cwd'[q] = cwd[q] /\ ofile'[q] = ofile[q]
  BY <1>5, <1>6
<1> HIDE DEF c, i
<1> QED
  BY <1>1, <1>3, <1>6, <1>11, <1>12, <1>13, <1>14, <1>15, <1>16, <1>17, FileMove, PlaceNames DEF c

\* SysClose preserves the invariant.
LEMMA SysCloseStep ==
    ASSUME InodeInv, NEW p \in Users, NEW fd, SysClose(p, fd)
    PROVE  InodeInv'
<1>1. sysc[p].pc = "user" /\ Argfd(p, fd) # {} /\ Close(p, fd, "user") /\ UNCHANGED <<dirVars, itab, ilk, cwd, fpanic>>
  BY DEF SysClose, At
<1>2. Table(0)
  BY <1>1, TableSame
<1> QED
  BY <1>1, <1>2, CloseStep

\* ExitClose preserves the invariant.
LEMMA ExitCloseStep ==
    ASSUME InodeInv, NEW p \in Users, ExitClose(p)
    PROVE  InodeInv'
<1> DEFINE c == sysc[p]
           S == {o[1] : o \in ofile[p]}
<1>1. c.pc = "exit" /\ UNCHANGED <<dirVars, itab, ilk, made, fpanic>>
  BY DEF ExitClose, At
<1>2. Table(0)
  BY <1>1, TableSame
<1>3. CASE ofile[p] # {} /\ Close(p, Least(S), "exit") /\ UNCHANGED cwd
  <2>1. ofile[p] \subseteq (0 .. NOFILE - 1) \X (1 .. NFILE)
    BY FilesKnown DEF OfileType
  <2>2. \A o \in ofile[p] : o[1] \in Nat
    BY <2>1
  <2>3. S \in SUBSET Nat /\ S # {}
    BY <1>3, <2>2
  <2>4. Least(S) \in S
    BY <2>3, LeastIn
  <2>5. Argfd(p, Least(S)) # {}
    BY <2>4 DEF Argfd
  <2> HIDE DEF S
  <2> QED
    BY <1>1, <1>2, <1>3, <2>5, CloseStep
<1>4. CASE /\ ofile[p] = {} /\ Now(p, PutThen(c, <<cwd[p]>>, "gone")) /\ cwd' = [cwd EXCEPT ![p] = 0]
           /\ UNCHANGED <<ftab, ofile>>
  <2>1. "exit" \in Places \ {"gone"} /\ "exit" \in Places /\ "gone" \in Places
    BY PlaceNames DEF Places
  <2>2. Fits(c, "exit") /\ c.puts = <<>> /\ c \in SyscType
    BY <1>1, <2>1, KnownAt, FitsAt
  <2>3. c.ip = 0 /\ c.dp = 0 /\ c.target = 0
    BY <2>2, PlaceNames DEF Fits
  <2>4. Fits(c, "gone")
    BY <2>2, <2>3 DEF Fits, IpPlaces, DpPlaces, TargetPlaces
  <2>5. cwd' = [cwd EXCEPT ![p] = cwd'[p]] /\ cwd'[p] = 0 /\ cwd'[p] \in InumOr0
    BY <1>4, FilesKnown, PlaceNames
  <2>6. ASSUME NEW j \in Inums PROVE One(cwd'[p], j) + Hand(c, j) = Hand(c, j)
    BY <2>3, <2>5, Ones DEF Hand
  <2>7. UNCHANGED <<ftab, ofile, ilk>> /\ Now(p, PutThen(c, <<cwd[p]>>, "gone"))
    BY <1>1, <1>4
  <2> HIDE DEF c
  <2>8. sysc[p].pc = "exit" /\ \A j \in Inums : One(cwd'[p], j) + Hand(c, j) = Hand(sysc[p], j)
    BY <1>1, <2>6 DEF c
  <2> QED
    BY <1>2, <1>4, <2>1, <2>4, <2>5, <2>7, <2>8, DirMoved
<1> QED
  BY <1>3, <1>4 DEF ExitClose

\* The descriptors that fork copies.
FdsOf(of, p, f) == {o \in of[p] : o[2] = f}
Copied(of, new, p, f) ==
    /\ Cardinality(FdsOf(of, p, f)) \in Nat
    /\ Cardinality(NamingIn(new, f)) = Cardinality(NamingIn(of, f)) + Cardinality(FdsOf(of, p, f))

\* A process without files gets those of p: as many descriptors more as p has.
LEMMA FdsCopied ==
    ASSUME NEW of \in OfileType, NEW p \in Users, NEW q \in Users, of[q] = {}, NEW new, new = [of EXCEPT ![q] = of[p]],
           NEW f \in 1 .. NFILE
    PROVE  Copied(of, new, p, f)
<1> DEFINE S == {o \in of[p] : o[2] = f}
           Q == {d \in Users \X (0 .. NOFILE - 1) : d[1] = q /\ <<d[2], f>> \in of[p]}
           F == [o \in S |-> <<q, o[1]>>]
<1>1. new[q] = of[p] /\ \A u \in Users \ {q} : new[u] = of[u]
  BY DEF OfileType
<1>2. \A o \in S : o = <<o[1], f>> /\ o[1] \in 0 .. NOFILE - 1 /\ o \in of[p]
  BY DEF OfileType
<1>3. NamingIn(new, f) = NamingIn(of, f) \union Q
  <2>1. ASSUME NEW d \in Users \X (0 .. NOFILE - 1)
        PROVE  <<d[2], f>> \in new[d[1]] <=> <<d[2], f>> \in of[d[1]] \/ (d[1] = q /\ <<d[2], f>> \in of[p])
    <3>1. CASE d[1] = q
      BY <1>1, <3>1
    <3>2. CASE d[1] # q
      <4>1. d[1] \in Users \ {q}
        BY <3>2
      <4> QED
        BY <1>1, <3>2, <4>1
    <3> QED
      BY <3>1, <3>2
  <2> QED
    BY <2>1 DEF NamingIn
<1>4. NamingIn(of, f) \intersect Q = {}
  BY DEF NamingIn
<1>5. IsFiniteSet(NamingIn(of, f)) /\ IsFiniteSet(NamingIn(new, f)) /\ Cardinality(NamingIn(of, f)) \in Nat
  BY NamingFinite
<1>6. IsFiniteSet(Q)
  BY <1>3, <1>5, FS_Subset
<1>7. F \in Bijection(S, Q)
  <2>1. \A o \in S : F[o] \in Q
    BY <1>2
  <2>2. \A o, x \in S : F[o] = F[x] => o = x
    <3>1. ASSUME NEW o \in S, NEW x \in S, F[o] = F[x] PROVE o = x
      <4>1. <<q, o[1]>> = <<q, x[1]>>
        BY <3>1
      <4>2. o[1] = x[1]
        BY <4>1
      <4> QED
        BY <1>2, <4>2
    <3> QED
      BY <3>1
  <2>3. ASSUME NEW d \in Q PROVE \E o \in S : F[o] = d
    <3>1. d = <<q, d[2]>> /\ <<d[2], f>> \in S
      OBVIOUS
    <3>2. F[<<d[2], f>>] = <<q, <<d[2], f>>[1]>>
      BY <3>1
    <3> QED
      BY <3>1, <3>2
  <2> HIDE DEF S, Q
  <2>4. F \in [S -> Q]
    BY <2>1
  <2> HIDE DEF F
  <2> QED
    BY <2>2, <2>3, <2>4 DEF Bijection, Injection, Surjection, IsInjective
<1>12. IsFiniteSet(S)
  <2>4. NOFILE - 1 \in Int /\ NFILE \in Int /\ 0 \in Int /\ 1 \in Int
    BY InodeAssumption
  <2>5. IsFiniteSet(0 .. NOFILE - 1)
    BY <2>4, FS_Interval
  <2>6. IsFiniteSet(1 .. NFILE)
    BY <2>4, FS_Interval
  <2>1. IsFiniteSet(0 .. NOFILE - 1) /\ IsFiniteSet(1 .. NFILE)
    BY <2>5, <2>6
  <2>2. IsFiniteSet((0 .. NOFILE - 1) \X (1 .. NFILE))
    BY <2>1, FS_Product
  <2>3. S \subseteq (0 .. NOFILE - 1) \X (1 .. NFILE)
    BY DEF OfileType
  <2> QED
    BY <2>2, <2>3, FS_Subset
<1> HIDE DEF S, Q, F
<1>8. ExistsBijection(S, Q)
  BY <1>7 DEF ExistsBijection
<1>9. IsFiniteSet(S) /\ Cardinality(S) = Cardinality(Q)
  BY <1>8, <1>12, FS_Bijection
<1>10. Cardinality(NamingIn(of, f) \union Q) = Cardinality(NamingIn(of, f)) + Cardinality(Q)
  <2>1. Cardinality(NamingIn(of, f) \union Q) = Cardinality(NamingIn(of, f)) + Cardinality(Q) - Cardinality(NamingIn(of, f) \intersect Q)
    BY <1>5, <1>6, FS_Union
  <2> QED
    <3>1. Cardinality(Q) \in Nat /\ Cardinality({}) = 0
      BY <1>6, FS_EmptySet, FS_CardinalityType
    <3> DEFINE N == NamingIn(of, f)
    <3>2. Cardinality(N \union Q) = Cardinality(N) + Cardinality(Q) - Cardinality({}) /\ Cardinality(N) \in Nat
      BY <1>4, <1>5, <2>1
    <3> HIDE DEF N
    <3>3. Cardinality(N \union Q) = Cardinality(N) + Cardinality(Q)
      BY <3>1, <3>2
    <3> QED
      BY <3>3 DEF N
<1>11. Cardinality(S) \in Nat
  BY <1>9, FS_CardinalityType
<1> QED
  BY <1>3, <1>9, <1>10, <1>11 DEF S, Copied, FdsOf

\* A current directory is a reference.
LEMMA DirReferred ==
    ASSUME InodeInv, NEW p \in Users, cwd[p] \in Inums
    PROVE  itab[cwd[p]].ref > 0
<1> DEFINE k == cwd[p]
           n == Locals(k)
<1>1. n = LocalsOf(sysc, cwd, k)
  BY DEF Locals, LocalsOf
<1>2. Regular(sysc)
  BY DEF InodeInv, CallInv, Shape, Regular
<1>3. n[p] = Holding(sysc[p], cwd[p], k) /\ n \in [Users -> Nat]
  BY <1>1, <1>2, LocalsSum
<1>4. Holding(sysc[p], cwd[p], k) >= 1
  <2>1. \A x : One(x, k) \in {0, 1}
    BY DEF One
  <2>2. PutCount(sysc[p].puts, k) \in {0, 1, 2} /\ One(cwd[p], k) = 1
    BY CountTyped DEF One
  <2> HIDE DEF k
  <2> QED
    BY <2>1, <2>2 DEF Holding
<1>5. <<p, 1>> \in Upto(n)
  <2>1. n[p] >= 1
    BY <1>3, <1>4
  <2> HIDE DEF n
  <2> QED
    BY <2>1 DEF Upto
<1> HIDE DEF n
<1>6. IsFiniteSet(Upto(n)) /\ Cardinality(Upto(n)) \in Nat
  BY UptoFinite
<1>7. Cardinality(Upto(n)) # 0
  BY <1>5, <1>6, FS_EmptySet
<1>8. Cardinality(FilesOn(k)) \in Nat
  BY FilesFinite DEF FilesOn, FilesIn
<1>9. itab[k].ref = Cardinality(Upto(n)) + Cardinality(FilesOn(k))
  BY DEF InodeInv, InodeRefs, n
<1> QED
  BY <1>6, <1>7, <1>8, <1>9

\* fork: the child has the files and the directory of the parent.
LEMMA ForkFilesStep ==
    ASSUME InodeInv, NEW p \in Users, NEW q \in Users, ForkFiles(p, q)
    PROVE  InodeInv'
<1> DEFINE c == sysc[q]
           k == cwd[p]
<1>0. "user" \in Places /\ "gone" \in Places
  BY DEF Places
<1>1. /\ sysc[p].pc = "user" /\ c.pc = "gone" /\ ofile' = [ofile EXCEPT ![q] = ofile[p]]
      /\ ftab' = [f \in 1 .. NFILE |-> [ftab[f] EXCEPT !.ref = @ + Shares(p, f)]]
      /\ cwd' = [cwd EXCEPT ![q] = k] /\ itab' = [itab EXCEPT ![k].ref = @ + 1] /\ Now(q, Idle)
      /\ UNCHANGED <<dirVars, ilk, fpanic>>
  BY DEF ForkFiles, At
<1>2. Place(sysc[p]) = "user" /\ sysc[p].puts = <<>>
  BY <1>0, <1>1, KnownAt
<1>3. c \in SyscType /\ c.pc # "invalidate" /\ Place(c) = "gone" /\ c.puts = <<>> /\ c.ip = 0 /\ c.dp = 0 /\ c.target = 0
  <2>1. Fits(c, "gone") /\ c.puts = <<>> /\ Place(c) = "gone"
    BY <1>0, <1>1, KnownAt, FitsAt
  <2> QED
    BY <1>1, <2>1 DEF Fits, IpPlaces, DpPlaces, TargetPlaces
<1>4. cwd[q] = 0 /\ ofile[q] = {}
  BY <1>3, Known DEF Leaves
<1>5. k \in Inums /\ k # 0 /\ k \in InumOr0
  BY <1>2, StartTyped, PlaceNames
<1>6. /\ ftab \in FtabType /\ ofile \in OfileType /\ cwd \in [Users -> InumOr0]
      /\ \A f \in 1 .. NFILE : /\ ftab[f].ref = Cardinality(NamingIn(ofile, f)) /\ ftab[f].ref \in Nat
                               /\ ftab[f].ref = 0 => ftab[f].ip = 0
      /\ \A u \in Users : Apart(ofile[u])
  BY FilesKnown
<1>7. Table(k)
  <2>1. itab[k].ref > 0 /\ itab[k].ref \in Nat
    BY <1>5, DirReferred, RefNat
  <2>2. itab' = Iget(itab, k)
    BY <1>1, <2>1 DEF Iget
  <2>3. ~TableFull(itab, k)
    BY <2>1 DEF TableFull
  <2>4. fpanic' = (fpanic \/ TableFull(itab, k))
    BY <1>1, <2>3, Known
  <2> QED
    BY <1>1, <1>5, <2>2, <2>4, TableGot
<1>8. /\ ofile' \in OfileType /\ ofile'[q] = ofile[p] /\ cwd' \in [Users -> InumOr0] /\ cwd'[q] = k
      /\ \A u \in Users \ {q} : cwd'[u] = cwd[u] /\ ofile'[u] = ofile[u]
  BY <1>1, <1>5, <1>6 DEF OfileType
<1>9. ASSUME NEW f \in 1 .. NFILE
      PROVE  Shares(p, f) \in Nat /\ Cardinality(NamingIn(ofile', f)) = ftab[f].ref + Shares(p, f)
  <2> DEFINE new == ofile'
  <2>1. new = [ofile EXCEPT ![q] = ofile[p]] /\ ofile[q] = {} /\ ofile \in OfileType
    BY <1>1, <1>4, <1>6
  <2> HIDE DEF new
  <2>2. Copied(ofile, new, p, f)
    BY <2>1, FdsCopied
  <2>3. Shares(p, f) = Cardinality(FdsOf(ofile, p, f))
    BY DEF Shares, FdsOf
  <2> QED
    BY <1>6, <2>2, <2>3 DEF new, Copied
<1>10. /\ ftab' \in FtabType
       /\ \A f \in 1 .. NFILE : ftab'[f].ip = ftab[f].ip /\ ftab'[f].ref = ftab[f].ref + Shares(p, f)
  BY <1>1, <1>6, <1>9 DEF FtabType
<1>11. FileInv' /\ FileRefs'
  <2>1. \A f \in 1 .. NFILE : ftab'[f].ref = Cardinality(NamingIn(ofile', f)) /\ (ftab'[f].ref = 0 => ftab'[f].ip = 0)
    BY <1>6, <1>9, <1>10
  <2>2. \A u \in Users : Apart(ofile'[u])
    BY <1>6, <1>8
  <2> QED
    BY <2>1, <2>2, FilesKept
<1>12. Shape(Idle) /\ Locked(ilk', q, Idle) /\ Place(Idle) = "user" /\ Leaves(cwd'[q], ofile'[q], Idle)
  BY <1>5, <1>8, IdleShape DEF Locked, Leaves, KeepsDp, KeepsIp
<1>13. ASSUME NEW j \in Inums PROVE Balanced(q, Idle, k, j)
  <2>1. One(0, j) = 0 /\ One(k, j) \in {0, 1} /\ PutCount(<<>>, j) = 0
    BY Counts
  <2>2. Holding(Idle, cwd'[q], j) = One(k, j)
    BY <1>8, <2>1, IdleShape DEF Holding
  <2>3. Holding(c, cwd[q], j) = 0
    BY <1>3, <1>4, <2>1 DEF Holding
  <2>4. FilesIn(ftab', j) = FilesIn(ftab, j)
    BY <1>10 DEF FilesIn
  <2> DEFINE d == One(k, j)
  <2>5. /\ d \in {0 - 1, 0, 1} /\ Holding(Idle, cwd'[q], j) = Holding(c, cwd[q], j) + d
        /\ Cardinality(FilesIn(ftab', j)) + d = Cardinality(FilesIn(ftab, j)) + One(k, j)
    BY <2>1, <2>2, <2>3, <2>4
  <2> HIDE DEF d
  <2> QED
    BY <2>5 DEF Balanced
<1>14. ilk' \in [Inums -> Users \union {NoUser}] /\ LockStep(q)
  BY <1>1, LocksSame
<1> QED
  BY <1>1, <1>3, <1>5, <1>7, <1>8, <1>10, <1>11, <1>12, <1>13, <1>14, FileMove

-----------------------------------------------------------------------------
(* The specification.                                                        *)

\* A system that has booted: every process is in the root directory.
LEMMA InodeInitInv == InodeInit => InodeInv
<1> SUFFICES ASSUME InodeInit PROVE InodeInv
  OBVIOUS
<1> USE DEF InodeInit
<1>1. dino \in DinoType
  <2>1. \A i : InitLinks(i) \in Int
    <3>1. ASSUME NEW i PROVE InitLinks(i) \in Int
      <4> DEFINE D == {e \in Tree : e[1] = i /\ e[4] = "dir"}
      <4>1. D \subseteq Tree /\ IsFiniteSet(Tree)
        BY InodeAssumption
      <4>2. Cardinality(D) \in Nat
        BY <4>1, FS_Subset, FS_CardinalityType
      <4> QED
        BY <4>2 DEF InitLinks
    <3> QED
      BY <3>1
  <2>2. ASSUME NEW i \in Inums PROVE dino[i] \in [type : Types, nlink : Int]
    <3>1. CASE i = ROOTINO
      BY <2>1, <3>1 DEF Types
    <3>2. CASE i # ROOTINO /\ T(i) = {}
      BY <3>2 DEF Types
    <3>3. CASE i # ROOTINO /\ T(i) # {}
      <4> DEFINE e == CHOOSE e \in T(i) : TRUE
      <4>1. e \in T(i)
        BY <3>3
      <4>2. e[4] \in Types
        BY <4>1, InodeAssumption DEF T, Types
      <4>3. dino[i] = [type |-> e[4], nlink |-> IF e[4] = "dir" THEN InitLinks(i) ELSE 1]
        BY <3>3
      <4> HIDE DEF e
      <4> QED
        BY <2>1, <4>2, <4>3
    <3> QED
      BY <3>1, <3>2, <3>3
  <2>3. dino = [i \in Inums |-> dino[i]]
    OBVIOUS
  <2> QED
    BY <2>2, <2>3 DEF DinoType
<1>2. /\ itab \in TabType /\ \A i \in Inums : ~itab[i].valid /\ itab[i].ref = IF i = ROOTINO THEN Cardinality(Users) ELSE 0
  <2>1. Cardinality(Users) \in Nat
    BY InodeAssumption, FS_CardinalityType
  <2>2. NoEntry \in [ref : Int, valid : BOOLEAN, type : Types, nlink : Int] /\ ~NoEntry.valid /\ NoEntry.ref = 0
    BY DEF NoEntry, Types
  <2> QED
    BY <2>1, <2>2 DEF TabType
<1>3. \A e \in ents : e[3] \in Inums
  <2>1. \A e \in Tree : <<e[1], e[2], e[3]>>[3] \in Inums /\ <<e[3], "..", e[1]>>[3] \in Inums
    BY InodeAssumption
  <2> QED
    BY <2>1
<1>4. /\ ilk \in [Inums -> Users \union {NoUser}] /\ ftab \in [1 .. NFILE -> [ref : Int, ip : InumOr0]]
      /\ ofile \in [Users -> SUBSET ((0 .. NOFILE - 1) \X (1 .. NFILE))]
      /\ cwd \in [Users -> InumOr0] /\ fpanic \in BOOLEAN
  <2>1. ilk \in [Inums -> Users \union {NoUser}] /\ fpanic \in BOOLEAN
    OBVIOUS
  <2>2. ftab \in [1 .. NFILE -> [ref : Int, ip : InumOr0]]
    BY DEF InumOr0
  <2>3. ofile \in [Users -> SUBSET ((0 .. NOFILE - 1) \X (1 .. NFILE))]
    OBVIOUS
  <2>4. cwd \in [Users -> InumOr0]
    BY InodeAssumption DEF InumOr0
  <2> QED
    BY <2>1, <2>2, <2>3, <2>4
<1>5. sysc \in [Users -> SyscType]
  BY IdleShape
<1>6. InodeType
  BY <1>1, <1>2, <1>3, <1>4, <1>5 DEF InodeType
<1>7. CallInv
  <2>1. ROOTINO # 0
    BY InodeAssumption
  <2> QED
    BY <2>1, IdleShape DEF CallInv, Locked, Leaves, KeepsDp, KeepsIp
<1>8. FileInv
  BY DEF FileInv
<1>9. CopyInv
  BY <1>2 DEF CopyInv, CopyFit
<1>10. FileRefs
  <2>1. \A f \in 1 .. NFILE : Naming(f) = {} /\ ftab[f].ref = 0
    BY DEF Naming
  <2> QED
    BY <2>1, FS_EmptySet DEF FileRefs
<1>11. InodeRefs
  <2> SUFFICES ASSUME NEW i \in Inums PROVE itab[i].ref = Cardinality(Upto(Locals(i))) + Cardinality(FilesOn(i))
    BY DEF InodeRefs
  <2>1. FilesOn(i) = {} /\ Cardinality(FilesOn(i)) = 0
    BY InodeAssumption, FS_EmptySet DEF FilesOn
  <2>2. Regular(sysc)
    BY <1>7 DEF CallInv, Shape, Regular
  <2>3. Locals(i) = LocalsOf(sysc, cwd, i)
    BY DEF Locals, LocalsOf
  <2>4. ASSUME NEW p \in Users PROVE Locals(i)[p] = One(ROOTINO, i)
    <3>1. Locals(i)[p] = Holding(Idle, ROOTINO, i)
      BY <2>2, <2>3, LocalsSum
    <3>2. One(0, i) = 0 /\ PutCount(<<>>, i) = 0 /\ One(ROOTINO, i) \in {0, 1}
      BY Counts
    <3> QED
      BY <3>1, <3>2, IdleShape DEF Holding
  <2>5. CASE i = ROOTINO
    <3> DEFINE U == {1}
    <3>1. One(ROOTINO, i) = 1
      BY <2>5 DEF One
    <3>2. Upto(Locals(i)) = Users \X U
      BY <2>4, <3>1 DEF Upto
    <3>3. IsFiniteSet(U) /\ Cardinality(U) = 1 /\ IsFiniteSet(Users) /\ Cardinality(Users) \in Nat
      BY InodeAssumption, FS_Singleton, FS_CardinalityType
    <3> HIDE DEF U
    <3>4. Cardinality(Users \X U) = Cardinality(Users) * Cardinality(U)
      BY <3>3, FS_Product
    <3> QED
      <4> DEFINE n == Cardinality(Users)
      <4>1. n \in Nat /\ itab[i].ref = n /\ Cardinality(Upto(Locals(i))) = n * 1
        BY <1>2, <2>5, <3>2, <3>3, <3>4
      <4> HIDE DEF n
      <4> QED
        BY <2>1, <4>1
  <2>6. CASE i # ROOTINO
    <3>1. One(ROOTINO, i) = 0
      BY <2>6 DEF One
    <3>2. Upto(Locals(i)) = {}
      BY <2>4, <3>1 DEF Upto
    <3> QED
      BY <1>2, <2>1, <2>6, <3>2, FS_EmptySet
  <2> QED
    BY <2>5, <2>6
<1> QED
  BY <1>6, <1>7, <1>8, <1>9, <1>10, <1>11 DEF InodeInv

\* Nothing changes.
LEMMA InodeStutter ==
    ASSUME InodeInv, UNCHANGED inodeVars
    PROVE  InodeInv'
<1>1. UNCHANGED <<dino, ents, itab, ilk, ftab, ofile, cwd, made, sysc, fpanic>>
  BY DEF inodeVars, dirVars, fileVars
<1>2. InodeType' /\ CallInv' /\ FileInv' /\ CopyInv'
  BY <1>1 DEF InodeInv, InodeType, CallInv, FileInv, CopyInv, CopyFit, Freeing
<1>3. (\A i \in Inums : Locals(i)' = Locals(i) /\ FilesOn(i)' = FilesOn(i)) /\ \A f \in 1 .. NFILE : Naming(f)' = Naming(f)
  BY <1>1 DEF Locals, FilesOn, Naming
<1>4. InodeRefs' /\ FileRefs'
  BY <1>1, <1>3 DEF InodeInv, InodeRefs, FileRefs, Upto
<1> QED
  BY <1>2, <1>4 DEF InodeInv

\* One step of any call.
LEMMA InodeNextInv ==
    ASSUME InodeInv, [InodeNext]_inodeVars
    PROVE  InodeInv'
<1>1. ASSUME NEW p \in Users, InodeStep(p) PROVE InodeInv'
  BY <1>1, IputStep, IputFreeStep, IputInvalidateStep, IputUnrefStep, NamexEndStep, NamexStep, OpenStep, ExitCloseStep,
     SysChdirStep, CreateLookStep, CreateFoundStep, IallocStep, CreateFillStep, ReleaseStep, CreatedStep, LinkCountStep,
     LinkEnterStep, LinkExistsStep, LinkUndoStep, UnlinkLookStep, UnlinkEraseStep, UnlinkDropStep DEF InodeStep
<1>2. ASSUME NEW p \in Users, InodeCall(p) PROVE InodeInv'
  BY <1>2, SyscallStep, SysCloseStep, SysDupStep, SysPipeStep, ExitFilesStep, ForkFilesStep DEF InodeCall
<1> QED
  BY <1>1, <1>2, InodeStutter DEF InodeNext

\* The invariant of the calls in progress, the tables and the copies.
THEOREM InodeInvariant == InodeSpec => []InodeInv
<1>1. InodeInv /\ [InodeNext]_inodeVars => InodeInv'
  BY InodeNextInv
<1> QED
  BY <1>1, InodeInitInv, PTL DEF InodeSpec

\* A copy that nobody has locked is not being freed.
LEMMA TablesFit == InodeInv => TablesExact
<1> SUFFICES ASSUME InodeInv PROVE TablesExact
  OBVIOUS
<1>1. RefsExact
  BY DEF RefsExact, InodeInv, InodeRefs, FileRefs, FilesOn
<1>2. ASSUME ~fpanic PROVE CopyIsDisk
  <2> SUFFICES ASSUME NEW i \in Inums, itab[i].ref > 0, itab[i].valid, LockFree(i)
               PROVE  itab[i].type = dino[i].type /\ itab[i].nlink = dino[i].nlink
    BY DEF CopyIsDisk
  <2>1. CopyFit(i)
    BY <1>2 DEF InodeInv, CopyInv
  <2>2. ~Freeing(i)
    <3> SUFFICES ASSUME NEW p \in Users, sysc[p].pc = "invalidate", Head(sysc[p].puts) = i PROVE FALSE
      BY DEF Freeing
    <3>1. Locked(ilk, p, sysc[p]) /\ p # NoUser
      BY Known
    <3> QED
      BY <3>1 DEF Locked, LockFree
  <2> QED
    BY <2>1, <2>2 DEF CopyFit
<1> QED
  BY <1>1, <1>2 DEF TablesExact

\* Reference counts and copies are exact, whatever the processes do.
THEOREM TablesExactAlways == InodeSpec => []TablesExact
BY InodeInvariant, TablesFit, PTL
=============================================================================
