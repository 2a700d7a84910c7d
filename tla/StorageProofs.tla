------------------------------ MODULE StorageProofs ------------------------------
(* Proofs about the buffer cache and the contents of files, for any number   *)
(* of processes, buffers, blocks, files and values: a reader sees what was   *)
(* last written or pinned, and bget panics only if every buffer is in use;   *)
(* every block in use has one owner, a file holds what was written to it,    *)
(* and a chunk of a write fits into the log.                                 *)
EXTENDS BufferCache, FsBlocks, FiniteSetTheorems, SequenceTheorems, WellFoundedInduction, TLAPS

-----------------------------------------------------------------------------
(* The inductive invariant.                                                  *)

Using(b) == {p \in BufUsers : bpc[p] # "out" /\ mine[p] = b}
Pinned == {b \in Bufs : bpins[b] > 0}

BufRecord == [block : BufBlocks \union {Nil}, valid : BOOLEAN, ref : Nat,
              holder : BufUsers \union {Nil}, data : BufValues]

BufType ==
    /\ buf \in [Bufs -> BufRecord]
    /\ lru \in Seq(Bufs)
    /\ disk \in [BufBlocks -> BufValues] /\ latest \in [BufBlocks -> BufValues]
    /\ safe \in [BufBlocks -> BufValues] /\ noBufs \in BOOLEAN
    /\ bpc \in [BufUsers -> {"out", "lock", "asleep", "woken", "fill", "hold", "put"}]
    /\ want \in [BufUsers -> BufBlocks \union {Nil}]
    /\ mine \in [BufUsers -> Bufs \union {Nil}]
    /\ bpins \in [Bufs -> {0, 1}]

\* Every buffer is on the list.
ListInv == \A b \in Bufs : \E i \in DOMAIN lru : lru[i] = b

\* From bget to brelse the buffer is that of the block asked for.
UseInv == \A p \in BufUsers : bpc[p] # "out" =>
    mine[p] \in Bufs /\ want[p] \in BufBlocks /\ buf[mine[p]].block = want[p]

\* A block has at most one buffer.
UniqueInv == \A b, c \in Bufs : buf[b].block = buf[c].block /\ buf[b].block # Nil => b = c

\* refcnt counts the processes that use the buffer and the pin of the log.
RefInv ==
    /\ \A b \in Bufs : buf[b].ref = Cardinality(Using(b)) + bpins[b]
    /\ Cardinality(Pinned) <= MaxPins

\* The holder of the sleep lock is the process that reads or uses the buffer,
\* and a sleeper waits for somebody.
HolderInv ==
    /\ \A b \in Bufs, p \in BufUsers :
          buf[b].holder = p <=> bpc[p] \in {"fill", "hold"} /\ mine[p] = b
    /\ \A p \in BufUsers : bpc[p] = "asleep" => buf[mine[p]].holder # Nil

\* A valid buffer has what its users last left or what was saved before that;
\* a pinned one has what was saved.  What is saved is on the disk unless a pin
\* keeps it in the cache.
Within(b) == buf[b].data \in {latest[buf[b].block], safe[buf[b].block]}
Kept(k) == \E b \in Bufs : buf[b].block = k /\ bpins[b] = 1
DataInv ==
    /\ \A p \in BufUsers : bpc[p] = "hold" => buf[mine[p]].valid
    /\ \A b \in Bufs : buf[b].valid => buf[b].block # Nil /\ Within(b)
    /\ \A b \in Bufs : bpins[b] = 1 => buf[b].valid /\ buf[b].data = safe[buf[b].block]
    /\ \A k \in BufBlocks : disk[k] = safe[k] \/ Kept(k)

\* After the panic every buffer stays in use.
FullInv == noBufs => \A b \in Bufs : bpins[b] = 1 \/ Using(b) # {}

BufInv == BufType /\ ListInv /\ UseInv /\ UniqueInv /\ RefInv /\ HolderInv /\ DataInv /\ FullInv

-----------------------------------------------------------------------------
(* Lemmas about the operators.                                               *)

\* A non-empty set of indices has a largest one.
LEMMA LastIndex ==
    ASSUME NEW n \in Nat, NEW T \in SUBSET (1 .. n), T # {}
    PROVE  \E i \in T : \A j \in T : j <= i
<1> DEFINE D == {n - i : i \in T}
<1>1. D \in SUBSET Nat /\ D # {}
  <2>1. \A i \in T : n - i \in Nat
    OBVIOUS
  <2>2. PICK i \in T : TRUE
    OBVIOUS
  <2>3. n - i \in D
    OBVIOUS
  <2> QED
    BY <2>1, <2>3
<1>2. PICK d \in D : \A e \in D : ~(<<e, d>> \in OpToRel(<, Nat))
  <2> HIDE DEF D
  <2> QED
    BY <1>1, NatLessThanWellFounded, WFMin
<1>3. ASSUME NEW e \in D PROVE ~(e < d)
  <2>1. <<e, d>> \notin OpToRel(<, Nat)
    BY <1>2
  <2>2. e \in Nat /\ d \in Nat
    BY <1>1
  <2> QED
    BY <2>1, <2>2 DEF OpToRel
<1>4. PICK i \in T : d = n - i
  OBVIOUS
<1>5. ASSUME NEW j \in T PROVE j <= i
  <2>1. n - j \in D
    OBVIOUS
  <2> QED
    BY <2>1, <1>3, <1>4
<1> QED
  BY <1>5

\* The search from the tail finds an unreferenced buffer when there is one.
LEMMA VictimUnreferenced ==
    ASSUME BufType, ListInv, \E b \in Bufs : Unreferenced(b)
    PROVE  Victim \in Bufs /\ Unreferenced(Victim)
<1> DEFINE T == {i \in DOMAIN lru : Unreferenced(lru[i])}
<1>1. lru \in Seq(Bufs) /\ Len(lru) \in Nat /\ DOMAIN lru = 1 .. Len(lru)
  BY DEF BufType
<1>2. T \in SUBSET (1 .. Len(lru)) /\ T # {}
  BY <1>1 DEF ListInv
<1>3. PICK i \in T : \A j \in T : j <= i
  <2> HIDE DEF T
  <2> QED
    BY <1>1, <1>2, LastIndex
<1>4. \E k \in DOMAIN lru : Unreferenced(lru[k]) /\ \A j \in DOMAIN lru : j > k => ~Unreferenced(lru[j])
  <2>1. i \in DOMAIN lru /\ Unreferenced(lru[i])
    OBVIOUS
  <2>2. ASSUME NEW j \in DOMAIN lru, j > i PROVE ~Unreferenced(lru[j])
    BY <1>1, <1>3, <2>2
  <2> QED
    BY <2>1, <2>2
<1> HIDE DEF T
<1>5. PICK k \in DOMAIN lru : Victim = lru[k] /\ Unreferenced(lru[k])
  BY <1>4 DEF Victim
<1> QED
  BY <1>1, <1>5

\* Moving a buffer to the front of the list keeps every buffer on it.
LEMMA TouchKeeps ==
    ASSUME BufType, ListInv, NEW b \in Bufs
    PROVE  Touch(b) \in Seq(Bufs) /\ \A c \in Bufs : \E i \in DOMAIN Touch(b) : Touch(b)[i] = c
<1>1. lru \in Seq(Bufs) /\ Len(lru) \in Nat /\ DOMAIN lru = 1 .. Len(lru)
  BY DEF BufType
<1>2. PICK i \in DOMAIN lru : lru[i] = b /\ Touch(b) = <<b>> \o RemoveAt(lru, i)
  BY DEF ListInv, Touch
<1> DEFINE n == Len(lru)
           hd == SubSeq(lru, 1, i - 1)
           tl == SubSeq(lru, i + 1, n)
           rest == hd \o tl
<1>3. /\ hd \in Seq(Bufs) /\ Len(hd) = i - 1 /\ \A j \in 1 .. (i - 1) : hd[j] = lru[j]
      /\ tl \in Seq(Bufs) /\ Len(tl) = n - i /\ \A j \in 1 .. (n - i) : tl[j] = lru[i + j]
  <2>1. hd \in Seq(Bufs) /\ Len(hd) = i - 1 /\ \A j \in 1 .. (i - 1) : hd[j] = lru[j]
    BY <1>1
  <2>2. tl \in Seq(Bufs) /\ Len(tl) = n - i /\ \A j \in 1 .. (n - i) : tl[j] = lru[i + j]
    BY <1>1
  <2> QED
    BY <2>1, <2>2
<1> HIDE DEF hd, tl
<1>4. /\ rest \in Seq(Bufs) /\ Len(rest) = n - 1
      /\ \A j \in 1 .. (i - 1) : rest[j] = lru[j]
      /\ \A j \in 1 .. (n - i) : rest[i - 1 + j] = lru[i + j]
  <2>1. /\ rest \in Seq(Bufs) /\ Len(rest) = Len(hd) + Len(tl)
        /\ \A j \in 1 .. (Len(hd) + Len(tl)) : rest[j] = IF j <= Len(hd) THEN hd[j] ELSE tl[j - Len(hd)]
    BY <1>3, ConcatProperties
  <2> HIDE DEF rest
  <2>2. Len(hd) + Len(tl) = n - 1 /\ Len(hd) = i - 1
    BY <1>1, <1>3
  <2>3. ASSUME NEW j \in 1 .. (i - 1) PROVE rest[j] = lru[j]
    BY <1>1, <1>3, <2>1, <2>2
  <2>4. ASSUME NEW j \in 1 .. (n - i) PROVE rest[i - 1 + j] = lru[i + j]
    <3>1. i - 1 + j \in 1 .. (n - 1) /\ ~(i - 1 + j <= i - 1) /\ i - 1 + j - (i - 1) = j
      BY <1>1
    <3>2. rest[i - 1 + j] = tl[i - 1 + j - (i - 1)]
      <4> DEFINE m == i - 1 + j
      <4>1. \A q \in 1 .. (n - 1) : rest[q] = IF q <= i - 1 THEN hd[q] ELSE tl[q - (i - 1)]
        BY <2>1, <2>2
      <4>2. m \in 1 .. (n - 1) /\ ~(m <= i - 1)
        BY <3>1
      <4> HIDE DEF m
      <4>3. rest[m] = tl[m - (i - 1)]
        BY <4>1, <4>2
      <4> QED
        BY <4>3 DEF m
    <3>3. tl[j] = lru[i + j]
      BY <1>3
    <3> QED
      BY <3>1, <3>2, <3>3
  <2> QED
    BY <2>1, <2>2, <2>3, <2>4
<1>5. Touch(b) = <<b>> \o rest
  BY <1>2 DEF RemoveAt, hd, tl
<1> HIDE DEF rest
<1>6. /\ Touch(b) \in Seq(Bufs) /\ Len(Touch(b)) = n
      /\ Touch(b)[1] = b /\ \A j \in 1 .. (n - 1) : Touch(b)[j + 1] = rest[j]
  <2>1. <<b>> \in Seq(Bufs) /\ Len(<<b>>) = 1 /\ <<b>>[1] = b
    OBVIOUS
  <2>2. /\ Touch(b) \in Seq(Bufs) /\ Len(Touch(b)) = n
        /\ \A j \in 1 .. n : Touch(b)[j] = IF j <= 1 THEN <<b>>[j] ELSE rest[j - 1]
    <3>1. 1 + Len(rest) = n
      BY <1>1, <1>4
    <3> QED
      BY <1>4, <1>5, <2>1, <3>1, ConcatProperties
  <2>3. n >= 1 /\ n \in Nat
    BY <1>1
  <2>4. Touch(b)[1] = b
    BY <2>1, <2>2, <2>3
  <2>5. ASSUME NEW j \in 1 .. (n - 1) PROVE Touch(b)[j + 1] = rest[j]
    <3>1. j + 1 \in 1 .. n /\ ~(j + 1 <= 1) /\ (j + 1) - 1 = j
      BY <2>3
    <3> QED
      BY <2>2, <3>1
  <2> QED
    BY <2>2, <2>4, <2>5
<1>7. ASSUME NEW c \in Bufs PROVE \E j \in DOMAIN Touch(b) : Touch(b)[j] = c
  <2>0. DOMAIN Touch(b) = 1 .. n
    BY <1>6
  <2>1. PICK k \in DOMAIN lru : lru[k] = c
    BY DEF ListInv
  <2>2. CASE k = i
    <3>1. Touch(b)[1] = c /\ 1 \in DOMAIN Touch(b)
      <4>1. Touch(b)[1] = b
        BY <1>6
      <4>2. 1 \in 1 .. n
        BY <1>1
      <4> QED
        BY <4>1, <4>2, <2>0, <2>1, <2>2, <1>2
    <3> QED
      BY <3>1
  <2>3. CASE k < i
    <3>1. rest[k] = c /\ k \in 1 .. (n - 1)
      BY <1>1, <1>4, <2>1, <2>3
    <3> QED
      BY <2>0, <3>1, <1>6, <1>1
  <2>4. CASE k > i
    <3>1. k - i \in 1 .. (n - i) /\ k - 1 \in 1 .. (n - 1)
      BY <1>1, <2>4
    <3>2. rest[i - 1 + (k - i)] = lru[i + (k - i)]
      BY <3>1, <1>4
    <3>3. i - 1 + (k - i) = k - 1 /\ i + (k - i) = k
      BY <1>1
    <3>4. rest[k - 1] = c
      BY <3>2, <3>3, <2>1
    <3>5. Touch(b)[k - 1 + 1] = c
      BY <3>1, <3>4, <1>6
    <3> QED
      BY <2>0, <3>5, <1>1
  <2> QED
    BY <2>2, <2>3, <2>4, <1>1
<1> QED
  BY <1>6, <1>7

\* A buffer without references has no user and no pin.
LEMMA IdleBuffer ==
    ASSUME BufType, RefInv, NEW b \in Bufs, buf[b].ref = 0
    PROVE  Using(b) = {} /\ bpins[b] = 0
<1>1. Using(b) \in SUBSET BufUsers
  BY DEF Using
<1>2. IsFiniteSet(Using(b)) /\ Cardinality(Using(b)) \in Nat
  BY <1>1, CacheAssumption, FS_Subset, FS_CardinalityType
<1>3. buf[b].ref = Cardinality(Using(b)) + bpins[b] /\ bpins[b] \in {0, 1}
  BY DEF RefInv, BufType
<1>4. Cardinality(Using(b)) = 0 /\ bpins[b] = 0
  BY <1>2, <1>3
<1> QED
  BY <1>2, <1>4, FS_EmptySet

\* The fields of a buffer, and what an assignment to them leaves.
LEMMA RecordFields ==
    ASSUME NEW r \in BufRecord
    PROVE  /\ r.block \in BufBlocks \union {Nil} /\ r.valid \in BOOLEAN /\ r.ref \in Nat
           /\ r.holder \in BufUsers \union {Nil} /\ r.data \in BufValues
           /\ \A n \in Nat : [r EXCEPT !.ref = n] \in BufRecord
           /\ \A h \in BufUsers \union {Nil} : [r EXCEPT !.holder = h] \in BufRecord
           /\ \A v \in BufValues : [r EXCEPT !.data = v] \in BufRecord
           /\ \A v \in BufValues : [r EXCEPT !.valid = TRUE, !.data = v] \in BufRecord
           /\ \A k \in BufBlocks : [r EXCEPT !.block = k, !.valid = FALSE, !.ref = 1] \in BufRecord
<1>1. /\ r.block \in BufBlocks \union {Nil} /\ r.valid \in BOOLEAN /\ r.ref \in Nat
      /\ r.holder \in BufUsers \union {Nil} /\ r.data \in BufValues
  BY DEF BufRecord
<1>2. ASSUME NEW n \in Nat PROVE [r EXCEPT !.ref = n] \in BufRecord
  BY DEF BufRecord
<1>3. ASSUME NEW h \in BufUsers \union {Nil} PROVE [r EXCEPT !.holder = h] \in BufRecord
  BY DEF BufRecord
<1>4. ASSUME NEW v \in BufValues PROVE [r EXCEPT !.data = v] \in BufRecord
  BY DEF BufRecord
<1>5. ASSUME NEW v \in BufValues PROVE [r EXCEPT !.valid = TRUE, !.data = v] \in BufRecord
  BY DEF BufRecord
<1>6. ASSUME NEW k \in BufBlocks PROVE [r EXCEPT !.block = k, !.valid = FALSE, !.ref = 1] \in BufRecord
  BY DEF BufRecord
<1> QED
  BY <1>1, <1>2, <1>3, <1>4, <1>5, <1>6

\* A set of processes is finite.
LEMMA UsersFinite ==
    ASSUME NEW U \in SUBSET BufUsers
    PROVE  IsFiniteSet(U) /\ Cardinality(U) \in Nat /\ Cardinality(U) <= Cardinality(BufUsers)
BY CacheAssumption, FS_Subset, FS_CardinalityType

-----------------------------------------------------------------------------
(* The initial state, and one lemma for each action.                         *)

\* binit leaves the cache in a state of the invariant.
LEMMA BufInitHolds ==
    ASSUME BufInit
    PROVE  BufInv
<1> DEFINE n == Cardinality(Bufs)
<1>1. IsFiniteSet(Bufs) /\ n \in Nat /\ MaxPins \in Nat /\ BufValues # {}
      /\ Nil \notin BufBlocks \union Bufs \union BufUsers
  BY CacheAssumption, FS_CardinalityType
<1>2. lru \in [1 .. n -> Bufs] /\ IsInjective(lru)
  <2>1. PICK g : g \in Bijection(1 .. n, Bufs)
    BY <1>1, FS_CardinalityType DEF ExistsBijection
  <2>2. g \in [1 .. n -> Bufs] /\ IsInjective(g)
    BY <2>1 DEF Bijection, Injection, IsInjective
  <2> QED
    BY <2>2 DEF BufInit, SetToSeq
<1>3. lru \in Seq(Bufs) /\ DOMAIN lru = 1 .. n
  BY <1>1, <1>2
<1>4. ListInv
  <2>1. lru \in Injection(1 .. n, Bufs)
    BY <1>2 DEF Injection, IsInjective
  <2>2. Cardinality(1 .. n) = n
    <3>1. 1 \in Int /\ n \in Int /\ (1 > n \/ 1 <= n)
      BY <1>1
    <3>2. Cardinality(1 .. n) = IF 1 > n THEN 0 ELSE n - 1 + 1
      BY <3>1, FS_Interval
    <3> QED
      BY <1>1, <3>2
  <2>3. lru \in Surjection(1 .. n, Bufs)
    BY <1>1, <2>1, <2>2, FS_Injection
  <2> QED
    BY <1>3, <2>3 DEF ListInv, Surjection
<1>5. /\ \A b \in Bufs : /\ buf[b].block = Nil /\ buf[b].valid = FALSE /\ buf[b].ref = 0
                         /\ buf[b].holder = Nil /\ bpins[b] = 0
      /\ \A p \in BufUsers : bpc[p] = "out" /\ want[p] = Nil /\ mine[p] = Nil
      /\ disk \in [BufBlocks -> BufValues] /\ latest = disk /\ safe = disk /\ noBufs = FALSE
  BY DEF BufInit
<1>6. BufType
  BY <1>1, <1>3 DEF BufInit, BufType, BufRecord
<1>7. UseInv /\ UniqueInv
  BY <1>5 DEF UseInv, UniqueInv
<1>8. RefInv
  <2>1. Pinned = {} /\ \A b \in Bufs : Using(b) = {}
    BY <1>5 DEF Pinned, Using
  <2>2. Cardinality({}) = 0
    BY FS_EmptySet
  <2> QED
    <3>1. ASSUME NEW b \in Bufs PROVE buf[b].ref = Cardinality(Using(b)) + bpins[b]
      <4>1. buf[b].ref = 0 /\ bpins[b] = 0
        BY <1>5
      <4>2. Cardinality(Using(b)) = 0
        BY <2>1, <2>2
      <4> QED
        BY <4>1, <4>2
    <3>2. Cardinality(Pinned) <= MaxPins
      BY <1>1, <2>1, <2>2
    <3> QED
      BY <3>1, <3>2 DEF RefInv
<1>9. HolderInv
  BY <1>1, <1>5 DEF HolderInv
<1>10. DataInv /\ FullInv
  BY <1>5 DEF DataInv, FullInv
<1> QED
  BY <1>4, <1>5, <1>6, <1>7, <1>8, <1>9, <1>10 DEF BufInv

\* A cached block gets one more user.
LEMMA BgetHitStep ==
    ASSUME BufInv, NEW p \in BufUsers, NEW k \in BufBlocks, NEW b \in Bufs,
           bpc[p] = "out", ~noBufs, buf[b].block = k,
           want' = [want EXCEPT ![p] = k], buf' = [buf EXCEPT ![b].ref = @ + 1],
           mine' = [mine EXCEPT ![p] = b], bpc' = [bpc EXCEPT ![p] = "lock"],
           UNCHANGED <<noBufs, lru, disk, bpins, latest, safe>>
    PROVE  BufInv'
<1>1. BufType /\ ListInv /\ UseInv /\ UniqueInv /\ RefInv /\ HolderInv /\ DataInv /\ FullInv
      /\ Nil \notin BufBlocks \union Bufs \union BufUsers
  BY CacheAssumption DEF BufInv
<1>2. /\ noBufs' = noBufs /\ lru' = lru /\ disk' = disk /\ bpins' = bpins /\ latest' = latest /\ safe' = safe
      /\ want'[p] = k /\ \A q \in BufUsers : q # p => want'[q] = want[q]
      /\ mine'[p] = b /\ \A q \in BufUsers : q # p => mine'[q] = mine[q]
      /\ bpc'[p] = "lock" /\ \A q \in BufUsers : q # p => bpc'[q] = bpc[q]
      /\ buf'[b].ref = buf[b].ref + 1 /\ \A c \in Bufs : c # b => buf'[c].ref = buf[c].ref
      /\ \A c \in Bufs : /\ buf'[c].block = buf[c].block /\ buf'[c].valid = buf[c].valid
                         /\ buf'[c].holder = buf[c].holder /\ buf'[c].data = buf[c].data
  BY <1>1 DEF BufType, BufRecord
<1>3. BufType'
  <2>1. buf[b] \in BufRecord /\ buf[b].ref + 1 \in Nat
    <3>1. buf[b] \in BufRecord
      BY <1>1 DEF BufType
    <3>2. buf[b].ref \in Nat
      BY <3>1, RecordFields
    <3> QED
      BY <3>1, <3>2
  <2>2. [buf[b] EXCEPT !.ref = @ + 1] \in BufRecord
    BY <2>1, RecordFields
  <2>3. buf' \in [Bufs -> BufRecord]
    BY <1>1, <2>2 DEF BufType
  <2> QED
    BY <1>1, <2>3 DEF BufType
<1>4. ListInv'
  BY <1>1, <1>2 DEF ListInv
<1>5. UseInv'
  BY <1>1, <1>2 DEF UseInv
<1>6. UniqueInv'
  BY <1>1, <1>2 DEF UniqueInv
<1>7. RefInv'
  <2>1. p \notin Using(b) /\ Using(b)' = Using(b) \union {p}
    BY <1>2 DEF Using
  <2>2. \A c \in Bufs : c # b => Using(c)' = Using(c)
    BY <1>2 DEF Using
  <2>3. IsFiniteSet(Using(b)) /\ Cardinality(Using(b)) \in Nat
    BY UsersFinite DEF Using
  <2>4. Cardinality(Using(b)') = Cardinality(Using(b)) + 1
    BY <2>1, <2>3, FS_AddElement
  <2>5. Pinned' = Pinned /\ bpins[b] \in Nat
    BY <1>1, <1>2 DEF Pinned, BufType
  <2>6. buf[b].ref = Cardinality(Using(b)) + bpins[b]
    BY <1>1 DEF RefInv
  <2>7. buf'[b].ref = Cardinality(Using(b)') + bpins'[b]
    BY <1>2, <2>3, <2>4, <2>5, <2>6
  <2>8. \A c \in Bufs : c # b => buf'[c].ref = Cardinality(Using(c)') + bpins'[c]
    BY <1>1, <1>2, <2>2 DEF RefInv
  <2>9. \A c \in Bufs : buf'[c].ref = Cardinality(Using(c)') + bpins'[c]
    BY <2>7, <2>8
  <2>10. Cardinality(Pinned') <= MaxPins
    BY <1>1, <2>5 DEF RefInv
  <2> QED
    BY <2>9, <2>10 DEF RefInv
<1>8. HolderInv'
  BY <1>1, <1>2 DEF HolderInv
<1>9. DataInv' /\ FullInv'
  BY <1>1, <1>2 DEF DataInv, Within, Kept, FullInv
<1> QED
  BY <1>1, <1>2, <1>3, <1>4, <1>5, <1>6, <1>7, <1>8, <1>9 DEF BufInv

\* The least recently used buffer without references gets a new block.
LEMMA BgetMissStep ==
    ASSUME BufInv, NEW p \in BufUsers, NEW k \in BufBlocks, NEW b \in Bufs,
           bpc[p] = "out", ~noBufs, Cached(k) = {}, Unreferenced(b),
           want' = [want EXCEPT ![p] = k], buf' = [buf EXCEPT ![b] = Recycled(b, k)],
           mine' = [mine EXCEPT ![p] = b], bpc' = [bpc EXCEPT ![p] = "lock"],
           UNCHANGED <<noBufs, lru, disk, bpins, latest, safe>>
    PROVE  BufInv'
<1>1. BufType /\ ListInv /\ UseInv /\ UniqueInv /\ RefInv /\ HolderInv /\ DataInv /\ FullInv
      /\ Nil \notin BufBlocks \union Bufs \union BufUsers
  BY CacheAssumption DEF BufInv
<1>2. /\ noBufs' = noBufs /\ lru' = lru /\ disk' = disk /\ bpins' = bpins /\ latest' = latest /\ safe' = safe
      /\ want'[p] = k /\ \A q \in BufUsers : q # p => want'[q] = want[q]
      /\ mine'[p] = b /\ \A q \in BufUsers : q # p => mine'[q] = mine[q]
      /\ bpc'[p] = "lock" /\ \A q \in BufUsers : q # p => bpc'[q] = bpc[q]
      /\ buf'[b].ref = 1 /\ buf'[b].block = k /\ buf'[b].valid = FALSE
      /\ \A c \in Bufs : c # b => buf'[c] = buf[c]
      /\ \A c \in Bufs : buf'[c].holder = buf[c].holder
  BY <1>1 DEF BufType, BufRecord, Recycled
<1>3. BufType'
  <2>1. Recycled(b, k) \in BufRecord
    BY <1>1, RecordFields DEF BufType, Recycled
  <2> QED
    BY <1>1, <2>1 DEF BufType
<1>4. Using(b) = {} /\ bpins[b] = 0 /\ \A q \in BufUsers : bpc[q] # "out" => mine[q] # b
  <2>1. buf[b].ref = 0
    BY DEF Unreferenced
  <2>2. Using(b) = {} /\ bpins[b] = 0
    BY <1>1, <2>1, IdleBuffer
  <2> QED
    BY <2>2 DEF Using
<1>5. ListInv'
  BY <1>1, <1>2 DEF ListInv
<1>6. UseInv'
  BY <1>1, <1>2, <1>4 DEF UseInv
<1>7. UniqueInv'
  <2>1. \A c \in Bufs : buf[c].block # k
    BY DEF Cached
  <2> QED
    BY <1>1, <1>2, <2>1 DEF UniqueInv
<1>8. RefInv'
  <2>1. Using(b)' = {p}
    BY <1>2, <1>4 DEF Using
  <2>2. \A c \in Bufs : c # b => Using(c)' = Using(c)
    BY <1>2 DEF Using
  <2>3. Cardinality({p}) = 1
    BY FS_Singleton
  <2>4. Pinned' = Pinned
    BY <1>2 DEF Pinned
  <2>5. buf'[b].ref = Cardinality(Using(b)') + bpins'[b]
    BY <1>2, <1>4, <2>1, <2>3
  <2>6. \A c \in Bufs : c # b => buf'[c].ref = Cardinality(Using(c)') + bpins'[c]
    BY <1>1, <1>2, <2>2 DEF RefInv
  <2> QED
    BY <1>1, <2>4, <2>5, <2>6 DEF RefInv
<1>9. HolderInv'
  <2>1. \A q \in BufUsers : buf[b].holder # q
    BY <1>1, <1>4 DEF HolderInv
  <2> QED
    BY <1>1, <1>2, <1>4, <2>1 DEF HolderInv, UseInv
<1>10. DataInv'
  <2>1. \A q \in BufUsers : bpc'[q] = "hold" => buf'[mine'[q]].valid
    BY <1>1, <1>2, <1>4 DEF DataInv, UseInv
  <2>2. \A c \in Bufs : buf'[c].valid => buf'[c].block # Nil /\ Within(c)'
    BY <1>1, <1>2 DEF DataInv, Within
  <2>3. \A c \in Bufs : bpins'[c] = 1 => buf'[c].valid /\ buf'[c].data = safe'[buf'[c].block]
    BY <1>1, <1>2, <1>4 DEF DataInv
  <2>4. ASSUME NEW j \in BufBlocks PROVE disk'[j] = safe'[j] \/ Kept(j)'
    BY <1>1, <1>2, <1>4 DEF DataInv, Kept
  <2> QED
    BY <2>1, <2>2, <2>3, <2>4 DEF DataInv
<1>11. FullInv'
  BY <1>2 DEF FullInv
<1> QED
  BY <1>1, <1>2, <1>3, <1>5, <1>6, <1>7, <1>8, <1>9, <1>10, <1>11 DEF BufInv

\* The panic: a buffer with a reference has a user or is pinned.
LEMMA BgetPanicStep ==
    ASSUME BufInv, NEW p \in BufUsers, NEW k \in BufBlocks,
           bpc[p] = "out", \A b \in Bufs : ~Unreferenced(b),
           want' = [want EXCEPT ![p] = k], noBufs' = TRUE,
           UNCHANGED <<buf, mine, bpc, lru, disk, bpins, latest, safe>>
    PROVE  BufInv'
<1>1. BufType /\ ListInv /\ UseInv /\ UniqueInv /\ RefInv /\ HolderInv /\ DataInv
  BY DEF BufInv
<1>2. BufType' /\ ListInv' /\ UniqueInv' /\ HolderInv' /\ DataInv'
  BY <1>1 DEF BufType, ListInv, UniqueInv, HolderInv, DataInv, Within, Kept
<1>3. UseInv'
  BY <1>1 DEF UseInv, BufType
<1>4. RefInv' /\ \A b \in Bufs : Using(b)' = Using(b)
  BY <1>1 DEF RefInv, Using, Pinned
<1>5. ASSUME NEW b \in Bufs PROVE bpins[b] = 1 \/ Using(b) # {}
  <2> SUFFICES ASSUME bpins[b] # 1, Using(b) = {} PROVE FALSE
    OBVIOUS
  <2>1. bpins[b] = 0 /\ Cardinality(Using(b)) = 0
    BY <1>1, FS_EmptySet DEF BufType
  <2>2. buf[b].ref = 0
    BY <1>1, <2>1 DEF RefInv
  <2> QED
    BY <2>2 DEF Unreferenced
<1>6. FullInv'
  BY <1>4, <1>5 DEF FullInv
<1> QED
  BY <1>2, <1>3, <1>4, <1>6 DEF BufInv

\* Bget preserves the invariant.
LEMMA BgetStep ==
    ASSUME BufInv, NEW p \in BufUsers, NEW k \in BufBlocks, Bget(p, k)
    PROVE  BufInv'
<1>1. BufType /\ ListInv /\ bpc[p] = "out" /\ ~noBufs
  BY DEF BufInv, Bget
<1>4. CASE \E b \in Cached(k) :
            /\ buf' = [buf EXCEPT ![b].ref = @ + 1]
            /\ mine' = [mine EXCEPT ![p] = b]
            /\ bpc' = [bpc EXCEPT ![p] = "lock"]
            /\ UNCHANGED noBufs
  <2>1. PICK b \in Cached(k) : /\ buf' = [buf EXCEPT ![b].ref = @ + 1]
                               /\ mine' = [mine EXCEPT ![p] = b]
                               /\ bpc' = [bpc EXCEPT ![p] = "lock"]
                               /\ UNCHANGED noBufs
    BY <1>4
  <2>2. b \in Bufs /\ buf[b].block = k
    BY DEF Cached
  <2>3. want' = [want EXCEPT ![p] = k] /\ UNCHANGED <<noBufs, lru, disk, bpins, latest, safe>>
    BY <2>1 DEF Bget
  <2> QED
    BY <1>1, <2>1, <2>2, <2>3, BgetHitStep
<1>5. CASE /\ Cached(k) = {} /\ \E b \in Bufs : Unreferenced(b)
           /\ buf' = [buf EXCEPT ![Victim] = Recycled(Victim, k)]
           /\ mine' = [mine EXCEPT ![p] = Victim]
           /\ bpc' = [bpc EXCEPT ![p] = "lock"]
           /\ UNCHANGED noBufs
  <2>1. want' = [want EXCEPT ![p] = k] /\ UNCHANGED <<noBufs, lru, disk, bpins, latest, safe>>
    BY <1>5 DEF Bget
  <2>2. Victim \in Bufs /\ Unreferenced(Victim)
    BY <1>1, <1>5, VictimUnreferenced
  <2> QED
    BY <1>1, <1>5, <2>1, <2>2, BgetMissStep
<1>6. CASE /\ Cached(k) = {} /\ \A b \in Bufs : ~Unreferenced(b)
           /\ noBufs' = TRUE
           /\ UNCHANGED <<buf, mine, bpc>>
  <2>1. want' = [want EXCEPT ![p] = k] /\ UNCHANGED <<buf, mine, bpc, lru, disk, bpins, latest, safe>>
    BY <1>6 DEF Bget
  <2> QED
    BY <1>1, <1>6, <2>1, BgetPanicStep
<1> QED
  BY <1>4, <1>5, <1>6 DEF Bget

\* acquiresleep finds the lock taken and the process sleeps.
LEMMA SleepStep ==
    ASSUME BufInv, NEW p \in BufUsers, bpc[p] \in {"lock", "woken"}, buf[mine[p]].holder # Nil,
           bpc' = [bpc EXCEPT ![p] = "asleep"], UNCHANGED <<buf, lru, disk, want, mine, bpins, latest, safe, noBufs>>
    PROVE  BufInv'
<1>1. BufType /\ ListInv /\ UseInv /\ UniqueInv /\ RefInv /\ HolderInv /\ DataInv /\ FullInv
  BY DEF BufInv
<1>2. /\ buf' = buf /\ lru' = lru /\ disk' = disk /\ want' = want /\ mine' = mine
      /\ bpins' = bpins /\ latest' = latest /\ safe' = safe /\ noBufs' = noBufs
      /\ bpc'[p] = "asleep" /\ \A q \in BufUsers : q # p => bpc'[q] = bpc[q]
  BY <1>1 DEF BufType
<1>3. BufType' /\ ListInv' /\ UniqueInv'
  BY <1>1 DEF BufType, ListInv, UniqueInv
<1>4. UseInv'
  BY <1>1, <1>2 DEF UseInv
<1>5. RefInv'
  <2>1. Pinned' = Pinned /\ \A c \in Bufs : Using(c)' = Using(c)
    BY <1>2 DEF Pinned, Using
  <2> QED
    BY <1>1, <1>2, <2>1 DEF RefInv
<1>6. HolderInv'
  BY <1>1, <1>2 DEF HolderInv
<1>7. DataInv' /\ FullInv'
  <2>1. \A c \in Bufs : Using(c)' = Using(c)
    BY <1>2 DEF Using
  <2> QED
    BY <1>1, <1>2, <2>1 DEF DataInv, Within, Kept, FullInv
<1> QED
  BY <1>1, <1>2, <1>3, <1>4, <1>5, <1>6, <1>7 DEF BufInv

\* acquiresleep takes the lock of the process's buffer.
LEMMA TakeStep ==
    ASSUME BufInv, NEW p \in BufUsers, bpc[p] \in {"lock", "woken"}, buf[mine[p]].holder = Nil,
           buf' = [buf EXCEPT ![mine[p]].holder = p], bpc' = [bpc EXCEPT ![p] = "fill"],
           UNCHANGED <<lru, disk, want, mine, bpins, latest, safe, noBufs>>
    PROVE  BufInv'
<1>1. BufType /\ ListInv /\ UseInv /\ UniqueInv /\ RefInv /\ HolderInv /\ DataInv /\ FullInv
      /\ Nil \notin BufBlocks \union Bufs \union BufUsers
  BY CacheAssumption DEF BufInv
<1> DEFINE b == mine[p]
<1>2. bpc[p] # "out" /\ b \in Bufs /\ want[p] \in BufBlocks /\ buf[b].block = want[p] /\ buf[b] \in BufRecord
  BY <1>1 DEF UseInv, BufType
<1> HIDE DEF b
<1>3. /\ lru' = lru /\ disk' = disk /\ want' = want /\ mine' = mine
      /\ bpins' = bpins /\ latest' = latest /\ safe' = safe /\ noBufs' = noBufs
      /\ bpc'[p] = "fill" /\ \A q \in BufUsers : q # p => bpc'[q] = bpc[q]
      /\ buf'[b].holder = p /\ \A c \in Bufs : c # b => buf'[c].holder = buf[c].holder
      /\ \A c \in Bufs : /\ buf'[c].block = buf[c].block /\ buf'[c].valid = buf[c].valid
                         /\ buf'[c].ref = buf[c].ref /\ buf'[c].data = buf[c].data
  BY <1>1, <1>2 DEF BufType, BufRecord, b
<1>4. BufType'
  <2>1. [buf[b] EXCEPT !.holder = p] \in BufRecord
    BY <1>2, RecordFields
  <2>2. buf' \in [Bufs -> BufRecord]
    BY <1>1, <2>1 DEF BufType, b
  <2> QED
    BY <1>1, <2>2 DEF BufType
<1>5. ListInv' /\ UniqueInv'
  BY <1>1, <1>3 DEF ListInv, UniqueInv
<1>6. UseInv'
  BY <1>1, <1>3 DEF UseInv
<1>7. RefInv'
  <2>1. Pinned' = Pinned /\ \A c \in Bufs : Using(c)' = Using(c)
    BY <1>2, <1>3 DEF Pinned, Using
  <2> QED
    BY <1>1, <1>3, <2>1 DEF RefInv
<1>8. HolderInv'
  <2>1. mine[p] = b /\ buf[b].holder = Nil
    BY DEF b
  <2>2. \A q \in BufUsers : bpc[q] \in {"fill", "hold"} => mine[q] # b
    BY <1>1, <1>2, <2>1 DEF HolderInv
  <2>3. ASSUME NEW c \in Bufs, NEW q \in BufUsers
        PROVE  buf'[c].holder = q <=> bpc'[q] \in {"fill", "hold"} /\ mine'[q] = c
    BY <1>1, <1>3, <2>1, <2>2 DEF HolderInv
  <2>4. ASSUME NEW q \in BufUsers, bpc'[q] = "asleep" PROVE buf'[mine'[q]].holder # Nil
    BY <1>1, <1>3, <2>1, <2>4 DEF HolderInv, UseInv
  <2> QED
    BY <2>3, <2>4 DEF HolderInv
<1>9. DataInv' /\ FullInv'
  <2>1. \A c \in Bufs : Using(c)' = Using(c)
    BY <1>2, <1>3 DEF Using
  <2>2. DataInv'
    BY <1>1, <1>2, <1>3 DEF DataInv, Within, Kept, UseInv
  <2> QED
    BY <1>1, <1>3, <2>1, <2>2 DEF FullInv
<1> QED
  BY <1>1, <1>3, <1>4, <1>5, <1>6, <1>7, <1>8, <1>9 DEF BufInv

\* AcquireSleep preserves the invariant.
LEMMA AcquireSleepStep ==
    ASSUME BufInv, NEW p \in BufUsers, AcquireSleep(p)
    PROVE  BufInv'
<1>1. CASE buf[mine[p]].holder # Nil
  BY <1>1, SleepStep DEF AcquireSleep
<1>2. CASE buf[mine[p]].holder = Nil
  BY <1>2, TakeStep DEF AcquireSleep
<1> QED
  BY <1>1, <1>2

\* Bread preserves the invariant.
LEMMA BreadStep ==
    ASSUME BufInv, NEW p \in BufUsers, Bread(p)
    PROVE  BufInv'
<1>1. BufType /\ ListInv /\ UseInv /\ UniqueInv /\ RefInv /\ HolderInv /\ DataInv /\ FullInv
      /\ Nil \notin BufBlocks \union Bufs \union BufUsers
  BY CacheAssumption DEF BufInv
<1> DEFINE b == mine[p]
<1>2. bpc[p] # "out" /\ b \in Bufs /\ want[p] \in BufBlocks /\ buf[b].block = want[p] /\ buf[b] \in BufRecord
  BY <1>1 DEF Bread, UseInv, BufType
<1> HIDE DEF b
<1> DEFINE d == IF buf[b].valid THEN buf[b].data ELSE disk[buf[b].block]
<1>3. /\ lru' = lru /\ disk' = disk /\ want' = want /\ mine' = mine
      /\ bpins' = bpins /\ latest' = latest /\ safe' = safe /\ noBufs' = noBufs /\ bpc[p] = "fill"
      /\ bpc'[p] = "hold" /\ \A q \in BufUsers : q # p => bpc'[q] = bpc[q]
      /\ buf'[b].valid = TRUE /\ buf'[b].data = d
      /\ \A c \in Bufs : c # b => buf'[c].valid = buf[c].valid /\ buf'[c].data = buf[c].data
      /\ \A c \in Bufs : /\ buf'[c].block = buf[c].block /\ buf'[c].holder = buf[c].holder
                         /\ buf'[c].ref = buf[c].ref
      /\ bpc' \in [BufUsers -> {"out", "lock", "asleep", "woken", "fill", "hold", "put"}]
  BY <1>1, <1>2 DEF Bread, BufType, BufRecord, b
<1>4. BufType'
  <2>1. disk[buf[b].block] \in BufValues
    BY <1>1, <1>2 DEF BufType
  <2>2. [buf[b] EXCEPT !.valid = TRUE, !.data = disk[buf[b].block]] \in BufRecord
    BY <1>2, <2>1, RecordFields
  <2>3. buf' \in [Bufs -> BufRecord]
    BY <1>1, <2>2 DEF Bread, BufType, b
  <2> QED
    BY <1>1, <1>3, <2>3 DEF BufType
<1>5. ListInv' /\ UniqueInv'
  BY <1>1, <1>3 DEF ListInv, UniqueInv
<1>6. UseInv'
  BY <1>1, <1>3 DEF UseInv
<1>7. RefInv'
  <2>1. Pinned' = Pinned /\ \A c \in Bufs : Using(c)' = Using(c)
    BY <1>2, <1>3 DEF Pinned, Using
  <2> QED
    BY <1>1, <1>3, <2>1 DEF RefInv
<1>8. HolderInv'
  BY <1>1, <1>3 DEF HolderInv, UseInv
<1>9. d \in {latest[want[p]], safe[want[p]]}
  <2>1. CASE buf[b].valid
    BY <1>1, <1>2, <2>1 DEF DataInv, Within
  <2>2. CASE ~buf[b].valid
    <3>1. \A c \in Bufs : buf[c].block = want[p] => c = b
      BY <1>1, <1>2 DEF UniqueInv
    <3>2. disk[want[p]] = safe[want[p]]
      BY <1>1, <1>2, <2>2, <3>1 DEF DataInv, Kept
    <3> QED
      BY <1>2, <2>2, <3>2
  <2> QED
    BY <2>1, <2>2
<1> HIDE DEF d
<1>10. DataInv'
  <2>1. ASSUME NEW q \in BufUsers, bpc'[q] = "hold" PROVE buf'[mine'[q]].valid
    BY <1>1, <1>2, <1>3, <2>1 DEF DataInv, UseInv, b
  <2>2. ASSUME NEW c \in Bufs, buf'[c].valid PROVE buf'[c].block # Nil /\ Within(c)'
    BY <1>1, <1>2, <1>3, <1>9, <2>2 DEF DataInv, Within
  <2>3. ASSUME NEW c \in Bufs, bpins'[c] = 1 PROVE buf'[c].valid /\ buf'[c].data = safe'[buf'[c].block]
    BY <1>1, <1>3, <2>3 DEF DataInv, d
  <2>4. ASSUME NEW j \in BufBlocks PROVE disk'[j] = safe'[j] \/ Kept(j)'
    BY <1>1, <1>3 DEF DataInv, Kept
  <2> QED
    BY <2>1, <2>2, <2>3, <2>4 DEF DataInv
<1>11. FullInv'
  <2>1. \A c \in Bufs : Using(c)' = Using(c)
    BY <1>2, <1>3 DEF Using
  <2> QED
    BY <1>1, <1>3, <2>1 DEF FullInv
<1> QED
  BY <1>1, <1>3, <1>4, <1>5, <1>6, <1>7, <1>8, <1>10, <1>11 DEF BufInv

\* ChangeData preserves the invariant.
LEMMA ChangeDataStep ==
    ASSUME BufInv, NEW p \in BufUsers, NEW v \in BufValues, ChangeData(p, v)
    PROVE  BufInv'
<1>1. BufType /\ ListInv /\ UseInv /\ UniqueInv /\ RefInv /\ HolderInv /\ DataInv /\ FullInv
      /\ Nil \notin BufBlocks \union Bufs \union BufUsers
  BY CacheAssumption DEF BufInv
<1> DEFINE b == mine[p]
<1>2. bpc[p] # "out" /\ b \in Bufs /\ want[p] \in BufBlocks /\ buf[b].block = want[p] /\ buf[b] \in BufRecord
  BY <1>1 DEF ChangeData, UseInv, BufType
<1> HIDE DEF b
<1>3. /\ lru' = lru /\ disk' = disk /\ want' = want /\ mine' = mine /\ bpc' = bpc
      /\ bpins' = bpins /\ noBufs' = noBufs /\ bpc[p] = "hold"
      /\ buf'[b].data = v /\ \A c \in Bufs : c # b => buf'[c].data = buf[c].data
      /\ \A c \in Bufs : /\ buf'[c].block = buf[c].block /\ buf'[c].holder = buf[c].holder
                         /\ buf'[c].ref = buf[c].ref /\ buf'[c].valid = buf[c].valid
      /\ latest'[want[p]] = v /\ \A k \in BufBlocks : k # want[p] => latest'[k] = latest[k]
      /\ bpins[b] = 1 => safe'[want[p]] = v
      /\ bpins[b] = 0 => safe' = safe
      /\ \A k \in BufBlocks : k # want[p] => safe'[k] = safe[k]
  BY <1>1, <1>2 DEF ChangeData, BufType, BufRecord, b
<1>4. BufType'
  <2>1. [buf[b] EXCEPT !.data = v] \in BufRecord
    BY <1>2, RecordFields
  <2>2. buf' \in [Bufs -> BufRecord]
    BY <1>1, <2>1 DEF ChangeData, BufType, b
  <2>3. latest' \in [BufBlocks -> BufValues] /\ safe' \in [BufBlocks -> BufValues]
    BY <1>1 DEF ChangeData, BufType
  <2> QED
    BY <1>1, <1>3, <2>2, <2>3 DEF BufType
<1>5. ListInv' /\ UniqueInv'
  BY <1>1, <1>3 DEF ListInv, UniqueInv
<1>6. UseInv'
  BY <1>1, <1>3 DEF UseInv
<1>7. RefInv'
  <2>1. Pinned' = Pinned /\ \A c \in Bufs : Using(c)' = Using(c)
    BY <1>3 DEF Pinned, Using
  <2> QED
    BY <1>1, <1>3, <2>1 DEF RefInv
<1>8. HolderInv'
  BY <1>1, <1>3 DEF HolderInv, UseInv
<1>9. DataInv'
  <2>1. ASSUME NEW q \in BufUsers, bpc'[q] = "hold" PROVE buf'[mine'[q]].valid
    BY <1>1, <1>3, <2>1 DEF DataInv, UseInv
  <2>2. ASSUME NEW c \in Bufs, c # b, buf[c].valid \/ bpins[c] = 1
        PROVE  /\ buf[c].block # want[p] /\ buf[c].block \in BufBlocks
               /\ latest'[buf[c].block] = latest[buf[c].block] /\ safe'[buf[c].block] = safe[buf[c].block]
    <3>1. buf[c].block # Nil
      BY <1>1, <2>2 DEF DataInv
    <3>2. buf[c].block # want[p] /\ buf[c].block \in BufBlocks
      BY <1>1, <1>2, <2>2, <3>1 DEF UniqueInv, BufType, BufRecord
    <3> QED
      BY <1>3, <3>2
  <2>3. ASSUME NEW c \in Bufs, buf'[c].valid PROVE buf'[c].block # Nil /\ Within(c)'
    <3>1. CASE c = b
      BY <1>1, <1>2, <1>3, <3>1 DEF Within
    <3>2. CASE c # b
      BY <1>1, <1>3, <2>2, <2>3, <3>2 DEF DataInv, Within
    <3> QED
      BY <3>1, <3>2
  <2>4. ASSUME NEW c \in Bufs, bpins'[c] = 1 PROVE buf'[c].valid /\ buf'[c].data = safe'[buf'[c].block]
    <3>1. CASE c = b
      BY <1>1, <1>2, <1>3, <2>4, <3>1 DEF DataInv
    <3>2. CASE c # b
      BY <1>1, <1>3, <2>2, <2>4, <3>2 DEF DataInv
    <3> QED
      BY <3>1, <3>2
  <2>5. ASSUME NEW j \in BufBlocks PROVE disk'[j] = safe'[j] \/ Kept(j)'
    <3>1. CASE j = want[p] /\ bpins[b] = 1
      BY <1>2, <1>3, <3>1 DEF Kept
    <3>2. CASE j # want[p] \/ bpins[b] = 0
      <4>1. safe'[j] = safe[j]
        BY <1>3, <3>2
      <4> QED
        BY <1>1, <1>3, <4>1 DEF DataInv, Kept
    <3> QED
      BY <1>1, <1>2, <3>1, <3>2 DEF BufType
  <2> QED
    BY <2>1, <2>3, <2>4, <2>5 DEF DataInv
<1>10. FullInv'
  <2>1. \A c \in Bufs : Using(c)' = Using(c)
    BY <1>3 DEF Using
  <2> QED
    BY <1>1, <1>3, <2>1 DEF FullInv
<1> QED
  BY <1>1, <1>3, <1>4, <1>5, <1>6, <1>7, <1>8, <1>9, <1>10 DEF BufInv

\* Bwrite preserves the invariant.
LEMMA BwriteStep ==
    ASSUME BufInv, NEW p \in BufUsers, Bwrite(p)
    PROVE  BufInv'
<1>1. BufType /\ ListInv /\ UseInv /\ UniqueInv /\ RefInv /\ HolderInv /\ DataInv /\ FullInv
      /\ Nil \notin BufBlocks \union Bufs \union BufUsers
  BY CacheAssumption DEF BufInv
<1> DEFINE b == mine[p]
<1>2. bpc[p] # "out" /\ b \in Bufs /\ want[p] \in BufBlocks /\ buf[b].block = want[p] /\ buf[b] \in BufRecord
  BY <1>1 DEF Bwrite, UseInv, BufType
<1> HIDE DEF b
<1>3. /\ buf' = buf /\ lru' = lru /\ want' = want /\ mine' = mine /\ bpc' = bpc
      /\ bpins' = bpins /\ noBufs' = noBufs /\ bpc[p] = "hold"
      /\ latest'[want[p]] = buf[b].data /\ \A k \in BufBlocks : k # want[p] => latest'[k] = latest[k]
      /\ safe'[want[p]] = buf[b].data /\ \A k \in BufBlocks : k # want[p] => safe'[k] = safe[k]
      /\ latest' \in [BufBlocks -> BufValues] /\ safe' \in [BufBlocks -> BufValues]
      /\ disk'[want[p]] = buf[b].data /\ \A k \in BufBlocks : k # want[p] => disk'[k] = disk[k]
  BY <1>1, <1>2 DEF Bwrite, Saved, BufType, BufRecord, b
<1>4. BufType'
  <2>1. buf[b].data \in BufValues
    BY <1>2, RecordFields
  <2>2. disk' \in [BufBlocks -> BufValues]
    BY <1>1, <2>1 DEF Bwrite, BufType, b
  <2> QED
    BY <1>1, <1>3, <2>2 DEF BufType
<1>5. ListInv' /\ UniqueInv' /\ UseInv' /\ HolderInv'
  BY <1>1, <1>3 DEF ListInv, UniqueInv, UseInv, HolderInv
<1>6. RefInv'
  <2>1. Pinned' = Pinned /\ \A c \in Bufs : Using(c)' = Using(c)
    BY <1>3 DEF Pinned, Using
  <2> QED
    BY <1>1, <1>3, <2>1 DEF RefInv
<1>7. DataInv'
  <2>1. ASSUME NEW q \in BufUsers, bpc'[q] = "hold" PROVE buf'[mine'[q]].valid
    BY <1>1, <1>3, <2>1 DEF DataInv
  <2>2. ASSUME NEW c \in Bufs, c # b, buf[c].valid \/ bpins[c] = 1
        PROVE  /\ buf[c].block # want[p] /\ buf[c].block \in BufBlocks
               /\ latest'[buf[c].block] = latest[buf[c].block] /\ safe'[buf[c].block] = safe[buf[c].block]
    <3>1. buf[c].block # Nil
      BY <1>1, <2>2 DEF DataInv
    <3>2. buf[c].block # want[p] /\ buf[c].block \in BufBlocks
      BY <1>1, <1>2, <2>2, <3>1 DEF UniqueInv, BufType, BufRecord
    <3> QED
      BY <1>3, <3>2
  <2>3. ASSUME NEW c \in Bufs, buf'[c].valid PROVE buf'[c].block # Nil /\ Within(c)'
    <3>1. CASE c = b
      BY <1>1, <1>2, <1>3, <3>1 DEF Within
    <3>2. CASE c # b
      BY <1>1, <1>3, <2>2, <2>3, <3>2 DEF DataInv, Within
    <3> QED
      BY <3>1, <3>2
  <2>4. ASSUME NEW c \in Bufs, bpins'[c] = 1 PROVE buf'[c].valid /\ buf'[c].data = safe'[buf'[c].block]
    <3>1. CASE c = b
      BY <1>1, <1>2, <1>3, <2>4, <3>1 DEF DataInv
    <3>2. CASE c # b
      BY <1>1, <1>3, <2>2, <2>4, <3>2 DEF DataInv
    <3> QED
      BY <3>1, <3>2
  <2>5. ASSUME NEW j \in BufBlocks PROVE disk'[j] = safe'[j] \/ Kept(j)'
    <3>1. CASE j = want[p]
      BY <1>3, <3>1
    <3>2. CASE j # want[p]
      BY <1>1, <1>3, <3>2 DEF DataInv, Kept
    <3> QED
      BY <3>1, <3>2
  <2> QED
    BY <2>1, <2>3, <2>4, <2>5 DEF DataInv
<1>8. FullInv'
  <2>1. \A c \in Bufs : Using(c)' = Using(c)
    BY <1>3 DEF Using
  <2> QED
    BY <1>1, <1>3, <2>1 DEF FullInv
<1> QED
  BY <1>1, <1>3, <1>4, <1>5, <1>6, <1>7, <1>8 DEF BufInv

\* Bpin preserves the invariant.
LEMMA BpinStep ==
    ASSUME BufInv, NEW p \in BufUsers, Bpin(p)
    PROVE  BufInv'
<1>1. BufType /\ ListInv /\ UseInv /\ UniqueInv /\ RefInv /\ HolderInv /\ DataInv /\ FullInv
      /\ Nil \notin BufBlocks \union Bufs \union BufUsers
  BY CacheAssumption DEF BufInv
<1> DEFINE b == mine[p]
<1>2. bpc[p] # "out" /\ b \in Bufs /\ want[p] \in BufBlocks /\ buf[b].block = want[p] /\ buf[b] \in BufRecord
  BY <1>1 DEF Bpin, UseInv, BufType
<1> HIDE DEF b
<1>3. /\ lru' = lru /\ want' = want /\ mine' = mine /\ bpc' = bpc /\ disk' = disk
      /\ noBufs' = noBufs /\ ~noBufs /\ bpc[p] = "hold" /\ bpins[b] = 0
      /\ latest'[want[p]] = buf[b].data /\ \A k \in BufBlocks : k # want[p] => latest'[k] = latest[k]
      /\ safe'[want[p]] = buf[b].data /\ \A k \in BufBlocks : k # want[p] => safe'[k] = safe[k]
      /\ latest' \in [BufBlocks -> BufValues] /\ safe' \in [BufBlocks -> BufValues]
      /\ buf'[b].ref = buf[b].ref + 1 /\ \A c \in Bufs : c # b => buf'[c].ref = buf[c].ref
      /\ \A c \in Bufs : /\ buf'[c].block = buf[c].block /\ buf'[c].holder = buf[c].holder
                         /\ buf'[c].data = buf[c].data /\ buf'[c].valid = buf[c].valid
      /\ bpins'[b] = 1 /\ \A c \in Bufs : c # b => bpins'[c] = bpins[c]
      /\ Cardinality(Pinned) < MaxPins
  BY <1>1, <1>2 DEF Bpin, Saved, BufType, BufRecord, Pinned, b
<1>4. BufType'
  <2>1. buf[b].ref + 1 \in Nat
    <3>1. buf[b].ref \in Nat
      BY <1>2, RecordFields
    <3> QED
      BY <3>1
  <2>2. [buf[b] EXCEPT !.ref = @ + 1] \in BufRecord
    BY <1>2, <2>1, RecordFields
  <2>3. buf' \in [Bufs -> BufRecord]
    BY <1>1, <2>2 DEF Bpin, BufType, b
  <2>4. bpins' \in [Bufs -> {0, 1}]
    BY <1>1, <1>3 DEF Bpin, BufType, b
  <2> QED
    BY <1>1, <1>3, <2>3, <2>4 DEF BufType
<1>5. ListInv' /\ UniqueInv' /\ UseInv' /\ HolderInv'
  BY <1>1, <1>3 DEF ListInv, UniqueInv, UseInv, HolderInv
<1>6. RefInv'
  <2>1. \A c \in Bufs : Using(c)' = Using(c)
    BY <1>3 DEF Using
  <2>2. b \notin Pinned /\ Pinned' = Pinned \union {b}
    BY <1>2, <1>3 DEF Pinned
  <2>3. IsFiniteSet(Pinned) /\ Cardinality(Pinned) \in Nat
    BY CacheAssumption, FS_Subset, FS_CardinalityType DEF Pinned
  <2>4. Cardinality(Pinned') = Cardinality(Pinned) + 1
    BY <2>2, <2>3, FS_AddElement
  <2>5. Cardinality(Pinned') <= MaxPins
    BY <1>3, <2>3, <2>4, CacheAssumption
  <2>6. Using(b) \in SUBSET BufUsers
    BY DEF Using
  <2>7. Cardinality(Using(b)) \in Nat
    BY <2>6, UsersFinite
  <2>8. buf[b].ref = Cardinality(Using(b)) + bpins[b]
    BY <1>1, <1>2 DEF RefInv
  <2>9. buf'[b].ref = Cardinality(Using(b)) + bpins'[b]
    BY <1>3, <2>7, <2>8
  <2>10. \A c \in Bufs : buf'[c].ref = Cardinality(Using(c)') + bpins'[c]
    BY <1>1, <1>3, <2>1, <2>9 DEF RefInv
  <2> QED
    BY <2>5, <2>10 DEF RefInv
<1>7. DataInv'
  <2>1. ASSUME NEW q \in BufUsers, bpc'[q] = "hold" PROVE buf'[mine'[q]].valid
    BY <1>1, <1>3, <2>1 DEF DataInv, UseInv
  <2>2. ASSUME NEW c \in Bufs, c # b, buf[c].valid \/ bpins[c] = 1
        PROVE  /\ buf[c].block # want[p] /\ buf[c].block \in BufBlocks
               /\ latest'[buf[c].block] = latest[buf[c].block] /\ safe'[buf[c].block] = safe[buf[c].block]
    <3>1. buf[c].block # Nil
      BY <1>1, <2>2 DEF DataInv
    <3>2. buf[c].block # want[p] /\ buf[c].block \in BufBlocks
      BY <1>1, <1>2, <2>2, <3>1 DEF UniqueInv, BufType, BufRecord
    <3> QED
      BY <1>3, <3>2
  <2>3. ASSUME NEW c \in Bufs, buf'[c].valid PROVE buf'[c].block # Nil /\ Within(c)'
    <3>1. CASE c = b
      BY <1>1, <1>2, <1>3, <3>1 DEF Within
    <3>2. CASE c # b
      BY <1>1, <1>3, <2>2, <2>3, <3>2 DEF DataInv, Within
    <3> QED
      BY <3>1, <3>2
  <2>4. ASSUME NEW c \in Bufs, bpins'[c] = 1 PROVE buf'[c].valid /\ buf'[c].data = safe'[buf'[c].block]
    <3>1. CASE c = b
      BY <1>1, <1>2, <1>3, <2>4, <3>1 DEF DataInv, b
    <3>2. CASE c # b
      BY <1>1, <1>3, <2>2, <2>4, <3>2 DEF DataInv
    <3> QED
      BY <3>1, <3>2
  <2>5. ASSUME NEW j \in BufBlocks PROVE disk'[j] = safe'[j] \/ Kept(j)'
    <3>1. CASE j = want[p]
      BY <1>2, <1>3, <3>1 DEF Kept
    <3>2. CASE j # want[p]
      BY <1>1, <1>3, <3>2 DEF DataInv, Kept
    <3> QED
      BY <3>1, <3>2
  <2> QED
    BY <2>1, <2>3, <2>4, <2>5 DEF DataInv
<1>8. FullInv'
  BY <1>3 DEF FullInv
<1> QED
  BY <1>1, <1>3, <1>4, <1>5, <1>6, <1>7, <1>8 DEF BufInv

\* Bunpin preserves the invariant.
LEMMA BunpinStep ==
    ASSUME BufInv, NEW p \in BufUsers, Bunpin(p)
    PROVE  BufInv'
<1>1. BufType /\ ListInv /\ UseInv /\ UniqueInv /\ RefInv /\ HolderInv /\ DataInv /\ FullInv
      /\ Nil \notin BufBlocks \union Bufs \union BufUsers
  BY CacheAssumption DEF BufInv
<1> DEFINE b == mine[p]
<1>2. bpc[p] # "out" /\ b \in Bufs /\ want[p] \in BufBlocks /\ buf[b].block = want[p] /\ buf[b] \in BufRecord
  BY <1>1 DEF Bunpin, UseInv, BufType
<1> HIDE DEF b
<1>3. /\ lru' = lru /\ want' = want /\ mine' = mine /\ bpc' = bpc /\ disk' = disk
      /\ noBufs' = noBufs /\ ~noBufs /\ latest' = latest /\ safe' = safe /\ bpc[p] = "hold" /\ bpins[b] = 1
      /\ disk[want[p]] = buf[b].data
      /\ buf'[b].ref = buf[b].ref - 1 /\ \A c \in Bufs : c # b => buf'[c].ref = buf[c].ref
      /\ \A c \in Bufs : /\ buf'[c].block = buf[c].block /\ buf'[c].holder = buf[c].holder
                         /\ buf'[c].data = buf[c].data /\ buf'[c].valid = buf[c].valid
      /\ bpins'[b] = 0 /\ \A c \in Bufs : c # b => bpins'[c] = bpins[c]
  BY <1>1, <1>2 DEF Bunpin, BufType, BufRecord, b
<1>4. RefInv' /\ buf[b].ref - 1 \in Nat
  <2>1. \A c \in Bufs : Using(c)' = Using(c)
    BY <1>3 DEF Using
  <2>2. Pinned' \in SUBSET Pinned
    BY <1>3 DEF Pinned
  <2>3. IsFiniteSet(Pinned) /\ Cardinality(Pinned) \in Nat
    BY CacheAssumption, FS_Subset, FS_CardinalityType DEF Pinned
  <2>4. Cardinality(Pinned') <= Cardinality(Pinned) /\ Cardinality(Pinned') \in Nat
    BY <2>2, <2>3, FS_Subset, FS_CardinalityType
  <2>5. Cardinality(Pinned') <= MaxPins
    BY <1>1, <2>3, <2>4, CacheAssumption DEF RefInv
  <2>6. Using(b) \in SUBSET BufUsers
    BY DEF Using
  <2>7. Cardinality(Using(b)) \in Nat
    BY <2>6, UsersFinite
  <2>8. buf[b].ref = Cardinality(Using(b)) + bpins[b]
    BY <1>1, <1>2 DEF RefInv
  <2>9. buf'[b].ref = Cardinality(Using(b)) + bpins'[b] /\ buf[b].ref - 1 \in Nat
    BY <1>3, <2>7, <2>8
  <2>10. \A c \in Bufs : buf'[c].ref = Cardinality(Using(c)') + bpins'[c]
    BY <1>1, <1>3, <2>1, <2>9 DEF RefInv
  <2> QED
    BY <2>5, <2>9, <2>10 DEF RefInv
<1>5. BufType'
  <2>1. [buf[b] EXCEPT !.ref = @ - 1] \in BufRecord
    BY <1>2, <1>4, RecordFields
  <2>2. buf' \in [Bufs -> BufRecord]
    BY <1>1, <2>1 DEF Bunpin, BufType, b
  <2>3. bpins' \in [Bufs -> {0, 1}]
    BY <1>1, <1>3 DEF Bunpin, BufType, b
  <2> QED
    BY <1>1, <1>3, <2>2, <2>3 DEF BufType
<1>6. ListInv' /\ UniqueInv' /\ UseInv' /\ HolderInv'
  BY <1>1, <1>3 DEF ListInv, UniqueInv, UseInv, HolderInv
<1>7. DataInv'
  <2>1. disk[want[p]] = safe[want[p]]
    BY <1>1, <1>2, <1>3 DEF DataInv
  <2>2. ASSUME NEW j \in BufBlocks PROVE disk'[j] = safe'[j] \/ Kept(j)'
    <3>1. CASE j = want[p]
      BY <1>3, <2>1, <3>1
    <3>2. CASE j # want[p]
      BY <1>1, <1>2, <1>3, <3>2 DEF DataInv, Kept
    <3> QED
      BY <3>1, <3>2
  <2>3. \A q \in BufUsers : bpc'[q] = "hold" => buf'[mine'[q]].valid
    BY <1>1, <1>3 DEF DataInv, UseInv
  <2>4. \A c \in Bufs : buf'[c].valid => buf'[c].block # Nil /\ Within(c)'
    BY <1>1, <1>3 DEF DataInv, Within
  <2>5. \A c \in Bufs : bpins'[c] = 1 => buf'[c].valid /\ buf'[c].data = safe'[buf'[c].block]
    BY <1>1, <1>3 DEF DataInv
  <2> QED
    BY <2>2, <2>3, <2>4, <2>5 DEF DataInv
<1>8. FullInv'
  BY <1>3 DEF FullInv
<1> QED
  BY <1>1, <1>3, <1>4, <1>5, <1>6, <1>7, <1>8 DEF BufInv

\* ReleaseSleep preserves the invariant.
LEMMA ReleaseSleepStep ==
    ASSUME BufInv, NEW p \in BufUsers, ReleaseSleep(p)
    PROVE  BufInv'
<1>1. BufType /\ ListInv /\ UseInv /\ UniqueInv /\ RefInv /\ HolderInv /\ DataInv /\ FullInv
      /\ Nil \notin BufBlocks \union Bufs \union BufUsers
  BY CacheAssumption DEF BufInv
<1> DEFINE b == mine[p]
<1>2. bpc[p] # "out" /\ b \in Bufs /\ want[p] \in BufBlocks /\ buf[b].block = want[p] /\ buf[b] \in BufRecord
  BY <1>1 DEF ReleaseSleep, UseInv, BufType
<1> HIDE DEF b
<1>3. /\ lru' = lru /\ want' = want /\ mine' = mine /\ bpins' = bpins /\ disk' = disk
      /\ noBufs' = noBufs /\ latest' = latest /\ safe' = safe /\ bpc[p] = "hold"
      /\ buf'[b].holder = Nil /\ \A c \in Bufs : c # b => buf'[c].holder = buf[c].holder
      /\ \A c \in Bufs : /\ buf'[c].block = buf[c].block /\ buf'[c].ref = buf[c].ref
                         /\ buf'[c].data = buf[c].data /\ buf'[c].valid = buf[c].valid
      /\ bpc'[p] = "put"
      /\ \A q \in BufUsers : q # p => bpc'[q] = IF bpc[q] = "asleep" /\ mine[q] = b THEN "woken" ELSE bpc[q]
      /\ bpc' \in [BufUsers -> {"out", "lock", "asleep", "woken", "fill", "hold", "put"}]
  BY <1>1, <1>2 DEF ReleaseSleep, WakeBuf, BufType, BufRecord, b
<1>4. BufType'
  <2>1. [buf[b] EXCEPT !.holder = Nil] \in BufRecord
    BY <1>2, RecordFields
  <2>2. buf' \in [Bufs -> BufRecord]
    BY <1>1, <2>1 DEF ReleaseSleep, BufType, b
  <2> QED
    BY <1>1, <1>3, <2>2 DEF BufType
<1>5. ListInv' /\ UniqueInv'
  BY <1>1, <1>3 DEF ListInv, UniqueInv
<1>6. UseInv'
  BY <1>1, <1>2, <1>3 DEF UseInv
<1>7. RefInv'
  <2>1. Pinned' = Pinned /\ \A c \in Bufs : Using(c)' = Using(c)
    BY <1>2, <1>3 DEF Pinned, Using
  <2> QED
    BY <1>1, <1>3, <2>1 DEF RefInv
<1>8. HolderInv'
  <2>1. mine[p] = b /\ buf[b].holder = p
    BY <1>1, <1>2, <1>3 DEF HolderInv, b
  <2>2. ASSUME NEW c \in Bufs, NEW q \in BufUsers
        PROVE  buf'[c].holder = q <=> bpc'[q] \in {"fill", "hold"} /\ mine'[q] = c
    <3>1. buf[c].holder = q <=> bpc[q] \in {"fill", "hold"} /\ mine[q] = c
      BY <1>1 DEF HolderInv
    <3>2. Nil # q
      BY <1>1
    <3> QED
      BY <1>3, <2>1, <3>1, <3>2
  <2>3. ASSUME NEW q \in BufUsers, bpc'[q] = "asleep" PROVE buf'[mine'[q]].holder # Nil
    <3>1. q # p /\ bpc[q] = "asleep" /\ mine[q] # b
      BY <1>3, <2>3
    <3> QED
      BY <1>1, <1>3, <3>1 DEF HolderInv, UseInv
  <2> QED
    BY <2>2, <2>3 DEF HolderInv
<1>9. DataInv'
  <2>1. \A q \in BufUsers : bpc'[q] = "hold" => buf'[mine'[q]].valid
    BY <1>1, <1>3 DEF DataInv, UseInv
  <2>2. \A c \in Bufs : buf'[c].valid => buf'[c].block # Nil /\ Within(c)'
    BY <1>1, <1>3 DEF DataInv, Within
  <2>3. \A c \in Bufs : bpins'[c] = 1 => buf'[c].valid /\ buf'[c].data = safe'[buf'[c].block]
    BY <1>1, <1>3 DEF DataInv
  <2>4. \A j \in BufBlocks : disk'[j] = safe'[j] \/ Kept(j)'
    BY <1>1, <1>3 DEF DataInv, Kept
  <2> QED
    BY <2>1, <2>2, <2>3, <2>4 DEF DataInv
<1>10. FullInv'
  <2>1. \A c \in Bufs : Using(c)' = Using(c)
    BY <1>2, <1>3 DEF Using
  <2> QED
    BY <1>1, <1>3, <2>1 DEF FullInv
<1> QED
  BY <1>1, <1>3, <1>4, <1>5, <1>6, <1>7, <1>8, <1>9, <1>10 DEF BufInv

\* Brelse preserves the invariant.
LEMMA BrelseStep ==
    ASSUME BufInv, NEW p \in BufUsers, Brelse(p)
    PROVE  BufInv'
<1>1. BufType /\ ListInv /\ UseInv /\ UniqueInv /\ RefInv /\ HolderInv /\ DataInv /\ FullInv
      /\ Nil \notin BufBlocks \union Bufs \union BufUsers
  BY CacheAssumption DEF BufInv
<1>0. PICK b \in Bufs : b = mine[p]
  BY <1>1 DEF Brelse, UseInv
<1>2. bpc[p] # "out" /\ want[p] \in BufBlocks /\ buf[b].block = want[p] /\ buf[b] \in BufRecord
  BY <1>0, <1>1 DEF Brelse, UseInv, BufType
<1>3. /\ bpins' = bpins /\ disk' = disk /\ noBufs' = noBufs /\ ~noBufs /\ latest' = latest /\ safe' = safe /\ bpc[p] = "put"
      /\ buf'[b].ref = buf[b].ref - 1 /\ \A c \in Bufs : c # b => buf'[c].ref = buf[c].ref
      /\ \A c \in Bufs : /\ buf'[c].block = buf[c].block /\ buf'[c].holder = buf[c].holder
                         /\ buf'[c].data = buf[c].data /\ buf'[c].valid = buf[c].valid
      /\ bpc'[p] = "out" /\ \A q \in BufUsers : q # p => bpc'[q] = bpc[q]
      /\ mine'[p] = Nil /\ \A q \in BufUsers : q # p => mine'[q] = mine[q]
      /\ want'[p] = Nil /\ \A q \in BufUsers : q # p => want'[q] = want[q]
      /\ lru' = lru \/ lru' = Touch(b)
  BY <1>0, <1>1, <1>2 DEF Brelse, BufType, BufRecord
<1>4. RefInv' /\ buf[b].ref - 1 \in Nat
  <2>1. p \in Using(b) /\ Using(b)' = Using(b) \ {p}
    BY <1>0, <1>1, <1>2, <1>3 DEF Using
  <2>2. \A c \in Bufs : c # b => Using(c)' = Using(c)
    BY <1>0, <1>1, <1>3 DEF Using
  <2>3. Using(b) \in SUBSET BufUsers
    BY DEF Using
  <2>4. IsFiniteSet(Using(b)) /\ Cardinality(Using(b)) \in Nat
    BY <2>3, UsersFinite
  <2>5. Cardinality(Using(b)') = Cardinality(Using(b)) - 1
    BY <2>1, <2>4, FS_RemoveElement
  <2>6. Cardinality(Using(b)') \in Nat
    <3>1. Using(b)' \in SUBSET BufUsers
      BY <2>1, <2>3
    <3> QED
      BY <3>1, UsersFinite
  <2>7. buf[b].ref = Cardinality(Using(b)) + bpins[b] /\ bpins[b] \in {0, 1}
    BY <1>1, <1>2 DEF RefInv, BufType
  <2>8. buf'[b].ref = Cardinality(Using(b)') + bpins'[b] /\ buf[b].ref - 1 \in Nat
    BY <1>3, <2>4, <2>5, <2>6, <2>7
  <2>9. \A c \in Bufs : c # b => buf'[c].ref = Cardinality(Using(c)') + bpins'[c]
    BY <1>1, <1>3, <2>2 DEF RefInv
  <2>10. \A c \in Bufs : buf'[c].ref = Cardinality(Using(c)') + bpins'[c]
    BY <2>8, <2>9
  <2>11. Pinned' = Pinned
    BY <1>3 DEF Pinned
  <2> QED
    BY <1>1, <2>8, <2>10, <2>11 DEF RefInv
<1>5. Touch(b) \in Seq(Bufs) /\ \A c \in Bufs : \E i \in DOMAIN Touch(b) : Touch(b)[i] = c
  BY <1>1, <1>2, TouchKeeps
<1>6. BufType'
  <2>1. [buf[b] EXCEPT !.ref = @ - 1] \in BufRecord
    BY <1>2, <1>4, RecordFields
  <2>2. buf' \in [Bufs -> BufRecord]
    BY <1>0, <1>1, <2>1 DEF Brelse, BufType
  <2>3. bpc' \in [BufUsers -> {"out", "lock", "asleep", "woken", "fill", "hold", "put"}]
    BY <1>1 DEF Brelse, BufType
  <2>4. want' \in [BufUsers -> BufBlocks \union {Nil}] /\ mine' \in [BufUsers -> Bufs \union {Nil}]
    BY <1>1 DEF Brelse, BufType
  <2>5. lru' \in Seq(Bufs)
    BY <1>1, <1>3, <1>5 DEF BufType
  <2> QED
    BY <1>1, <1>3, <2>2, <2>3, <2>4, <2>5 DEF BufType
<1>7. ListInv' /\ UniqueInv'
  BY <1>1, <1>3, <1>5 DEF ListInv, UniqueInv
<1>8. UseInv'
  BY <1>1, <1>3 DEF UseInv
<1>9. HolderInv'
  <2>1. ASSUME NEW c \in Bufs, NEW q \in BufUsers
        PROVE  buf'[c].holder = q <=> bpc'[q] \in {"fill", "hold"} /\ mine'[q] = c
    BY <1>1, <1>3 DEF HolderInv
  <2>2. ASSUME NEW q \in BufUsers, bpc'[q] = "asleep" PROVE buf'[mine'[q]].holder # Nil
    BY <1>1, <1>3, <2>2 DEF HolderInv, UseInv
  <2> QED
    BY <2>1, <2>2 DEF HolderInv
<1>10. DataInv'
  <2>1. \A q \in BufUsers : bpc'[q] = "hold" => buf'[mine'[q]].valid
    BY <1>1, <1>3 DEF DataInv, UseInv
  <2>2. \A c \in Bufs : buf'[c].valid => buf'[c].block # Nil /\ Within(c)'
    BY <1>1, <1>3 DEF DataInv, Within
  <2>3. \A c \in Bufs : bpins'[c] = 1 => buf'[c].valid /\ buf'[c].data = safe'[buf'[c].block]
    BY <1>1, <1>3 DEF DataInv
  <2>4. \A j \in BufBlocks : disk'[j] = safe'[j] \/ Kept(j)'
    BY <1>1, <1>3 DEF DataInv, Kept
  <2> QED
    BY <2>1, <2>2, <2>3, <2>4 DEF DataInv
<1>11. FullInv'
  BY <1>3 DEF FullInv
<1> QED
  BY <1>1, <1>3, <1>4, <1>6, <1>7, <1>8, <1>9, <1>10, <1>11 DEF BufInv

-----------------------------------------------------------------------------
(* The theorems.                                                             *)

\* Every step of the cache preserves the invariant.
LEMMA BufNextKeeps == BufInv /\ [BufNext]_bufVars => BufInv'
<1> SUFFICES ASSUME BufInv, [BufNext]_bufVars PROVE BufInv'
  OBVIOUS
<1>1. CASE UNCHANGED bufVars
  BY <1>1 DEF bufVars, BufInv, BufType, ListInv, UseInv, UniqueInv, RefInv, Using, Pinned, HolderInv, DataInv,
              Within, Kept, FullInv
<1>2. ASSUME NEW p \in BufUsers, NEW k \in BufBlocks, Bget(p, k) PROVE BufInv'
  BY <1>2, BgetStep
<1>3. ASSUME NEW p \in BufUsers, NEW v \in BufValues, ChangeData(p, v) PROVE BufInv'
  BY <1>3, ChangeDataStep
<1>4. ASSUME NEW p \in BufUsers, BufStep(p) PROVE BufInv'
  BY <1>4, AcquireSleepStep, BreadStep, BwriteStep, BpinStep, BunpinStep, ReleaseSleepStep, BrelseStep DEF BufStep
<1> QED
  BY <1>1, <1>2, <1>3, <1>4 DEF BufNext

\* BufInv is an invariant of the buffer cache (bget, bread, bwrite, bpin,
\* bunpin and brelse in any interleaving).
THEOREM BufInvariant == BufSpec => []BufInv
<1>1. BufInit => BufInv
  BY BufInitHolds
<1> QED
  BY <1>1, BufNextKeeps, PTL DEF BufSpec

\* The user of a buffer sees what the last user of its block left, or what was
\* written or pinned before that: bget never recycles a buffer that is in use
\* or that is pinned, whatever a user does with its buffer before brelse.
THEOREM CacheCoherent == BufSpec => []ReadsLatest
<1>1. BufInv => ReadsLatest
  <2> SUFFICES ASSUME BufInv PROVE ReadsLatest
    OBVIOUS
  <2>1. UniqueInv /\ UseInv /\ DataInv
    BY DEF BufInv
  <2>2. ASSUME NEW p \in BufUsers, bpc[p] = "hold" PROVE buf[mine[p]].data \in {latest[want[p]], safe[want[p]]}
    BY <2>1, <2>2 DEF UseInv, DataInv, Within
  <2> QED
    BY <2>1, <2>2 DEF ReadsLatest, UniqueInv, UseInv
<1> QED
  BY <1>1, BufInvariant, PTL

\* bget panics only if every buffer is pinned or has a user, for any number of
\* buffers, users and pins; and who sleeps in acquiresleep waits for a process
\* that holds the lock.
THEOREM BuffersNeverLost == BufSpec => []BufferObtained
<1>1. BufInv => BufferObtained
  <2> SUFFICES ASSUME BufInv PROVE BufferObtained
    OBVIOUS
  <2>1. HolderInv /\ FullInv
    BY DEF BufInv
  <2>2. ASSUME NEW b \in Bufs, noBufs PROVE bpins[b] > 0 \/ \E p \in BufUsers : bpc[p] # "out" /\ mine[p] = b
    BY <2>1, <2>2 DEF FullInv, Using
  <2> QED
    BY <2>1, <2>2 DEF HolderInv, BufferObtained
<1> QED
  BY <1>1, BufInvariant, PTL

-----------------------------------------------------------------------------
(* The contents of files.                                                    *)

\* The places of an inode that hold block numbers: the direct blocks, the
\* indirect block (NDIRECT), then the entries of the indirect block.
Places == 0 .. MAXFILE
PlaceOf(bn) == IF bn < NDIRECT THEN bn ELSE bn + 1
Place(bl, a, k) ==
    IF k <= NDIRECT THEN a[k] ELSE IF a[NDIRECT] = 0 THEN 0 ELSE bl[a[NDIRECT]][k - NDIRECT - 1]
PlaceMap(bl, ad) == [i \in Nodes |-> [k \in Places |-> Place(bl, ad[i], k)]]
Addrs == [i \in Nodes |-> node[i].addrs]

LogIds == {"bitmap", "block"} \X Nat
BlockData == [DataBlocks -> [0 .. Words - 1 -> Nat]]
AddrType == [0 .. NDIRECT -> Nat]
WorkType == [used : SUBSET DataBlocks, blk : BlockData, addrs : AddrType, logged : SUBSET LogIds, got : Nat]
IoType == [pc : {"user", "chunk", "write", "update"}, f : OpenFiles \union {NoWriter}, left : Nat, n : Nat,
           tot : Nat, at : Nat, logged : SUBSET LogIds]

BlockType ==
    /\ used \subseteq DataBlocks /\ blk \in BlockData
    /\ node \in [Nodes -> [size : Nat, addrs : AddrType]] /\ dnode \in [Nodes -> [size : Nat, addrs : AddrType]]
    /\ nlk \in [Nodes -> IoProcs \union {NoWriter}] /\ off \in [OpenFiles -> Nat]
    /\ io \in [IoProcs -> IoType] /\ ios \in Nat
    /\ content \in [Nodes -> Seq(SUBSET Nat)] /\ spans \subseteq OpenFiles \X Nat \X Nat \X Nat

\* The blocks in U are in one place each.
Owned(U, V) ==
    /\ \A i \in Nodes : \A k \in Places : V[i][k] \in U \union {0}
    /\ \A i, j \in Nodes : \A k, l \in Places : V[i][k] = V[j][l] /\ V[i][k] # 0 => i = j /\ k = l
    /\ \A b \in U : \E i \in Nodes : \E k \in Places : V[i][k] = b
OwnInv == Owned(used, PlaceMap(blk, Addrs)) /\ bpanic = FALSE

\* A process holds the lock of its inode exactly during a turn of writei, and
\* the offset it read is then still the one of the open file.
Writing(p) == io[p].pc \in {"write", "update"}
LockInv ==
    /\ \A p \in IoProcs : io[p].pc # "user" => io[p].f \in OpenFiles
    /\ \A p \in IoProcs : Writing(p) =>
        /\ nlk[Ip(p)] = p /\ io[p].at = off[File(p)] /\ io[p].at <= node[Ip(p)].size
        /\ io[p].tot <= io[p].n /\ io[p].n <= ChunkMax /\ io[p].at + io[p].n <= MAXFILE * BSIZE
    /\ \A i \in Nodes : \A p \in IoProcs : nlk[i] = p => Writing(p) /\ Ip(p) = i

\* Every chunk written lies below the offset.
SpanInv ==
    /\ \A s \in spans : s[2] <= s[3] /\ s[3] < off[s[1]]
    /\ SharedWritesDisjoint

\* Every byte up to the size, or to the end of the turns made, is in the block
\* that the inode names for it.
Holds(bl, a, c) ==
    \A j \in 0 .. Len(c) - 1 :
        LET b == Place(bl, a, PlaceOf(j \div BSIZE)) IN b # 0 /\ bl[b][j % BSIZE] \in c[j + 1]
ContentInv ==
    \A i \in Nodes :
        /\ Len(content[i]) = IF Unlocked(i) THEN node[i].size ELSE Size(i, io[nlk[i]].at + io[nlk[i]].tot)
        /\ Len(content[i]) <= MAXFILE * BSIZE
        /\ Holds(blk, node[i].addrs, content[i])
        /\ Unlocked(i) => dnode[i] = node[i]

\* What a chunk has logged: the indirect block with its bit, and two blocks for
\* each turn, but only one for the first if it starts inside a block, which is
\* there already.
Indirect(a) == IF a[NDIRECT] = 0 THEN {} ELSE {<<"block", a[NDIRECT]>>, <<"bitmap", a[NDIRECT] \div BPB>>}
Turns(at, tot) == IF tot = 0 THEN 0 ELSE ((at % BSIZE) + tot + BSIZE - 1) \div BSIZE
Spared(at, tot) == IF tot = 0 \/ at % BSIZE = 0 THEN 0 ELSE 1
Budget(c, a) ==
    /\ IsFiniteSet(c.logged)
    /\ Cardinality(c.logged \ Indirect(a)) + 3 <= OpBlocks
    /\ c.pc = "write" => /\ Cardinality(c.logged \ Indirect(a)) + Spared(c.at, c.tot) <= 2 * Turns(c.at, c.tot)
                         /\ c.tot = 0 \/ c.tot = c.n \/ (c.at + c.tot) % BSIZE = 0
BudgetInv == \A p \in IoProcs : IF Writing(p) THEN Budget(io[p], node[Ip(p)].addrs) ELSE io[p].logged = {}

BlockInv == BlockType /\ OwnInv /\ LockInv /\ SpanInv /\ ContentInv /\ BudgetInv

\* What the log and the disk have: the indirect blocks of the buffers, and at
\* every place of a file one of the bytes it may hold.
SavedInv ==
    /\ saved \in BlockData
    /\ \A i \in Nodes : node[i].addrs[NDIRECT] # 0 => saved[node[i].addrs[NDIRECT]] = blk[node[i].addrs[NDIRECT]]
    /\ \A i \in Nodes : Holds(saved, node[i].addrs, content[i])

FileInv == BlockInv /\ SavedInv

-----------------------------------------------------------------------------
\* Division with remainder.
LEMMA BlockDivMod ==
    ASSUME NEW a \in Nat, NEW n \in Nat \ {0}
    PROVE  /\ a \div n \in Nat /\ a % n \in Nat /\ a % n < n
           /\ a = n * (a \div n) + (a % n)
OBVIOUS

\* A quotient and a remainder are recovered from their number.
LEMMA BlockDivModCompose ==
    ASSUME NEW n \in Nat \ {0}, NEW q \in Nat, NEW r \in Nat, r < n
    PROVE  (n * q + r) \div n = q /\ (n * q + r) % n = r
<1>1. \A m \in Nat : (m < n /\ n * q + r = n * q + m) => m = r
  OBVIOUS
<1> QED
  OBVIOUS

\* The places of an inode: NDIRECT + 1 of its own and NINDIRECT entries.
LEMMA PositionsTyped ==
    /\ BSIZE \in Nat \ {0} /\ NDIRECT \in Nat \ {0} /\ NINDIRECT \in Nat \ {0} /\ MAXFILE = NDIRECT + NINDIRECT
    /\ MAXFILE \in Nat /\ Words \in Nat /\ BSIZE <= Words /\ NINDIRECT <= Words
    /\ \A k \in 0 .. NDIRECT : k \in Places
    /\ \A k \in Places : k > NDIRECT => k - NDIRECT - 1 \in 0 .. Words - 1
    /\ \A bn \in 0 .. MAXFILE - 1 : PlaceOf(bn) \in Places /\ PlaceOf(bn) # NDIRECT
    /\ NDIRECT \in Places
BY BlockAssumption DEF MAXFILE, Words, Places, PlaceOf

\* Every place holds a number.
LEMMA PlaceTyped ==
    ASSUME NEW bl \in BlockData, NEW a \in AddrType, a[NDIRECT] \in DataBlocks \union {0}, NEW k \in Places
    PROVE  Place(bl, a, k) \in Nat
<1>1. CASE k <= NDIRECT
  BY <1>1, PositionsTyped DEF Place, AddrType, Places
<1>2. CASE k > NDIRECT
  <2>1. k - NDIRECT - 1 \in 0 .. Words - 1
    BY <1>2, PositionsTyped
  <2>2. CASE a[NDIRECT] = 0
    BY <1>2, <2>2, PositionsTyped DEF Place, Places
  <2>3. CASE a[NDIRECT] # 0
    <3>1. Place(bl, a, k) = bl[a[NDIRECT]][k - NDIRECT - 1]
      BY <1>2, <2>3, PositionsTyped DEF Place, Places
    <3> QED
      BY <2>1, <2>3, <3>1 DEF BlockData
  <2> QED
    BY <2>2, <2>3
<1> QED
  BY <1>1, <1>2, PositionsTyped DEF Places

\* Block b in place k of inode i, the other places as they were.
Added(V, V2, i, k, b) == \A j \in Nodes : \A l \in Places : V2[j][l] = IF j = i /\ l = k THEN b ELSE V[j][l]

\* A fresh block in an empty place.
LEMMA OwnedAdd ==
    ASSUME NEW U, 0 \notin U, NEW V, NEW V2, Owned(U, V), NEW i \in Nodes, NEW k \in Places, NEW b, b \notin U, b # 0, V[i][k] = 0,
           Added(V, V2, i, k, b)
    PROVE  Owned(U \union {b}, V2)
<1>1. \A j \in Nodes : \A l \in Places : V2[j][l] \in U \union {b} \union {0}
  BY DEF Owned, Added
<1>2. \A j, m \in Nodes : \A l, n \in Places : V2[j][l] = V2[m][n] /\ V2[j][l] # 0 => j = m /\ l = n
  BY DEF Owned, Added
<1>3. V2[i][k] = b
  BY DEF Added
<1>4. \A c \in U : \E j \in Nodes : \E l \in Places : V2[j][l] = c
  <2> SUFFICES ASSUME NEW c \in U
               PROVE  \E j \in Nodes : \E l \in Places : V2[j][l] = c
    OBVIOUS
  <2>1. PICK j \in Nodes, l \in Places : V[j][l] = c
    BY DEF Owned
  <2> QED
    BY <2>1 DEF Added
<1> QED
  BY <1>1, <1>2, <1>3, <1>4 DEF Owned

\* The lowest free block is one of the free blocks.
LEMMA LowestBlock ==
    ASSUME NEW S \in SUBSET Nat, S # {}
    PROVE  (CHOOSE x \in S : \A y \in S : x <= y) \in S
<1>1. PICK x \in S : \A y \in S : ~(<<y, x>> \in OpToRel(<, Nat))
  BY NatLessThanWellFounded, WFMin
<1>2. ASSUME NEW y \in S PROVE x <= y
  <2>1. <<y, x>> \notin OpToRel(<, Nat)
    BY <1>1
  <2>2. y \in Nat /\ x \in Nat
    OBVIOUS
  <2>3. ~(y < x)
    BY <2>1, <2>2 DEF OpToRel
  <2> QED
    BY <2>2, <2>3
<1> QED
  BY <1>2

\* balloc takes a free block, zeroed, or reports that there is none.
LEMMA BallocEffect ==
    ASSUME NEW w \in WorkType
    PROVE  LET v == Balloc(w) IN
           /\ v \in WorkType
           /\ \/ /\ v.got = 0 /\ v.used = w.used /\ v.blk = w.blk /\ v.addrs = w.addrs /\ v.logged = w.logged
              \/ /\ v.got \in DataBlocks \ w.used /\ v.got # 0 /\ v.used = w.used \union {v.got}
                 /\ v.blk = [w.blk EXCEPT ![v.got] = ZeroBlock] /\ v.addrs = w.addrs
                 /\ v.logged = w.logged \union {<<"bitmap", v.got \div BPB>>, <<"block", v.got>>}
<1> DEFINE avail == DataBlocks \ w.used
           b == CHOOSE x \in avail : \A y \in avail : x <= y
<1>1. CASE avail = {}
  <2>1. Balloc(w) = [w EXCEPT !.got = 0]
    BY <1>1 DEF Balloc
  <2> QED
    BY <2>1 DEF WorkType
<1>2. CASE avail # {}
  <2>1. b \in avail /\ b \in Nat \ {0}
    BY <1>2, BlockAssumption, LowestBlock
  <2>2. Balloc(w) = [w EXCEPT !.got = b, !.used = @ \union {b}, !.blk = [@ EXCEPT ![b] = ZeroBlock],
                              !.logged = @ \union {<<"bitmap", b \div BPB>>, <<"block", b>>}]
    BY <1>2 DEF Balloc
  <2>3. b \div BPB \in Nat
    BY <2>1, BlockAssumption, BlockDivMod
  <2>4. ZeroBlock \in [0 .. Words - 1 -> Nat]
    BY DEF ZeroBlock
  <2>5. [w.blk EXCEPT ![b] = ZeroBlock] \in BlockData
    BY <2>1, <2>4 DEF WorkType, BlockData
  <2> HIDE DEF b
  <2>6. {<<"bitmap", b \div BPB>>, <<"block", b>>} \subseteq LogIds
    BY <2>1, <2>3 DEF LogIds
  <2>7. Balloc(w) \in WorkType
    <3> DEFINE v == Balloc(w)
    <3>1. v = [used |-> w.used \union {b}, blk |-> [w.blk EXCEPT ![b] = ZeroBlock], addrs |-> w.addrs,
               logged |-> w.logged \union {<<"bitmap", b \div BPB>>, <<"block", b>>}, got |-> b]
      BY <2>2 DEF WorkType
    <3>2. /\ w.used \union {b} \in SUBSET DataBlocks /\ w.addrs \in AddrType
          /\ w.logged \union {<<"bitmap", b \div BPB>>, <<"block", b>>} \in SUBSET LogIds
      BY <2>1, <2>6 DEF WorkType
    <3> QED
      BY <2>1, <2>5, <3>1, <3>2 DEF WorkType
  <2> QED
    BY <2>1, <2>2, <2>7 DEF WorkType
<1> QED
  BY <1>1, <1>2

\* Writing into a block that is no indirect block leaves the places alone.
LEMMA PlaceData ==
    ASSUME NEW bl, NEW bl2, NEW a \in AddrType, NEW k \in Places,
           a[NDIRECT] # 0 => bl2[a[NDIRECT]] = bl[a[NDIRECT]]
    PROVE  Place(bl2, a, k) = Place(bl, a, k)
BY DEF Place

\* One step of bmap for inode i: V are the places before, V2 after.  The blocks
\* that were in use keep their place and, indirect blocks aside, their bytes.
Step(w, v, i, ad, k) ==
    LET V == PlaceMap(w.blk, ad)
        V2 == PlaceMap(v.blk, [ad EXCEPT ![i] = v.addrs])
    IN /\ v \in WorkType /\ Owned(v.used, V2)
       /\ v.got = V2[i][k]
       /\ \A j \in Nodes : \A l \in Places : V[j][l] # 0 => V2[j][l] = V[j][l]
       /\ \A j \in Nodes : \A l \in Places : V2[j][l] # V[j][l] => j = i /\ l \in {k, NDIRECT}
       /\ \A j \in Nodes : \A l \in Places : l # NDIRECT /\ V[j][l] # 0 => v.blk[V[j][l]] = w.blk[V[j][l]]
       /\ v.logged \subseteq w.logged \union Indirect(v.addrs) \union
              (IF V[i][k] # 0 \/ v.got = 0 THEN {} ELSE {<<"bitmap", v.got \div BPB>>, <<"block", v.got>>})

\* The map of the places, place by place.
LEMMA MapValue ==
    ASSUME NEW bl, NEW ad, NEW j \in Nodes, NEW l \in Places
    PROVE  PlaceMap(bl, ad)[j][l] = Place(bl, ad[j], l)
BY DEF PlaceMap

\* In a map of owned blocks the indirect block of an inode is in use.
LEMMA IndirectUsed ==
    ASSUME NEW w \in WorkType, NEW ad \in [Nodes -> AddrType], Owned(w.used, PlaceMap(w.blk, ad)), NEW j \in Nodes
    PROVE  ad[j][NDIRECT] \in w.used \union {0} /\ PlaceMap(w.blk, ad)[j][NDIRECT] = ad[j][NDIRECT]
<1>1. PlaceMap(w.blk, ad)[j][NDIRECT] = ad[j][NDIRECT]
  BY PositionsTyped, MapValue DEF Place
<1> QED
  BY <1>1, PositionsTyped DEF Owned

\* A place among the addresses of the inode itself.
LEMMA DirectStep ==
    ASSUME NEW w \in WorkType, NEW ad \in [Nodes -> AddrType], NEW i \in Nodes, ad[i] = w.addrs,
           Owned(w.used, PlaceMap(w.blk, ad)), NEW k \in 0 .. NDIRECT
    PROVE  /\ Step(w, Direct(w, k), i, ad, k)
           /\ \A b \in w.used : Direct(w, k).blk[b] = w.blk[b]
<1> DEFINE V == PlaceMap(w.blk, ad)
           v == Direct(w, k)
           V2 == PlaceMap(v.blk, [ad EXCEPT ![i] = v.addrs])
<1>0. k \in Places /\ NDIRECT \in Places /\ w.used \subseteq DataBlocks /\ 0 \notin w.used
  BY PositionsTyped, BlockAssumption DEF WorkType
<1>1. V[i][k] = w.addrs[k]
  BY <1>0, MapValue, PositionsTyped DEF Place
<1>2. CASE w.addrs[k] # 0
  <2>1. v = [w EXCEPT !.got = w.addrs[k]]
    BY <1>2 DEF Direct
  <2>2. v \in WorkType /\ v.used = w.used /\ v.blk = w.blk /\ v.addrs = w.addrs /\ v.logged = w.logged /\ v.got = w.addrs[k]
    BY <2>1 DEF WorkType, AddrType
  <2>3. [ad EXCEPT ![i] = v.addrs] = ad
    BY <2>2
  <2> HIDE DEF v
  <2> QED
    BY <1>0, <1>1, <2>2, <2>3 DEF Step, v
<1>3. CASE w.addrs[k] = 0
  <2> DEFINE u == Balloc(w)
  <2>1. v = [u EXCEPT !.addrs[k] = u.got]
    BY <1>3 DEF Direct
  <2>2. CASE u.got = 0
    <3>1. u \in WorkType /\ u.used = w.used /\ u.blk = w.blk /\ u.addrs = w.addrs /\ u.logged = w.logged
      BY <2>2, BallocEffect
    <3> HIDE DEF u
    <3>2. [u.addrs EXCEPT ![k] = u.got] = w.addrs
      BY <1>3, <2>2, <3>1 DEF WorkType, AddrType
    <3>3. v \in WorkType /\ v.used = w.used /\ v.blk = w.blk /\ v.addrs = w.addrs /\ v.logged = w.logged /\ v.got = 0
      BY <2>1, <2>2, <3>1, <3>2 DEF WorkType
    <3>4. [ad EXCEPT ![i] = v.addrs] = ad
      BY <3>3
    <3> HIDE DEF v
    <3> QED
      BY <1>0, <1>1, <1>3, <3>3, <3>4 DEF Step, v
  <2>3. CASE u.got # 0
    <3>1. /\ u \in WorkType /\ u.got \in DataBlocks \ w.used /\ u.used = w.used \union {u.got}
          /\ u.blk = [w.blk EXCEPT ![u.got] = ZeroBlock] /\ u.addrs = w.addrs
          /\ u.logged = w.logged \union {<<"bitmap", u.got \div BPB>>, <<"block", u.got>>}
      BY <2>3, BallocEffect
    <3> HIDE DEF u
    <3> DEFINE b == u.got
    <3>2. [u.addrs EXCEPT ![k] = b] \in AddrType
      BY <3>1 DEF WorkType, AddrType
    <3>3. /\ v \in WorkType /\ v.used = w.used \union {b} /\ v.blk = [w.blk EXCEPT ![b] = ZeroBlock]
          /\ v.addrs = [w.addrs EXCEPT ![k] = b] /\ v.got = b
          /\ v.logged = w.logged \union {<<"bitmap", b \div BPB>>, <<"block", b>>}
      BY <2>1, <3>1, <3>2 DEF WorkType
    <3> HIDE DEF v
    <3>4. \A c \in w.used : v.blk[c] = w.blk[c]
      BY <1>0, <3>1, <3>3 DEF WorkType, BlockData
    <3> DEFINE ad2 == [ad EXCEPT ![i] = v.addrs]
    <3>5. ad2[i] = v.addrs /\ \A j \in Nodes : j # i => ad2[j] = ad[j]
      OBVIOUS
    <3>6. v.addrs[k] = b /\ \A l \in 0 .. NDIRECT : l # k => v.addrs[l] = w.addrs[l]
      BY <3>3 DEF WorkType, AddrType
    <3> HIDE DEF ad2
    <3>7. Added(V, V2, i, k, b)
      <4> SUFFICES ASSUME NEW j \in Nodes, NEW l \in Places
                   PROVE  V2[j][l] = IF j = i /\ l = k THEN b ELSE V[j][l]
        BY DEF Added
      <4>1. V2[j][l] = Place(v.blk, ad2[j], l) /\ V[j][l] = Place(w.blk, ad[j], l)
        BY DEF PlaceMap, ad2
      <4>2. CASE j # i
        <5>1. ad[j][NDIRECT] # 0 => v.blk[ad[j][NDIRECT]] = w.blk[ad[j][NDIRECT]]
          BY IndirectUsed, <3>4
        <5> QED
          BY <4>1, <4>2, <5>1, <3>5 DEF Place
      <4>3. CASE j = i /\ l <= NDIRECT
        BY <4>1, <4>3, <3>5, <3>6, PositionsTyped DEF Place, Places
      <4>4. CASE j = i /\ l > NDIRECT /\ k # NDIRECT
        <5>1. v.addrs[NDIRECT] = w.addrs[NDIRECT] /\ ~(l <= NDIRECT) /\ l # k
          BY <4>4, <3>6, PositionsTyped DEF Places
        <5>2. w.addrs[NDIRECT] # 0 => v.blk[w.addrs[NDIRECT]] = w.blk[w.addrs[NDIRECT]]
          BY IndirectUsed, <3>4
        <5> QED
          BY <4>1, <4>4, <5>1, <5>2, <3>5 DEF Place
      <4>5. CASE j = i /\ l > NDIRECT /\ k = NDIRECT
        <5>1. v.addrs[NDIRECT] = b /\ w.addrs[NDIRECT] = 0 /\ ~(l <= NDIRECT) /\ l # k
          BY <4>5, <3>6, <1>3, PositionsTyped DEF Places
        <5>2. v.blk[b] = ZeroBlock
          BY <3>1, <3>3 DEF WorkType, BlockData
        <5>3. ZeroBlock[l - NDIRECT - 1] = 0
          BY <4>5, PositionsTyped DEF ZeroBlock
        <5> QED
          BY <4>1, <4>5, <5>1, <5>2, <5>3, <3>5, <2>3 DEF Place
      <4> QED
        BY <4>2, <4>3, <4>4, <4>5, PositionsTyped DEF Places
    <3> HIDE DEF V, V2
    <3>8. Owned(v.used, V2)
      <4>1. Owned(w.used, V) /\ b \notin w.used /\ b # 0 /\ V[i][k] = 0
        BY <1>1, <1>3, <2>3, <3>1 DEF V
      <4>2. Owned(w.used \union {b}, V2)
        BY <1>0, <4>1, <3>7, OwnedAdd
      <4> QED
        BY <4>2, <3>3
    <3>9. \A j \in Nodes : \A l \in Places : V[j][l] # 0 => V[j][l] \in w.used
      BY DEF Owned, V
    <3>10. v.logged \subseteq w.logged \union {<<"bitmap", v.got \div BPB>>, <<"block", v.got>>} /\ V[i][k] = 0 /\ v.got # 0
      BY <1>1, <1>3, <2>3, <3>3
    <3>11. /\ v.got = V2[i][k]
           /\ \A j \in Nodes : \A l \in Places : V[j][l] # 0 => V2[j][l] = V[j][l]
           /\ \A j \in Nodes : \A l \in Places : V2[j][l] # V[j][l] => j = i /\ l \in {k, NDIRECT}
      BY <1>0, <3>3, <3>7, <3>10 DEF Added
    <3>12. \A j \in Nodes : \A l \in Places : l # NDIRECT /\ V[j][l] # 0 => v.blk[V[j][l]] = w.blk[V[j][l]]
      BY <3>4, <3>9
    <3> QED
      BY <3>3, <3>4, <3>8, <3>10, <3>11, <3>12 DEF Step, V, V2, ad2, v
  <2> QED
    BY <2>2, <2>3
<1> QED
  BY <1>2, <1>3

\* The blocks after entry e of the indirect block of the inode got block b.
Filled(x, e, b, bl) ==
    /\ \A l \in 0 .. Words - 1 : bl[x.addrs[NDIRECT]][l] = IF l = e THEN b ELSE x.blk[x.addrs[NDIRECT]][l]
    /\ \A c \in DataBlocks : c # x.addrs[NDIRECT] /\ c # b => bl[c] = x.blk[c]
    /\ x.addrs[NDIRECT] # 0 /\ x.blk[x.addrs[NDIRECT]][e] = 0 /\ e \in 0 .. NINDIRECT - 1 /\ b \in DataBlocks \ x.used

\* A fresh block in an empty entry of the indirect block of inode i.
LEMMA EntryMap ==
    ASSUME NEW x \in WorkType, NEW ad \in [Nodes -> AddrType], NEW i \in Nodes, ad[i] = x.addrs,
           Owned(x.used, PlaceMap(x.blk, ad)), NEW e, NEW b, NEW bl, Filled(x, e, b, bl)
    PROVE  /\ Owned(x.used \union {b}, PlaceMap(bl, ad))
           /\ Added(PlaceMap(x.blk, ad), PlaceMap(bl, ad), i, NDIRECT + 1 + e, b)
           /\ \A c \in x.used : c # x.addrs[NDIRECT] => bl[c] = x.blk[c]
<1> DEFINE ind == x.addrs[NDIRECT]
           V == PlaceMap(x.blk, ad)
           V2 == PlaceMap(bl, ad)
           k == NDIRECT + 1 + e
<1> USE DEF Filled
<1>0. ind \in x.used
  BY IndirectUsed
<1>1. /\ ind \in DataBlocks /\ ind # b /\ b \in Nat \ {0} /\ e \in 0 .. Words - 1
      /\ x.used \subseteq DataBlocks /\ 0 \notin x.used
  <2>1. x.used \subseteq DataBlocks
    BY DEF WorkType
  <2>2. e \in 0 .. Words - 1
    BY PositionsTyped
  <2> QED
    BY <1>0, <2>1, <2>2, BlockAssumption
<1>2. k \in Places /\ k > NDIRECT /\ ~(k <= NDIRECT) /\ k - NDIRECT - 1 = e /\ NDIRECT \in Places /\ k # NDIRECT
  BY PositionsTyped DEF Places
<1>6. \A c \in x.used : c # ind => bl[c] = x.blk[c]
  BY <1>1 DEF Filled
<1>7. Added(V, V2, i, k, b)
  <2> SUFFICES ASSUME NEW j \in Nodes, NEW l \in Places
               PROVE  V2[j][l] = IF j = i /\ l = k THEN b ELSE V[j][l]
    BY DEF Added
  <2>1. V2[j][l] = Place(bl, ad[j], l) /\ V[j][l] = Place(x.blk, ad[j], l)
    BY DEF PlaceMap
  <2>2. CASE j # i
    <3>1. ad[j][NDIRECT] # 0 => ad[j][NDIRECT] \in x.used /\ ad[j][NDIRECT] # ind
      <4>1. V[j][NDIRECT] = ad[j][NDIRECT] /\ V[i][NDIRECT] = ind /\ ad[j][NDIRECT] \in x.used \union {0}
        BY IndirectUsed
      <4> HIDE DEF V
      <4>2. V[j][NDIRECT] = V[i][NDIRECT] /\ V[j][NDIRECT] # 0 => j = i
        BY <1>2 DEF Owned, V
      <4> QED
        BY <4>1, <4>2, <2>2
    <3> QED
      BY <2>1, <2>2, <3>1, <1>6 DEF Place
  <2>3. CASE j = i /\ l <= NDIRECT
    BY <1>2, <2>1, <2>3 DEF Place
  <2>4. CASE j = i /\ l > NDIRECT
    <3>1. l - NDIRECT - 1 \in 0 .. Words - 1 /\ ~(l <= NDIRECT) /\ (l - NDIRECT - 1 = e <=> l = k)
      BY <2>4, PositionsTyped DEF Places
    <3>2. Place(bl, ad[j], l) = bl[ind][l - NDIRECT - 1] /\ Place(x.blk, ad[j], l) = x.blk[ind][l - NDIRECT - 1]
      BY <2>4, <3>1 DEF Place
    <3> QED
      BY <2>1, <2>4, <3>1, <3>2 DEF Filled
  <2> QED
    BY <2>2, <2>3, <2>4, PositionsTyped DEF Places
<1>8. V[i][k] = 0
  <2>1. V[i][k] = Place(x.blk, ad[i], k)
    BY <1>2 DEF PlaceMap
  <2> QED
    BY <2>1, <1>2 DEF Place
<1>9. Owned(x.used \union {b}, V2)
  <2>1. Owned(x.used, V)
    OBVIOUS
  <2>2. b \notin x.used /\ b # 0
    BY <1>1
  <2> HIDE DEF V, V2, k, Filled
  <2> QED
    BY <1>1, <1>2, <1>7, <1>8, <2>1, <2>2, OwnedAdd
<1> QED
  BY <1>6, <1>7, <1>9

\* bmap finds the block or allocates it, with the indirect block if need be.
LEMMA BmapStep ==
    ASSUME NEW w \in WorkType, NEW ad \in [Nodes -> AddrType], NEW i \in Nodes, ad[i] = w.addrs,
           Owned(w.used, PlaceMap(w.blk, ad)), NEW bn \in 0 .. MAXFILE - 1
    PROVE  Step(w, Bmap(w, bn), i, ad, PlaceOf(bn))
<1>1. CASE bn < NDIRECT
  <2>1. Bmap(w, bn) = Direct(w, bn) /\ PlaceOf(bn) = bn /\ bn \in 0 .. NDIRECT
    BY <1>1, PositionsTyped DEF Bmap, PlaceOf
  <2> QED
    BY <2>1, DirectStep
<1>2. CASE ~(bn < NDIRECT)
  <2> DEFINE x == Direct(w, NDIRECT)
             e == bn - NDIRECT
             k == PlaceOf(bn)
             ad1 == [ad EXCEPT ![i] = x.addrs]
             V == PlaceMap(w.blk, ad)
             V1 == PlaceMap(x.blk, ad1)
             r == Bmap(w, bn)
             V2 == PlaceMap(r.blk, [ad EXCEPT ![i] = r.addrs])
  <2>1. /\ e \in 0 .. NINDIRECT - 1 /\ k = NDIRECT + 1 + e /\ k \in Places /\ ~(k <= NDIRECT) /\ k - NDIRECT - 1 = e
        /\ k # NDIRECT /\ NDIRECT \in Places /\ NDIRECT \in 0 .. NDIRECT
    BY <1>2, PositionsTyped DEF PlaceOf
  <2>2. Step(w, x, i, ad, NDIRECT) /\ \A b \in w.used : x.blk[b] = w.blk[b]
    BY <2>1, DirectStep
  <2> SUFFICES Step(w, r, i, ad, k)
    OBVIOUS
  <2> HIDE DEF k, e
  <2>3. /\ x \in WorkType /\ ad1 \in [Nodes -> AddrType] /\ ad1[i] = x.addrs /\ Owned(x.used, V1)
        /\ x.got = x.addrs[NDIRECT] /\ V1[i][NDIRECT] = x.got
    <3>1. x \in WorkType /\ Owned(x.used, V1) /\ x.got = V1[i][NDIRECT]
      BY <2>2 DEF Step
    <3>2. ad1 \in [Nodes -> AddrType] /\ ad1[i] = x.addrs
      BY <3>1 DEF WorkType
    <3>3. V1[i][NDIRECT] = ad1[i][NDIRECT]
      <4> HIDE DEF x, ad1
      <4> QED
        BY <3>1, <3>2, IndirectUsed
    <3> QED
      BY <3>1, <3>2, <3>3
  <2>4. /\ \A j \in Nodes : \A l \in Places : V[j][l] # 0 => V1[j][l] = V[j][l]
        /\ \A j \in Nodes : \A l \in Places : V1[j][l] # V[j][l] => j = i /\ l \in {k, NDIRECT}
        /\ \A j \in Nodes : \A l \in Places : V[j][l] # 0 => V[j][l] \in w.used /\ V[j][l] \in x.used
    <3>1. /\ \A j \in Nodes : \A l \in Places : V[j][l] # 0 => V1[j][l] = V[j][l]
          /\ \A j \in Nodes : \A l \in Places : V1[j][l] # V[j][l] => j = i /\ l \in {NDIRECT, NDIRECT}
      BY <2>2 DEF Step
    <3>2. Owned(w.used, V)
      OBVIOUS
    <3> HIDE DEF V, V1, x
    <3> QED
      BY <3>1, <3>2, <2>3 DEF Owned
  <2>5. x.logged \subseteq w.logged \union Indirect(x.addrs)
    <3>1. x.logged \subseteq w.logged \union Indirect(x.addrs) \union
              (IF V[i][NDIRECT] # 0 \/ x.got = 0 THEN {} ELSE {<<"bitmap", x.got \div BPB>>, <<"block", x.got>>})
      BY <2>2 DEF Step
    <3> HIDE DEF V, x
    <3> QED
      BY <2>3, <3>1 DEF Indirect
  <2>6. \A b \in w.used : x.blk[b] = w.blk[b]
    BY <2>2
  <2>7. V1[i][k] = IF x.got = 0 THEN 0 ELSE x.blk[x.got][e]
    <3>1. V1[i][k] = Place(x.blk, ad1[i], k)
      BY <2>1 DEF PlaceMap
    <3> HIDE DEF x, V1, ad1
    <3> QED
      BY <2>1, <2>3, <3>1 DEF Place
  <2> DEFINE v == Balloc(x)
  <2>8. r = CASE x.got = 0 -> x
              [] x.got # 0 /\ x.blk[x.got][e] # 0 -> [x EXCEPT !.got = x.blk[x.got][e]]
              [] OTHER -> IF v.got = 0 THEN v
                          ELSE [v EXCEPT !.blk[x.got][e] = v.got, !.logged = @ \union {<<"block", x.got>>}]
    BY <1>2 DEF Bmap, e
  <2>9. ASSUME r \in WorkType, r.used = x.used, r.blk = x.blk, r.addrs = x.addrs, r.logged = x.logged, r.got = V1[i][k]
        PROVE  Step(w, r, i, ad, k)
    <3>1. V2 = V1 /\ Owned(r.used, V2)
      BY <2>9, <2>3
    <3>2. \A j \in Nodes : \A l \in Places : l # NDIRECT /\ V[j][l] # 0 => r.blk[V[j][l]] = w.blk[V[j][l]]
      BY <2>4, <2>6, <2>9
    <3> HIDE DEF V, V1, V2, r, x
    <3> QED
      BY <2>4, <2>5, <2>9, <3>1, <3>2 DEF Step, V, V2
  <2>10. CASE x.got = 0
    BY <2>3, <2>7, <2>8, <2>9, <2>10
  <2>11. CASE x.got # 0 /\ x.blk[x.got][e] # 0
    <3>1. r = [x EXCEPT !.got = x.blk[x.got][e]]
      BY <2>8, <2>11
    <3> HIDE DEF x
    <3>2. x.blk[x.got][e] \in Nat
      <4>1. x.got \in DataBlocks /\ e \in 0 .. Words - 1
        <5> HIDE DEF V1, ad1
        <5> QED
          BY <2>1, <2>3, <2>11, PositionsTyped DEF WorkType, Owned
      <4>2. x.blk \in BlockData
        BY <2>3, Zenon DEF WorkType
      <4>3. x.blk[x.got] \in [0 .. Words - 1 -> Nat]
        BY <4>1, <4>2 DEF BlockData
      <4> QED
        BY <4>1, <4>3
    <3>3. r \in WorkType /\ r.used = x.used /\ r.blk = x.blk /\ r.addrs = x.addrs /\ r.logged = x.logged /\ r.got = x.blk[x.got][e]
      BY <2>3, <3>1, <3>2 DEF WorkType
    <3> QED
      BY <2>7, <2>9, <2>11, <3>3
  <2>12. CASE x.got # 0 /\ x.blk[x.got][e] = 0 /\ v.got = 0
    <3>1. r = v
      BY <2>8, <2>12
    <3>2. v \in WorkType /\ v.used = x.used /\ v.blk = x.blk /\ v.addrs = x.addrs /\ v.logged = x.logged
      <4> HIDE DEF x
      <4> QED
        BY <2>3, <2>12, BallocEffect
    <3> QED
      BY <2>7, <2>9, <2>12, <3>1, <3>2
  <2>13. CASE x.got # 0 /\ x.blk[x.got][e] = 0 /\ v.got # 0
    <3> DEFINE b == v.got
               bl == [[x.blk EXCEPT ![b] = ZeroBlock] EXCEPT ![x.got][e] = b]
    <3>1. r = [v EXCEPT !.blk[x.got][e] = v.got, !.logged = @ \union {<<"block", x.got>>}]
      BY <2>8, <2>13
    <3>2. /\ v \in WorkType /\ b \in DataBlocks \ x.used /\ v.used = x.used \union {b}
          /\ v.blk = [x.blk EXCEPT ![b] = ZeroBlock] /\ v.addrs = x.addrs
          /\ v.logged = x.logged \union {<<"bitmap", b \div BPB>>, <<"block", b>>}
      <4> HIDE DEF x
      <4> QED
        BY <2>3, <2>13, BallocEffect
    <3>3. /\ bl \in BlockData /\ Owned(x.used \union {b}, PlaceMap(bl, ad1))
          /\ Added(V1, PlaceMap(bl, ad1), i, k, b)
          /\ \A c \in x.used : c # x.got => bl[c] = x.blk[c]
      <4> DEFINE mid == [x.blk EXCEPT ![b] = ZeroBlock]
      <4> HIDE DEF x, v, ad1, b
      <4>1. x.got \in DataBlocks /\ x.got # b /\ e \in 0 .. Words - 1 /\ b \in Nat
        <5> HIDE DEF V1
        <5> QED
          BY <2>1, <2>3, <2>13, <3>2, PositionsTyped, BlockAssumption DEF WorkType, Owned
      <4>2. mid \in BlockData
        <5>1. ZeroBlock \in [0 .. Words - 1 -> Nat]
          BY DEF ZeroBlock
        <5> QED
          BY <2>3, <5>1 DEF WorkType, BlockData
      <4>3. mid[x.got] = x.blk[x.got] /\ \A c \in DataBlocks : c # b => mid[c] = x.blk[c]
        BY <2>3, <4>1 DEF WorkType, BlockData
      <4>4. bl = [mid EXCEPT ![x.got] = [mid[x.got] EXCEPT ![e] = b]]
        OBVIOUS
      <4> HIDE DEF mid, bl
      <4>5. [mid[x.got] EXCEPT ![e] = b] \in [0 .. Words - 1 -> Nat]
        BY <4>1, <4>2 DEF BlockData
      <4>6. /\ bl \in BlockData /\ bl[x.got] = [mid[x.got] EXCEPT ![e] = b]
            /\ \A c \in DataBlocks : c # x.got /\ c # b => bl[c] = x.blk[c]
        BY <4>1, <4>2, <4>3, <4>4, <4>5 DEF BlockData
      <4>7. \A l \in 0 .. Words - 1 : bl[x.got][l] = IF l = e THEN b ELSE x.blk[x.got][l]
        BY <4>1, <4>2, <4>3, <4>6 DEF BlockData
      <4>8. /\ Owned(x.used \union {b}, PlaceMap(bl, ad1))
            /\ Added(V1, PlaceMap(bl, ad1), i, NDIRECT + 1 + e, b)
            /\ \A c \in x.used : c # x.addrs[NDIRECT] => bl[c] = x.blk[c]
        <5>2. Filled(x, e, b, bl)
          BY <2>1, <2>3, <2>13, <3>2, <4>6, <4>7 DEF Filled
        <5>4. x \in WorkType /\ ad1 \in [Nodes -> AddrType] /\ ad1[i] = x.addrs /\ Owned(x.used, PlaceMap(x.blk, ad1))
          BY <2>3
        <5>5. Owned(x.used \union {b}, PlaceMap(bl, ad1))
          BY <5>2, <5>4, EntryMap, Zenon
        <5>6. Added(V1, PlaceMap(bl, ad1), i, NDIRECT + 1 + e, b)
          BY <5>2, <5>4, EntryMap, Zenon
        <5>7. \A c \in x.used : c # x.addrs[NDIRECT] => bl[c] = x.blk[c]
          BY <5>2, <5>4 DEF Filled, WorkType
        <5> QED
          BY <5>5, <5>6, <5>7
      <4> QED
        BY <2>1, <2>3, <4>6, <4>8
    <3>4. /\ r = [used |-> v.used, blk |-> bl, addrs |-> x.addrs, logged |-> v.logged \union {<<"block", x.got>>}, got |-> b]
      <4> HIDE DEF x, v, r
      <4> QED
        BY <3>1, <3>2 DEF WorkType
    <3>5. <<"block", x.got>> \in LogIds
      <4> HIDE DEF x
      <4> QED
        BY <2>3 DEF LogIds, WorkType
    <3>6. r \in WorkType
      <4>1. v.used \in SUBSET DataBlocks /\ x.addrs \in AddrType /\ v.logged \union {<<"block", x.got>>} \in SUBSET LogIds /\ b \in Nat
        <5> HIDE DEF x, v
        <5> QED
          BY <2>3, <3>2, <3>5 DEF WorkType
      <4> HIDE DEF x, v, r, bl
      <4> QED
        BY <3>3, <3>4, <4>1 DEF WorkType
    <3> HIDE DEF r, bl, x, v
    <3>7. /\ r.used = x.used \union {b} /\ r.blk = bl /\ r.addrs = x.addrs /\ r.got = b
          /\ r.logged = x.logged \union {<<"bitmap", b \div BPB>>, <<"block", b>>} \union {<<"block", x.got>>}
      BY <3>2, <3>4
    <3>8. V2 = PlaceMap(bl, ad1)
      BY <3>7
    <3>9. V1[i][k] = 0 /\ V[i][k] = 0
      <4>1. V1[i][k] = 0
        BY <2>7, <2>13
      <4> HIDE DEF V, V1
      <4> QED
        BY <2>1, <2>4, <4>1
    <3>10. /\ r.got = V2[i][k]
           /\ \A j \in Nodes : \A l \in Places : V[j][l] # 0 => V2[j][l] = V[j][l]
           /\ \A j \in Nodes : \A l \in Places : V2[j][l] # V[j][l] => j = i /\ l \in {k, NDIRECT}
      <4>1. \A j \in Nodes : \A l \in Places : V2[j][l] = IF j = i /\ l = k THEN b ELSE V1[j][l]
        BY <3>3, <3>8 DEF Added
      <4> HIDE DEF V, V1, V2
      <4> QED
        BY <2>1, <2>4, <3>7, <3>9, <4>1
    <3>11. \A j \in Nodes : \A l \in Places : l # NDIRECT /\ V[j][l] # 0 => r.blk[V[j][l]] = w.blk[V[j][l]]
      <4> SUFFICES ASSUME NEW j \in Nodes, NEW l \in Places, l # NDIRECT, V[j][l] # 0
                   PROVE  r.blk[V[j][l]] = w.blk[V[j][l]]
        OBVIOUS
      <4>1. V[j][l] \in w.used /\ V[j][l] \in x.used /\ V1[j][l] = V[j][l]
        BY <2>4
      <4>2. V1[j][l] # V1[i][NDIRECT]
        <5> HIDE DEF V, V1
        <5> QED
          BY <2>1, <2>3, <2>13, <4>1 DEF Owned
      <4>3. bl[V[j][l]] = x.blk[V[j][l]]
        BY <2>3, <3>3, <4>1, <4>2
      <4> QED
        BY <2>6, <3>7, <4>1, <4>3
    <3>12. r.logged \subseteq w.logged \union Indirect(r.addrs) \union {<<"bitmap", r.got \div BPB>>, <<"block", r.got>>}
      <4>1. <<"block", x.got>> \in Indirect(x.addrs)
        BY <2>3, <2>13 DEF Indirect
      <4> QED
        BY <2>5, <3>7, <4>1
    <3>13. Owned(r.used, V2)
      BY <3>3, <3>7, <3>8
    <3> HIDE DEF V, V1, V2
    <3> QED
      BY <2>13, <3>6, <3>7, <3>9, <3>10, <3>11, <3>12, <3>13 DEF Step, V, V2
  <2> QED
    BY <2>10, <2>11, <2>12, <2>13
<1> QED
  BY <1>1, <1>2

\* The bytes of a turn, by their place in the block.
LEMMA TurnBytes ==
    ASSUME NEW from \in Nat, NEW m \in Nat, m <= BSIZE - (from % BSIZE), NEW x \in Nat
    PROVE  (from <= x /\ x < from + m) <=>
               (x \div BSIZE = from \div BSIZE /\ from % BSIZE <= x % BSIZE /\ x % BSIZE < (from % BSIZE) + m)
<1> DEFINE q == from \div BSIZE
           r == from % BSIZE
           y == x \div BSIZE
           z == x % BSIZE
<1>0. BSIZE \in Nat \ {0}
  BY PositionsTyped
<1>1. q \in Nat /\ r \in Nat /\ r < BSIZE /\ from = BSIZE * q + r
  BY <1>0, BlockDivMod
<1>2. y \in Nat /\ z \in Nat /\ z < BSIZE /\ x = BSIZE * y + z
  BY <1>0, BlockDivMod
<1> HIDE DEF q, r, y, z
<1>3. CASE y = q
  BY <1>0, <1>1, <1>2, <1>3 DEF q, r, y, z
<1>4. CASE y < q
  <2>1. BSIZE * (y + 1) <= BSIZE * q
    BY <1>0, <1>1, <1>2, <1>4
  <2>2. x < from
    BY <1>0, <1>1, <1>2, <2>1
  <2> QED
    BY <1>1, <1>2, <1>4, <2>2 DEF q, y
<1>5. CASE q < y
  <2>1. BSIZE * (q + 1) <= BSIZE * y
    BY <1>0, <1>1, <1>2, <1>5
  <2>2. x >= from + m
    <3>1. m + r <= BSIZE
      BY <1>0, <1>1 DEF r
    <3> QED
      BY <1>0, <1>1, <1>2, <2>1, <3>1
  <2> QED
    BY <1>1, <1>2, <1>5, <2>2 DEF q, y
<1> QED
  BY <1>1, <1>2, <1>3, <1>4, <1>5

\* Every position in a file of at most MAXFILE blocks lies in one of them.
LEMMA BlockInFile ==
    ASSUME NEW x \in Nat, x < MAXFILE * BSIZE
    PROVE  x \div BSIZE \in 0 .. MAXFILE - 1 /\ x % BSIZE \in 0 .. BSIZE - 1
<1>0. BSIZE \in Nat \ {0} /\ MAXFILE \in Nat
  BY PositionsTyped
<1> DEFINE q == x \div BSIZE
<1>1. q \in Nat /\ x % BSIZE \in Nat /\ x % BSIZE < BSIZE /\ x = BSIZE * q + (x % BSIZE)
  BY <1>0, BlockDivMod
<1> HIDE DEF q
<1>2. ASSUME q >= MAXFILE PROVE FALSE
  <2>1. BSIZE * q >= BSIZE * MAXFILE
    BY <1>0, <1>1, <1>2
  <2> QED
    BY <1>0, <1>1, <2>1
<1> QED
  BY <1>0, <1>1, <1>2 DEF q

\* The positions x of c and their blocks: what Holds says, byte by byte.
LEMMA HoldsAt ==
    ASSUME NEW bl, NEW a, NEW c, Len(c) \in Nat, Holds(bl, a, c), NEW x \in Nat, x < Len(c)
    PROVE  /\ Place(bl, a, PlaceOf(x \div BSIZE)) # 0
           /\ bl[Place(bl, a, PlaceOf(x \div BSIZE))][x % BSIZE] \in c[x + 1]
<1>1. x \in 0 .. Len(c) - 1
  OBVIOUS
<1> QED
  BY <1>1 DEF Holds

\* A file that was not written to: its places and the bytes in them are kept.
Unmoved(bl, a, bl2, a2, but) ==
    \A k \in Places : k # NDIRECT /\ Place(bl, a, k) # 0 =>
        /\ Place(bl2, a2, k) = Place(bl, a, k)
        /\ Place(bl, a, k) # but => bl2[Place(bl, a, k)] = bl[Place(bl, a, k)]

\* Such a file still holds its bytes.
LEMMA HoldsKept ==
    ASSUME NEW bl, NEW a, NEW bl2, NEW a2, NEW c, Len(c) \in Nat, Len(c) <= MAXFILE * BSIZE,
           Holds(bl, a, c), Unmoved(bl, a, bl2, a2, 0)
    PROVE  Holds(bl2, a2, c)
<1> SUFFICES ASSUME NEW x \in 0 .. Len(c) - 1
             PROVE  /\ Place(bl2, a2, PlaceOf(x \div BSIZE)) # 0
                    /\ bl2[Place(bl2, a2, PlaceOf(x \div BSIZE))][x % BSIZE] \in c[x + 1]
  BY DEF Holds
<1>0. MAXFILE * BSIZE \in Nat
  BY PositionsTyped
<1>1. x \in Nat /\ x < Len(c) /\ x < MAXFILE * BSIZE
  BY <1>0
<1>2. PlaceOf(x \div BSIZE) \in Places /\ PlaceOf(x \div BSIZE) # NDIRECT
  BY <1>1, BlockInFile, PositionsTyped
<1>3. /\ Place(bl, a, PlaceOf(x \div BSIZE)) # 0
      /\ bl[Place(bl, a, PlaceOf(x \div BSIZE))][x % BSIZE] \in c[x + 1]
  BY <1>1, HoldsAt
<1> QED
  BY <1>2, <1>3 DEF Unmoved

\* The file written to: m bytes from position from on, in block g.
Wrote(bl, a, bl2, a2, c, c2, from, m, g, val) ==
    /\ Len(c) \in Nat /\ Len(c2) \in Nat /\ from \in Nat /\ m \in Nat
    /\ Len(c) <= MAXFILE * BSIZE /\ Len(c2) <= MAXFILE * BSIZE /\ from < MAXFILE * BSIZE
    /\ m <= BSIZE - (from % BSIZE) /\ from <= Len(c) /\ (Len(c2) <= Len(c) \/ Len(c2) <= from + m)
    /\ Holds(bl, a, c) /\ Unmoved(bl, a, bl2, a2, g)
    /\ g # 0 /\ Place(bl2, a2, PlaceOf(from \div BSIZE)) = g
    /\ \A k \in Places : Place(bl2, a2, k) = g => k = PlaceOf(from \div BSIZE)
    /\ Place(bl, a, PlaceOf(from \div BSIZE)) # 0 =>
           \A y \in 0 .. BSIZE - 1 : ~(y >= from % BSIZE /\ y < (from % BSIZE) + m) => bl2[g][y] = bl[g][y]
    /\ \A y \in 0 .. BSIZE - 1 : y >= from % BSIZE /\ y < (from % BSIZE) + m => bl2[g][y] = val
    /\ \A x \in 0 .. Len(c2) - 1 : IF from <= x /\ x < from + m THEN val \in c2[x + 1] ELSE c2[x + 1] = c[x + 1]

\* Then the file holds the new bytes, and the old ones elsewhere.
LEMMA HoldsWrite ==
    ASSUME NEW bl, NEW a, NEW bl2, NEW a2, NEW c, NEW c2, NEW from, NEW m, NEW g, NEW val,
           Wrote(bl, a, bl2, a2, c, c2, from, m, g, val)
    PROVE  Holds(bl2, a2, c2)
<1> USE DEF Wrote
<1> SUFFICES ASSUME NEW x \in 0 .. Len(c2) - 1
             PROVE  /\ Place(bl2, a2, PlaceOf(x \div BSIZE)) # 0
                    /\ bl2[Place(bl2, a2, PlaceOf(x \div BSIZE))][x % BSIZE] \in c2[x + 1]
  BY DEF Holds
<1> DEFINE k == PlaceOf(x \div BSIZE)
           kf == PlaceOf(from \div BSIZE)
<1>0. MAXFILE * BSIZE \in Nat /\ BSIZE \in Nat \ {0} /\ from % BSIZE \in Nat
  <2>1. from \in Nat
    OBVIOUS
  <2> HIDE DEF Wrote
  <2>2. MAXFILE * BSIZE \in Nat /\ BSIZE \in Nat \ {0}
    BY PositionsTyped
  <2>3. from % BSIZE \in Nat
    BY <2>1, <2>2, BlockDivMod
  <2> QED
    BY <2>2, <2>3
<1>1. x \in Nat /\ x < Len(c2) /\ x < MAXFILE * BSIZE
  BY <1>0
<1>2. /\ k \in Places /\ k # NDIRECT /\ x % BSIZE \in 0 .. BSIZE - 1 /\ x \div BSIZE \in 0 .. MAXFILE - 1
      /\ kf \in Places /\ kf # NDIRECT /\ from \div BSIZE \in 0 .. MAXFILE - 1
  BY <1>1, BlockInFile, PositionsTyped
<1>3. k = kf <=> x \div BSIZE = from \div BSIZE
  <2> DEFINE d == x \div BSIZE
             e == from \div BSIZE
  <2>1. d \in Int /\ e \in Int /\ k = PlaceOf(d) /\ kf = PlaceOf(e)
    BY <1>2
  <2> HIDE DEF d, e, k, kf, Wrote
  <2>2. k = kf <=> d = e
    BY <2>1, PositionsTyped DEF PlaceOf
  <2> QED
    BY <2>2 DEF d, e
<1>4. CASE from <= x /\ x < from + m
  <2>1. x \div BSIZE = from \div BSIZE /\ from % BSIZE <= x % BSIZE /\ x % BSIZE < (from % BSIZE) + m
    BY <1>1, <1>4, TurnBytes
  <2>2. val \in c2[x + 1]
    BY <1>4
  <2> QED
    BY <1>0, <1>2, <2>1, <2>2
<1>5. CASE ~(from <= x /\ x < from + m)
  <2>1. x < Len(c) /\ c2[x + 1] = c[x + 1]
    BY <1>1, <1>5
  <2>2. Place(bl, a, k) # 0 /\ bl[Place(bl, a, k)][x % BSIZE] \in c[x + 1]
    BY <1>1, <2>1, HoldsAt
  <2>3. Place(bl2, a2, k) = Place(bl, a, k)
    BY <1>2, <2>2 DEF Unmoved
  <2>4. CASE Place(bl, a, k) = g
    <3>1. k = kf /\ x \div BSIZE = from \div BSIZE
      BY <1>2, <1>3, <2>3, <2>4
    <3>2. ~(from % BSIZE <= x % BSIZE /\ x % BSIZE < (from % BSIZE) + m)
      BY <1>1, <1>5, <3>1, TurnBytes
    <3>3. bl2[g][x % BSIZE] = bl[g][x % BSIZE]
      BY <1>0, <1>2, <2>2, <3>1, <3>2
    <3> QED
      BY <2>1, <2>2, <2>3, <2>4, <3>3
  <2>5. CASE Place(bl, a, k) # g
    BY <1>2, <2>1, <2>2, <2>3, <2>5 DEF Unmoved
  <2> QED
    BY <2>4, <2>5
<1> QED
  BY <1>4, <1>5

-----------------------------------------------------------------------------
(* Counting the blocks that a chunk logs.                                    *)

\* A chunk of filewrite is some whole number of blocks.
LEMMA ChunkBound ==
    /\ ChunkMax \in Nat
    /\ \E q \in Nat : ChunkMax = BSIZE * q /\ 2 * q + 4 <= OpBlocks
<1> DEFINE q == (OpBlocks - 1 - 1 - 2) \div 2
<1>1. q \in Nat /\ 2 * q + 4 <= OpBlocks
  BY BlockAssumption
<1> HIDE DEF q
<1>2. ChunkMax = q * BSIZE
  BY DEF ChunkMax, q
<1> QED
  BY <1>1, <1>2, PositionsTyped

\* The turns of a chunk cost at most what begin_op reserved.
LEMMA TurnsBound ==
    ASSUME NEW at \in Nat, NEW tot \in Nat, tot <= ChunkMax
    PROVE  Turns(at, tot) \in Nat /\ 2 * Turns(at, tot) + 3 <= OpBlocks + Spared(at, tot)
<1>0. BSIZE \in Nat \ {0}
  BY PositionsTyped
<1>1. PICK q \in Nat : ChunkMax = BSIZE * q /\ 2 * q + 4 <= OpBlocks
  BY ChunkBound
<1>2. CASE tot = 0
  BY <1>1, <1>2, BlockAssumption DEF Turns, Spared
<1>3. CASE tot # 0
  <2> DEFINE r == at % BSIZE
             s == r + tot + BSIZE - 1
             t == s \div BSIZE
  <2>1. r \in Nat /\ r < BSIZE
    BY <1>0, BlockDivMod
  <2>2. Turns(at, tot) = t /\ Spared(at, tot) = IF r = 0 THEN 0 ELSE 1
    BY <1>3 DEF Turns, Spared
  <2> HIDE DEF r
  <2>3. s \in Nat
    BY <1>0, <2>1
  <2> HIDE DEF s
  <2>4. t \in Nat /\ s % BSIZE \in Nat /\ s = BSIZE * t + (s % BSIZE)
    BY <1>0, <2>3, BlockDivMod
  <2> HIDE DEF t
  <2>5. BSIZE * t <= r + BSIZE * q + BSIZE - 1
    BY <1>0, <1>1, <2>1, <2>3, <2>4 DEF s
  <2>6. CASE r = 0
    <3>1. ASSUME t >= q + 1 PROVE FALSE
      <4>1. BSIZE * t >= BSIZE * (q + 1)
        BY <1>0, <1>1, <2>4, <3>1
      <4> QED
        BY <1>0, <1>1, <2>4, <2>5, <2>6, <4>1
    <3> QED
      BY <1>1, <2>2, <2>4, <2>6, <3>1, BlockAssumption
  <2>7. CASE r # 0
    <3>1. ASSUME t >= q + 2 PROVE FALSE
      <4>1. BSIZE * t >= BSIZE * (q + 2)
        BY <1>0, <1>1, <2>4, <3>1
      <4> QED
        BY <1>0, <1>1, <2>1, <2>4, <2>5, <4>1
    <3> QED
      BY <1>1, <2>2, <2>4, <2>7, <3>1, BlockAssumption
  <2> QED
    BY <2>6, <2>7
<1> QED
  BY <1>2, <1>3

\* One more turn.
LEMMA TurnsNext ==
    ASSUME NEW at \in Nat, NEW tot \in Nat, NEW m \in Nat \ {0}, m <= BSIZE - ((at + tot) % BSIZE),
           tot = 0 \/ (at + tot) % BSIZE = 0
    PROVE  Turns(at, tot + m) = Turns(at, tot) + 1
<1>0. BSIZE \in Nat \ {0}
  BY PositionsTyped
<1> DEFINE r == at % BSIZE
           q == at \div BSIZE
<1>1. r \in Nat /\ r < BSIZE /\ q \in Nat /\ at = BSIZE * q + r
  BY <1>0, BlockDivMod
<1>2. CASE tot = 0
  <2>1. r + m <= BSIZE
    BY <1>0, <1>1, <1>2
  <2>2. Turns(at, tot + m) = (r + m + BSIZE - 1) \div BSIZE /\ Turns(at, tot) = 0
    BY <1>2 DEF Turns
  <2>3. (BSIZE * 1 + (r + m - 1)) \div BSIZE = 1
    BY <1>0, <1>1, <2>1, BlockDivModCompose
  <2> HIDE DEF r
  <2>4. r + m + BSIZE - 1 = BSIZE * 1 + (r + m - 1)
    BY <1>0, <1>1
  <2> QED
    BY <2>2, <2>3, <2>4
<1>3. CASE tot # 0
  <2> DEFINE w == at + tot
             t == w \div BSIZE
  <2>1. t \in Nat /\ w = BSIZE * t
    BY <1>0, <1>3, BlockDivMod
  <2>2. m <= BSIZE
    BY <1>0, <1>3
  <2> HIDE DEF t, r, q
  <2>3. t > q \/ t = q
    <3>1. ASSUME t < q PROVE FALSE
      <4>1. BSIZE * (t + 1) <= BSIZE * q
        BY <1>0, <1>1, <2>1, <3>1
      <4> QED
        BY <1>0, <1>1, <2>1, <4>1
    <3> QED
      BY <1>1, <2>1, <3>1
  <2> DEFINE u == t - q
  <2>4. u \in Nat /\ r + tot = BSIZE * u
    BY <1>0, <1>1, <2>1, <2>3
  <2> HIDE DEF u
  <2>5. (BSIZE * u + (BSIZE - 1)) \div BSIZE = u
    BY <1>0, <2>4, BlockDivModCompose
  <2>6. (BSIZE * (u + 1) + (m - 1)) \div BSIZE = u + 1
    <3>1. u + 1 \in Nat /\ m - 1 \in Nat /\ m - 1 < BSIZE
      BY <1>0, <2>2, <2>4
    <3> QED
      BY <1>0, <3>1, BlockDivModCompose
  <2>7. r + tot + BSIZE - 1 = BSIZE * u + (BSIZE - 1) /\ r + (tot + m) + BSIZE - 1 = BSIZE * (u + 1) + (m - 1)
    BY <1>0, <1>1, <2>4
  <2>8. Turns(at, tot) = (r + tot + BSIZE - 1) \div BSIZE /\ Turns(at, tot + m) = (r + (tot + m) + BSIZE - 1) \div BSIZE
    BY <1>3 DEF Turns, r
  <2> QED
    BY <2>5, <2>6, <2>7, <2>8
<1> QED
  BY <1>2, <1>3

\* Behind every open file there is an inode.
LEMMA OpenNode ==
    ASSUME NEW f \in OpenFiles
    PROVE  InodeOf[f] \in Nodes
BY DEF Nodes

\* A writer has its inode to itself.
LEMMA WriterAlone ==
    ASSUME LockInv, NEW p \in IoProcs, Writing(p)
    PROVE  /\ File(p) \in OpenFiles /\ Ip(p) \in Nodes /\ nlk[Ip(p)] = p /\ ~Unlocked(Ip(p))
           /\ \A q \in IoProcs : q # p /\ Writing(q) => Ip(q) # Ip(p) /\ File(q) # File(p)
<1>1. File(p) \in OpenFiles /\ nlk[Ip(p)] = p
  BY DEF LockInv, Writing, File
<1>2. Ip(p) \in Nodes
  BY <1>1, OpenNode DEF Ip
<1>3. \A q \in IoProcs : q # p /\ Writing(q) => Ip(q) # Ip(p) /\ File(q) # File(p)
  BY <1>1 DEF LockInv, Ip
<1> QED
  BY <1>1, <1>2, <1>3, BlockAssumption DEF Unlocked

\* A step of one process leaves the calls of the others alone.
LEMMA IoPiece ==
    ASSUME BlockType, NEW p \in IoProcs, NEW c \in IoType, Io(p, c)
    PROVE  /\ io' \in [IoProcs -> IoType] /\ io'[p] = c
           /\ \A q \in IoProcs : q # p => io'[q] = io[q]
BY DEF BlockType, Io

\* The call record of a process in user space.
LEMMA NoIoTyped == NoIo \in IoType /\ NoIo.pc = "user" /\ NoIo.logged = {} /\ NoIo.tot = 0 /\ NoIo.at = 0
BY DEF NoIo, IoType

\* The invariant holds initially.
LEMMA BlockInitInv == BlockInit => BlockInv
<1> SUFFICES ASSUME BlockInit
             PROVE  BlockInv
  OBVIOUS
<1>0. \A p \in IoProcs : io[p].pc = "user" /\ io[p].logged = {}
  BY DEF BlockInit, NoIo
<1>1. BlockType
  <2>1. ZeroBlock \in [0 .. Words - 1 -> Nat]
    BY DEF ZeroBlock
  <2>2. [k \in 0 .. NDIRECT |-> 0] \in AddrType
    BY DEF AddrType
  <2>3. blk \in BlockData
    BY <2>1 DEF BlockInit, BlockData
  <2>4. node \in [Nodes -> [size : Nat, addrs : AddrType]]
    BY <2>2 DEF BlockInit
  <2>5. io \in [IoProcs -> IoType]
    BY NoIoTyped DEF BlockInit
  <2>6. content \in [Nodes -> Seq(SUBSET Nat)]
    BY DEF BlockInit
  <2> QED
    BY <2>3, <2>4, <2>5, <2>6 DEF BlockInit, BlockType
<1>2. OwnInv
  <2>1. \A i \in Nodes : \A k \in Places : PlaceMap(blk, Addrs)[i][k] = 0
    <3> SUFFICES ASSUME NEW i \in Nodes, NEW k \in Places
                 PROVE  PlaceMap(blk, Addrs)[i][k] = 0
      OBVIOUS
    <3>1. PlaceMap(blk, Addrs)[i][k] = Place(blk, Addrs[i], k)
      BY MapValue
    <3>2. \A l \in 0 .. NDIRECT : Addrs[i][l] = 0
      BY DEF Addrs, BlockInit
    <3> QED
      BY <3>1, <3>2, PositionsTyped DEF Place, Places
  <2> QED
    BY <2>1 DEF OwnInv, Owned, BlockInit
<1>3. LockInv
  BY <1>0, BlockAssumption DEF LockInv, Writing, BlockInit
<1>4. SpanInv
  BY DEF SpanInv, BlockInit, SharedWritesDisjoint
<1>5. ContentInv
  <2>1. \A i \in Nodes : content[i] = <<>> /\ node[i].size = 0 /\ Unlocked(i) /\ dnode[i] = node[i]
    BY DEF BlockInit, Unlocked
  <2>2. \A i \in Nodes : Holds(blk, node[i].addrs, content[i])
    BY <2>1 DEF Holds
  <2>3. MAXFILE * BSIZE \in Nat
    BY PositionsTyped
  <2> QED
    BY <2>1, <2>2, <2>3 DEF ContentInv
<1>6. BudgetInv
  BY <1>0 DEF BudgetInv, Writing
<1> QED
  BY <1>1, <1>2, <1>3, <1>4, <1>5, <1>6 DEF BlockInv

-----------------------------------------------------------------------------
LEMMA FileWriteInv ==
    ASSUME BlockInv, NEW p \in IoProcs, NEW f \in OpenFiles, NEW n \in Counts, FileWrite(p, f, n)
    PROVE  BlockInv'
<1> DEFINE c == [NoIo EXCEPT !.pc = "chunk", !.f = f, !.left = n]
<1>0. BlockType /\ LockInv /\ OwnInv /\ SpanInv /\ ContentInv /\ BudgetInv
  BY DEF BlockInv
<1>1. c \in IoType /\ c.pc = "chunk" /\ c.f = f /\ c.logged = {}
  BY BlockAssumption DEF NoIo, IoType
<1>2. /\ io[p].pc = "user" /\ Io(p, c) /\ ios' = ios + 1
      /\ UNCHANGED <<used, blk, node, dnode, nlk, off, content, spans, bpanic>>
  BY DEF FileWrite, MayIo
<1>3. /\ io' \in [IoProcs -> IoType] /\ io'[p] = c
      /\ \A q \in IoProcs : q # p => io'[q] = io[q]
  BY <1>0, <1>1, <1>2, IoPiece
<1> HIDE DEF c
<1>4. BlockType'
  BY <1>0, <1>2, <1>3 DEF BlockType
<1>5. OwnInv'
  BY <1>0, <1>2 DEF OwnInv, Addrs
<1>6. /\ ~Writing(p) /\ ~Writing(p)' /\ \A q \in IoProcs : Writing(q)' => Writing(q) /\ q # p
      /\ \A q \in IoProcs : Writing(q) => Writing(q)' /\ q # p
  BY <1>1, <1>2, <1>3 DEF Writing
<1>7. \A q \in IoProcs : q # p => Ip(q)' = Ip(q) /\ File(q)' = File(q)
  BY <1>3 DEF Ip, File
<1>8. LockInv'
  <2>1. \A i \in Nodes : nlk[i] # NoWriter => nlk[i] \in IoProcs
    BY <1>0 DEF BlockType
  <2> QED
    BY <1>0, <1>1, <1>2, <1>3, <1>6, <1>7, <2>1 DEF LockInv
<1>9. SpanInv'
  BY <1>0, <1>2 DEF SpanInv, SharedWritesDisjoint
<1>10. ContentInv'
  <2>1. \A i \in Nodes : ~Unlocked(i) => nlk[i] \in IoProcs /\ io'[nlk[i]] = io[nlk[i]]
    BY <1>0, <1>3, <1>6 DEF BlockType, LockInv, Unlocked
  <2> QED
    BY <1>0, <1>2, <2>1 DEF ContentInv, Unlocked, Size
<1>11. BudgetInv'
  BY <1>0, <1>1, <1>2, <1>3, <1>6, <1>7 DEF BudgetInv
<1> QED
  BY <1>4, <1>5, <1>8, <1>9, <1>10, <1>11 DEF BlockInv

\* begin_op, ilock and the checks of writei keep the invariant.
LEMMA ChunkInv ==
    ASSUME BlockInv, NEW p \in IoProcs, Chunk(p)
    PROVE  BlockInv'
<1> DEFINE i == Ip(p)
           n == Smaller(io[p].left, ChunkMax)
           fits == Offset(p) <= node[i].size /\ Offset(p) + n <= MAXFILE * BSIZE
           c == [io[p] EXCEPT !.pc = "write", !.n = n, !.tot = 0, !.at = Offset(p), !.logged = {}]
<1>0. BlockType /\ LockInv /\ OwnInv /\ SpanInv /\ ContentInv /\ BudgetInv
  BY DEF BlockInv
<1>1. /\ io[p].pc = "chunk" /\ Unlocked(i) /\ UNCHANGED <<used, blk, node, dnode, off, ios, content, spans, bpanic>>
      /\ \/ fits /\ nlk' = [nlk EXCEPT ![i] = p] /\ Io(p, c)
         \/ Io(p, NoIo) /\ UNCHANGED nlk
  BY DEF Chunk
<1>2. /\ io[p] \in IoType /\ File(p) \in OpenFiles /\ i \in Nodes /\ Offset(p) = off[File(p)] /\ Offset(p) \in Nat
      /\ File(p) = io[p].f
  <2>1. io[p] \in IoType /\ io[p].f \in OpenFiles
    BY <1>0, <1>1 DEF BlockType, LockInv
  <2> QED
    BY <2>1, <1>0, OpenNode DEF Ip, File, Offset, BlockType
<1>3. n \in Nat /\ n <= ChunkMax
  BY <1>2, ChunkBound DEF Smaller, IoType
<1> HIDE DEF n, i
<1>4. ~Writing(p)
  BY <1>1 DEF Writing
<1>5. OwnInv'
  BY <1>0, <1>1 DEF OwnInv, Addrs
<1>6. SpanInv'
  BY <1>0, <1>1 DEF SpanInv, SharedWritesDisjoint
<1>7. CASE fits /\ nlk' = [nlk EXCEPT ![i] = p] /\ Io(p, c)
  <2>1. /\ c \in IoType /\ c.pc = "write" /\ c.f = io[p].f /\ c.n = n /\ c.tot = 0 /\ c.at = Offset(p) /\ c.logged = {}
    BY <1>2, <1>3 DEF IoType
  <2>2. /\ io' \in [IoProcs -> IoType] /\ io'[p] = c
        /\ \A q \in IoProcs : q # p => io'[q] = io[q]
    BY <1>0, <1>7, <2>1, IoPiece
  <2> HIDE DEF c
  <2>3. /\ nlk' \in [Nodes -> IoProcs \union {NoWriter}] /\ nlk'[i] = p /\ \A j \in Nodes : j # i => nlk'[j] = nlk[j]
    BY <1>0, <1>2, <1>7 DEF BlockType
  <2>4. BlockType'
    BY <1>0, <1>1, <2>2, <2>3 DEF BlockType
  <2>5. Writing(p)' /\ \A q \in IoProcs : q # p => Writing(q)' = Writing(q)
    BY <2>1, <2>2 DEF Writing
  <2>6. \A q \in IoProcs : Ip(q)' = Ip(q) /\ File(q)' = File(q)
    BY <2>1, <2>2 DEF Ip, File
  <2>7. \A q \in IoProcs : Writing(q) => q # p /\ Ip(q) # i /\ Ip(q) \in Nodes
    BY <1>0, <1>1, <1>4, WriterAlone
  <2>8. LockInv'
    <3>1. \A q \in IoProcs : io'[q].pc # "user" => io'[q].f \in OpenFiles
      BY <1>0, <1>2, <2>1, <2>2 DEF LockInv
    <3>2. \A q \in IoProcs : Writing(q)' =>
            /\ nlk'[Ip(q)'] = q /\ io'[q].at = off'[File(q)'] /\ io'[q].at <= node'[Ip(q)'].size
            /\ io'[q].tot <= io'[q].n /\ io'[q].n <= ChunkMax /\ io'[q].at + io'[q].n <= MAXFILE * BSIZE
      <4> SUFFICES ASSUME NEW q \in IoProcs, Writing(q)'
                   PROVE  /\ nlk'[Ip(q)'] = q /\ io'[q].at = off'[File(q)'] /\ io'[q].at <= node'[Ip(q)'].size
                          /\ io'[q].tot <= io'[q].n /\ io'[q].n <= ChunkMax /\ io'[q].at + io'[q].n <= MAXFILE * BSIZE
        OBVIOUS
      <4>1. CASE q = p
        BY <4>1, <1>1, <1>2, <1>3, <1>7, <2>1, <2>2, <2>3, <2>6 DEF i
      <4>2. CASE q # p
        BY <4>2, <1>0, <1>1, <2>2, <2>3, <2>5, <2>6, <2>7 DEF LockInv
      <4> QED
        BY <4>1, <4>2
    <3>3. \A j \in Nodes : \A q \in IoProcs : nlk'[j] = q => Writing(q)' /\ Ip(q)' = j
      <4> SUFFICES ASSUME NEW j \in Nodes, NEW q \in IoProcs, nlk'[j] = q
                   PROVE  Writing(q)' /\ Ip(q)' = j
        OBVIOUS
      <4>1. CASE j = i
        BY <4>1, <2>3, <2>5, <2>6 DEF i
      <4>2. CASE j # i
        <5>1. Writing(q) /\ Ip(q) = j
          BY <4>2, <1>0, <2>3 DEF LockInv
        <5> QED
          BY <5>1, <1>4, <2>5, <2>6
      <4> QED
        BY <4>1, <4>2
    <3> QED
      BY <3>1, <3>2, <3>3 DEF LockInv
  <2>9. ContentInv'
    <3> SUFFICES ASSUME NEW j \in Nodes
                 PROVE  /\ Len(content'[j]) = IF Unlocked(j)' THEN node'[j].size ELSE Size(j, io[nlk[j]].at + io[nlk[j]].tot)'
                        /\ Len(content'[j]) <= MAXFILE * BSIZE
                        /\ Holds(blk', node'[j].addrs, content'[j])
                        /\ Unlocked(j)' => dnode'[j] = node'[j]
      BY DEF ContentInv
    <3>1. /\ Len(content[j]) <= MAXFILE * BSIZE /\ Holds(blk, node[j].addrs, content[j])
          /\ Len(content[j]) = IF Unlocked(j) THEN node[j].size ELSE Size(j, io[nlk[j]].at + io[nlk[j]].tot)
          /\ Unlocked(j) => dnode[j] = node[j]
      BY <1>0 DEF ContentInv
    <3>2. CASE j = i
      <4>1. ~Unlocked(j)' /\ nlk'[j] = p
        BY <3>2, <2>3, BlockAssumption DEF Unlocked
      <4>2. Size(j, io[nlk[j]].at + io[nlk[j]].tot)' = node[j].size
        <5>1. io'[nlk'[j]].at = Offset(p) /\ io'[nlk'[j]].tot = 0 /\ node'[j] = node[j] /\ Offset(p) <= node[j].size
          BY <3>2, <4>1, <1>1, <1>7, <2>1, <2>2
        <5>2. node[j].size \in Nat
          BY <1>0 DEF BlockType
        <5> QED
          BY <1>2, <5>1, <5>2 DEF Size
      <4> QED
        BY <3>1, <3>2, <4>1, <4>2, <1>1
    <3>3. CASE j # i
      <4>1. nlk'[j] = nlk[j] /\ Unlocked(j)' = Unlocked(j)
        BY <3>3, <2>3 DEF Unlocked
      <4>2. ~Unlocked(j) => io'[nlk'[j]] = io[nlk[j]]
        BY <4>1, <1>0, <1>4, <2>2 DEF Unlocked, LockInv, BlockType
      <4> QED
        BY <3>1, <4>1, <4>2, <1>1 DEF Size
    <3> QED
      BY <3>2, <3>3
  <2>10. BudgetInv'
    <3> SUFFICES ASSUME NEW q \in IoProcs
                 PROVE  IF Writing(q)' THEN Budget(io'[q], node'[Ip(q)'].addrs) ELSE io'[q].logged = {}
      BY DEF BudgetInv, Budget
    <3>1. CASE q # p
      BY <3>1, <1>0, <1>1, <2>2, <2>5, <2>6 DEF BudgetInv
    <3>2. CASE q = p
      <4>1. io'[q].logged = {} /\ io'[q].tot = 0 /\ io'[q].logged \ Indirect(node'[Ip(q)'].addrs) = {}
        BY <3>2, <2>1, <2>2
      <4>2. Cardinality({}) = 0 /\ IsFiniteSet({})
        BY FS_EmptySet
      <4>3. Spared(io'[q].at, io'[q].tot) = 0 /\ Turns(io'[q].at, io'[q].tot) = 0
        BY <4>1 DEF Spared, Turns
      <4> QED
        BY <3>2, <4>1, <4>2, <4>3, <2>5, BlockAssumption DEF Budget
    <3> QED
      BY <3>1, <3>2
  <2> QED
    BY <1>5, <1>6, <2>4, <2>8, <2>9, <2>10 DEF BlockInv
<1>8. CASE Io(p, NoIo) /\ UNCHANGED nlk
  <2>2. /\ io' \in [IoProcs -> IoType] /\ io'[p] = NoIo
        /\ \A q \in IoProcs : q # p => io'[q] = io[q]
    BY <1>0, <1>8, NoIoTyped, IoPiece
  <2>4. BlockType'
    BY <1>0, <1>1, <1>8, <2>2 DEF BlockType
  <2>5. ~Writing(p)' /\ \A q \in IoProcs : q # p => Writing(q)' = Writing(q)
    BY <2>2, NoIoTyped DEF Writing
  <2>6. \A q \in IoProcs : q # p => Ip(q)' = Ip(q) /\ File(q)' = File(q)
    BY <2>2 DEF Ip, File
  <2>7. \A j \in Nodes : nlk[j] # NoWriter => nlk[j] \in IoProcs /\ nlk[j] # p
    BY <1>0, <1>4 DEF BlockType, LockInv
  <2>8. LockInv'
    <3>1. \A q \in IoProcs : io'[q].pc # "user" => io'[q].f \in OpenFiles
      BY <1>0, <2>2, NoIoTyped DEF LockInv
    <3>2. \A q \in IoProcs : Writing(q)' => q # p /\ Writing(q)
      BY <2>5
    <3>3. \A j \in Nodes : \A q \in IoProcs : nlk'[j] = q => Writing(q) /\ Ip(q) = j /\ q # p
      BY <1>0, <1>4, <1>8 DEF LockInv
    <3> QED
      BY <1>0, <1>1, <1>8, <2>2, <2>5, <2>6, <3>1, <3>2, <3>3 DEF LockInv
  <2>9. ContentInv'
    <3>1. \A j \in Nodes : ~Unlocked(j) => nlk[j] \in IoProcs /\ io'[nlk[j]] = io[nlk[j]]
      BY <2>2, <2>7 DEF Unlocked
    <3> QED
      BY <1>0, <1>1, <1>8, <3>1 DEF ContentInv, Unlocked, Size
  <2>10. BudgetInv'
    BY <1>0, <1>1, <2>2, <2>5, <2>6, NoIoTyped DEF BudgetInv
  <2> QED
    BY <1>5, <1>6, <2>4, <2>8, <2>9, <2>10 DEF BlockInv
<1> QED
  BY <1>1, <1>7, <1>8

\* The end of writei and the move of the offset keep the invariant.
LEMMA UpdateInv ==
    ASSUME BlockInv, NEW p \in IoProcs, Update(p)
    PROVE  BlockInv'
<1> DEFINE c == io[p]
           i == Ip(p)
           new == [node[i] EXCEPT !.size = Size(i, c.at + c.tot)]
           left == c.left - c.tot
           d == IF c.tot = c.n /\ left > 0 THEN [NoIo EXCEPT !.pc = "chunk", !.f = c.f, !.left = left] ELSE NoIo
<1>0. BlockType /\ LockInv /\ OwnInv /\ SpanInv /\ ContentInv /\ BudgetInv
  BY DEF BlockInv
<1>1. /\ c.pc \in {"write", "update"}
      /\ node' = [node EXCEPT ![i] = new] /\ dnode' = [dnode EXCEPT ![i] = new]
      /\ nlk' = [nlk EXCEPT ![i] = NoWriter] /\ off' = [off EXCEPT ![File(p)] = @ + c.tot] /\ Io(p, d)
      /\ spans' = IF c.tot = 0 THEN spans ELSE spans \union {<<c.f, c.at, c.at + c.tot - 1, ios>>}
      /\ UNCHANGED <<used, blk, ios, content, bpanic>>
  BY DEF Update, Written
<1>2. Writing(p)
  BY <1>1 DEF Writing
<1>3. /\ File(p) \in OpenFiles /\ i \in Nodes /\ nlk[i] = p /\ ~Unlocked(i) /\ File(p) = c.f
      /\ \A q \in IoProcs : q # p /\ Writing(q) => Ip(q) # i /\ File(q) # File(p)
  BY <1>0, <1>2, WriterAlone DEF File
<1>4. c \in IoType /\ c.at \in Nat /\ c.tot \in Nat /\ c.left \in Nat /\ c.at = off[c.f] /\ c.f \in OpenFiles
  BY <1>0, <1>2, <1>3 DEF BlockType, IoType, LockInv
<1>5. node[i].size \in Nat /\ node[i].addrs \in AddrType /\ new.size = Size(i, c.at + c.tot) /\ new.addrs = node[i].addrs
      /\ new \in [size : Nat, addrs : AddrType]
  <2>1. node[i] \in [size : Nat, addrs : AddrType]
    BY <1>0, <1>3 DEF BlockType
  <2>2. Size(i, c.at + c.tot) \in Nat
    BY <2>1, <1>4 DEF Size
  <2> HIDE DEF i, c
  <2>3. new = [size |-> Size(i, c.at + c.tot), addrs |-> node[i].addrs]
    BY <2>1
  <2> HIDE DEF new
  <2>4. new.size = Size(i, c.at + c.tot) /\ new.addrs = node[i].addrs
    BY <2>3
  <2> QED
    BY <2>1, <2>2, <2>3, <2>4
<1>6. d \in IoType /\ d.pc \in {"user", "chunk"} /\ d.logged = {} /\ (d.pc # "user" => d.f = c.f)
  <2>1. CASE c.tot = c.n /\ left > 0
    <3>1. left \in Nat
      BY <1>4, <2>1
    <3> HIDE DEF left
    <3>2. d = [NoIo EXCEPT !.pc = "chunk", !.f = c.f, !.left = left]
      BY <2>1
    <3> QED
      BY <1>4, <3>1, <3>2 DEF NoIo, IoType
  <2>2. CASE ~(c.tot = c.n /\ left > 0)
    BY <2>2, NoIoTyped
  <2> QED
    BY <2>1, <2>2
<1> HIDE DEF d, new, left
<1>7. /\ io' \in [IoProcs -> IoType] /\ io'[p] = d
      /\ \A q \in IoProcs : q # p => io'[q] = io[q]
  BY <1>0, <1>1, <1>6, IoPiece
<1>8. /\ node' \in [Nodes -> [size : Nat, addrs : AddrType]] /\ dnode' \in [Nodes -> [size : Nat, addrs : AddrType]]
      /\ node'[i] = new /\ dnode'[i] = new
      /\ \A j \in Nodes : j # i => node'[j] = node[j] /\ dnode'[j] = dnode[j]
  BY <1>0, <1>1, <1>3, <1>5 DEF BlockType
<1>9. /\ nlk' \in [Nodes -> IoProcs \union {NoWriter}] /\ nlk'[i] = NoWriter /\ \A j \in Nodes : j # i => nlk'[j] = nlk[j]
  BY <1>0, <1>1, <1>3 DEF BlockType
<1>10. /\ off' \in [OpenFiles -> Nat] /\ off'[c.f] = c.at + c.tot /\ \A f \in OpenFiles : f # c.f => off'[f] = off[f]
  BY <1>0, <1>1, <1>3, <1>4 DEF BlockType
<1>11. BlockType'
  <2>1. spans' \subseteq OpenFiles \X Nat \X Nat \X Nat
    <3>1. CASE c.tot = 0
      BY <3>1, <1>0, <1>1 DEF BlockType
    <3>2. CASE c.tot # 0
      <4>1. c.at + c.tot - 1 \in Nat /\ ios \in Nat
        BY <1>0, <1>4, <3>2 DEF BlockType
      <4>2. <<c.f, c.at, c.at + c.tot - 1, ios>> \in OpenFiles \X Nat \X Nat \X Nat
        BY <4>1, <1>4
      <4>3. spans' = spans \union {<<c.f, c.at, c.at + c.tot - 1, ios>>}
        BY <1>1, <3>2
      <4> QED
        BY <4>2, <4>3, <1>0 DEF BlockType
    <3> QED
      BY <3>1, <3>2
  <2> QED
    BY <1>0, <1>1, <1>7, <1>8, <1>9, <1>10, <2>1 DEF BlockType
<1>12. OwnInv'
  <2>1. \A j \in Nodes : node'[j].addrs = node[j].addrs
    BY <1>5, <1>8
  <2>2. Addrs' = Addrs
    BY <2>1 DEF Addrs
  <2> QED
    BY <1>0, <1>1, <2>2 DEF OwnInv
<1>13. ~Writing(p)' /\ \A q \in IoProcs : q # p => Writing(q)' = Writing(q)
  BY <1>6, <1>7 DEF Writing
<1>14. \A q \in IoProcs : q # p => Ip(q)' = Ip(q) /\ File(q)' = File(q)
  BY <1>7 DEF Ip, File
<1>15. LockInv'
  <2>1. \A q \in IoProcs : io'[q].pc # "user" => io'[q].f \in OpenFiles
    BY <1>0, <1>4, <1>6, <1>7 DEF LockInv
  <2>2. ASSUME NEW q \in IoProcs, Writing(q)'
        PROVE  /\ nlk'[Ip(q)'] = q /\ io'[q].at = off'[File(q)'] /\ io'[q].at <= node'[Ip(q)'].size
               /\ io'[q].tot <= io'[q].n /\ io'[q].n <= ChunkMax /\ io'[q].at + io'[q].n <= MAXFILE * BSIZE
    <3>1. q # p /\ Writing(q) /\ Ip(q)' = Ip(q) /\ File(q)' = File(q) /\ io'[q] = io[q]
      BY <2>2, <1>7, <1>13, <1>14
    <3>2. Ip(q) # i /\ File(q) # c.f /\ Ip(q) \in Nodes /\ File(q) \in OpenFiles
      BY <3>1, <1>0, <1>3, WriterAlone
    <3> QED
      BY <1>0, <1>8, <1>9, <1>10, <3>1, <3>2 DEF LockInv
  <2>3. ASSUME NEW j \in Nodes, NEW q \in IoProcs, nlk'[j] = q
        PROVE  Writing(q)' /\ Ip(q)' = j
    <3>1. j # i /\ nlk[j] = q
      BY <2>3, <1>9, BlockAssumption
    <3>2. Writing(q) /\ Ip(q) = j /\ q # p
      BY <3>1, <1>0 DEF LockInv
    <3> QED
      BY <3>2, <1>13, <1>14
  <2> QED
    BY <2>1, <2>2, <2>3 DEF LockInv
<1>16. SpanInv'
  <2>0. \A s \in spans : s[1] \in OpenFiles /\ s[2] \in Nat /\ s[3] \in Nat /\ s[2] <= s[3] /\ s[3] < off[s[1]]
    BY <1>0 DEF BlockType, SpanInv
  <2>1. \A f \in OpenFiles : off[f] <= off'[f] /\ off[f] \in Nat /\ off'[f] \in Nat
    BY <1>0, <1>4, <1>10 DEF BlockType
  <2>2. \A s \in spans : s[2] <= s[3] /\ s[3] < off'[s[1]]
    BY <2>0, <2>1
  <2>3. CASE c.tot = 0
    <3>1. spans' = spans
      BY <1>1, <2>3
    <3> QED
      BY <1>0, <2>2, <3>1 DEF SpanInv, SharedWritesDisjoint
  <2>4. CASE c.tot # 0
    <3> DEFINE t == <<c.f, c.at, c.at + c.tot - 1, ios>>
    <3>1. spans' = spans \union {t}
      BY <1>1, <2>4
    <3>2. t[1] = c.f /\ t[2] = c.at /\ t[3] = c.at + c.tot - 1
      OBVIOUS
    <3> HIDE DEF t
    <3>3. t[2] <= t[3] /\ t[3] < off'[t[1]]
      BY <1>4, <1>10, <2>4, <3>2
    <3>4. \A s \in spans : s[1] = t[1] => s[3] < t[2]
      BY <2>0, <1>4, <3>2
    <3>5. SharedWritesDisjoint'
      BY <1>0, <3>1, <3>4 DEF SpanInv, SharedWritesDisjoint
    <3> QED
      BY <2>2, <3>1, <3>3, <3>5 DEF SpanInv
  <2> QED
    BY <2>3, <2>4
<1>17. ContentInv'
  <2> SUFFICES ASSUME NEW j \in Nodes
               PROVE  /\ Len(content'[j]) = IF Unlocked(j)' THEN node'[j].size ELSE Size(j, io[nlk[j]].at + io[nlk[j]].tot)'
                      /\ Len(content'[j]) <= MAXFILE * BSIZE
                      /\ Holds(blk', node'[j].addrs, content'[j])
                      /\ Unlocked(j)' => dnode'[j] = node'[j]
    BY DEF ContentInv
  <2>1. /\ Len(content[j]) <= MAXFILE * BSIZE /\ Holds(blk, node[j].addrs, content[j])
        /\ Len(content[j]) = IF Unlocked(j) THEN node[j].size ELSE Size(j, io[nlk[j]].at + io[nlk[j]].tot)
        /\ Unlocked(j) => dnode[j] = node[j]
    BY <1>0 DEF ContentInv
  <2>2. CASE j = i
    <3>1. Unlocked(j)'
      BY <2>2, <1>9 DEF Unlocked
    <3>2. Len(content[j]) = new.size
      BY <2>1, <2>2, <1>3, <1>5
    <3>3. node'[j] = new /\ dnode'[j] = new /\ new.addrs = node[j].addrs
      BY <2>2, <1>5, <1>8
    <3> QED
      BY <2>1, <3>1, <3>2, <3>3, <1>1
  <2>3. CASE j # i
    <3>1. nlk'[j] = nlk[j] /\ Unlocked(j)' = Unlocked(j) /\ node'[j] = node[j] /\ dnode'[j] = dnode[j]
      BY <2>3, <1>8, <1>9 DEF Unlocked
    <3>2. ~Unlocked(j) => io'[nlk'[j]] = io[nlk[j]]
      <4> SUFFICES ASSUME ~Unlocked(j)
                   PROVE  io'[nlk'[j]] = io[nlk[j]]
        OBVIOUS
      <4>1. PICK q \in IoProcs : nlk[j] = q
        BY <1>0 DEF BlockType, Unlocked
      <4>2. Ip(q) = j
        BY <4>1, <1>0 DEF LockInv
      <4> QED
        BY <4>1, <4>2, <2>3, <1>7, <3>1
    <3> QED
      BY <2>1, <3>1, <3>2, <1>1 DEF Size
  <2> QED
    BY <2>2, <2>3
<1>18. BudgetInv'
  <2> SUFFICES ASSUME NEW q \in IoProcs
               PROVE  IF Writing(q)' THEN Budget(io'[q], node'[Ip(q)'].addrs) ELSE io'[q].logged = {}
    BY DEF BudgetInv, Budget
  <2>1. CASE q = p
    BY <2>1, <1>6, <1>7, <1>13
  <2>2. CASE q # p
    <3>1. Writing(q) => Ip(q) # i /\ Ip(q) \in Nodes
      BY <2>2, <1>0, <1>3, WriterAlone
    <3> QED
      BY <2>2, <3>1, <1>0, <1>7, <1>8, <1>13, <1>14 DEF BudgetInv
  <2> QED
    BY <2>1, <2>2
<1> QED
  BY <1>11, <1>12, <1>15, <1>16, <1>17, <1>18 DEF BlockInv

\* fileread keeps the invariant.
LEMMA FileReadInv ==
    ASSUME BlockInv, NEW p \in IoProcs, NEW f \in OpenFiles, NEW n \in Counts, FileRead(p, f, n)
    PROVE  BlockInv'
<1> DEFINE i == InodeOf[f]
           k == IF off[f] > node[i].size THEN 0 ELSE Smaller(n, node[i].size - off[f])
<1>0. BlockType /\ LockInv /\ OwnInv /\ SpanInv /\ ContentInv /\ BudgetInv
  BY DEF BlockInv
<1>1. /\ Unlocked(i) /\ ios' = ios + 1
      /\ UNCHANGED <<used, blk, node, dnode, nlk, io, content, spans, bpanic>>
  BY DEF FileRead
<1>2. i \in Nodes /\ node[i].size \in Nat /\ off[f] \in Nat
  BY <1>0, OpenNode DEF BlockType
<1>3. PICK r \in {k, 0} : off' = [off EXCEPT ![f] = @ + r]
  BY DEF FileRead
<1>31. r \in Nat
  BY <1>2, BlockAssumption DEF Smaller
<1> HIDE DEF k
<1>4. off' \in [OpenFiles -> Nat] /\ off'[f] = off[f] + r /\ \A g \in OpenFiles : g # f => off'[g] = off[g]
  BY <1>0, <1>1, <1>2, <1>3, <1>31 DEF BlockType
<1>5. BlockType'
  BY <1>0, <1>1, <1>4 DEF BlockType
<1>6. OwnInv'
  BY <1>0, <1>1 DEF OwnInv, Addrs
<1>7. \A q \in IoProcs : Writing(q)' = Writing(q) /\ Ip(q)' = Ip(q) /\ File(q)' = File(q)
  BY <1>1 DEF Writing, Ip, File
<1>8. LockInv'
  <2>1. ASSUME NEW q \in IoProcs, Writing(q)
        PROVE  off'[File(q)] = off[File(q)]
    <3>1. File(q) \in OpenFiles /\ ~Unlocked(Ip(q))
      BY <2>1, <1>0, WriterAlone
    <3>2. File(q) # f
      BY <3>1, <1>1 DEF Ip
    <3> QED
      BY <3>1, <3>2, <1>4
  <2> QED
    BY <1>0, <1>1, <1>7, <2>1 DEF LockInv
<1>9. SpanInv'
  <2>0. \A s \in spans : s[1] \in OpenFiles /\ s[2] \in Nat /\ s[3] \in Nat /\ s[2] <= s[3] /\ s[3] < off[s[1]]
    BY <1>0 DEF BlockType, SpanInv
  <2>1. ASSUME NEW g \in OpenFiles
        PROVE  off[g] <= off'[g] /\ off[g] \in Nat /\ off'[g] \in Nat
    <3>1. off[g] \in Nat /\ off'[g] \in Nat
      BY <1>0, <1>4 DEF BlockType
    <3>2. CASE g = f
      BY <3>1, <3>2, <1>31, <1>4
    <3>3. CASE g # f
      BY <3>1, <3>3, <1>4
    <3> QED
      BY <3>1, <3>2, <3>3
  <2>2. \A s \in spans : s[2] <= s[3] /\ s[3] < off'[s[1]]
    BY <2>0, <2>1
  <2> QED
    BY <1>0, <1>1, <2>2 DEF SpanInv, SharedWritesDisjoint
<1>10. ContentInv'
  BY <1>0, <1>1 DEF ContentInv, Unlocked, Size
<1>11. BudgetInv'
  BY <1>0, <1>1, <1>7 DEF BudgetInv
<1> QED
  BY <1>5, <1>6, <1>8, <1>9, <1>10, <1>11 DEF BlockInv

\* The blocks an inode owns, as itrunc finds them.
LEMMA BlocksOfPlaces ==
    ASSUME NEW i \in Nodes
    PROVE  BlocksOf(node[i].addrs) = {PlaceMap(blk, Addrs)[i][k] : k \in Places} \ {0}
<1> DEFINE a == node[i].addrs
           V == PlaceMap(blk, Addrs)
<1>1. \A k \in Places : V[i][k] = Place(blk, a, k)
  BY DEF PlaceMap, Addrs
<1> HIDE DEF a, V
<1>2. ASSUME NEW b \in BlocksOf(a)
      PROVE  b # 0 /\ \E k \in Places : V[i][k] = b
  <2>1. CASE b \in {a[k] : k \in 0 .. NDIRECT} \ {0}
    <3>1. PICK k \in 0 .. NDIRECT : a[k] = b
      BY <2>1
    <3>2. k \in Places /\ Place(blk, a, k) = a[k]
      BY PositionsTyped DEF Place
    <3> QED
      BY <1>1, <2>1, <3>1, <3>2
  <2>2. CASE b \in Entries(a)
    <3>1. a[NDIRECT] # 0 /\ b # 0 /\ b \in {blk[a[NDIRECT]][k] : k \in 0 .. NINDIRECT - 1}
      BY <2>2 DEF Entries
    <3>2. PICK e \in 0 .. NINDIRECT - 1 : blk[a[NDIRECT]][e] = b
      BY <3>1
    <3>3. e + NDIRECT + 1 \in Places /\ ~(e + NDIRECT + 1 <= NDIRECT) /\ e + NDIRECT + 1 - NDIRECT - 1 = e
      BY PositionsTyped DEF Places
    <3>4. Place(blk, a, e + NDIRECT + 1) = b
      <4> DEFINE k == e + NDIRECT + 1
      <4>1. ~(k <= NDIRECT) /\ k - NDIRECT - 1 = e
        <5>1. e \in Nat /\ NDIRECT \in Nat
          BY PositionsTyped
        <5> QED
          BY <5>1
      <4> HIDE DEF k
      <4>2. Place(blk, a, k) = blk[a[NDIRECT]][k - NDIRECT - 1]
        BY <3>1, <4>1, Zenon DEF Place
      <4>3. Place(blk, a, k) = b
        BY <4>1, <4>2, <3>2, Zenon
      <4> QED
        BY <4>3 DEF k
    <3> QED
      BY <1>1, <3>1, <3>3, <3>4
  <2> QED
    BY <2>1, <2>2 DEF BlocksOf
<1>3. ASSUME NEW k \in Places, V[i][k] # 0
      PROVE  V[i][k] \in BlocksOf(a)
  <2>1. CASE k <= NDIRECT
    <3>1. k \in 0 .. NDIRECT /\ V[i][k] = a[k]
      BY <1>1, <2>1, PositionsTyped DEF Place, Places
    <3> QED
      BY <1>3, <3>1 DEF BlocksOf
  <2>2. CASE ~(k <= NDIRECT)
    <3>1. a[NDIRECT] # 0 /\ V[i][k] = blk[a[NDIRECT]][k - NDIRECT - 1]
      BY <1>1, <1>3, <2>2 DEF Place
    <3>2. k - NDIRECT - 1 \in 0 .. NINDIRECT - 1
      BY <2>2, PositionsTyped DEF Places
    <3>3. V[i][k] \in Entries(a)
      BY <1>3, <3>1, <3>2 DEF Entries
    <3> QED
      BY <3>3 DEF BlocksOf
  <2> QED
    BY <2>1, <2>2
<1>4. BlocksOf(a) = {V[i][k] : k \in Places} \ {0}
  BY <1>2, <1>3
<1> QED
  BY <1>4 DEF a, V

\* The places of inode i, and only these, are emptied.
Emptied(V, V2, i) == \A j \in Nodes : \A l \in Places : V2[j][l] = IF j = i THEN 0 ELSE V[j][l]

\* An inode loses all its blocks.
LEMMA OwnedRemove ==
    ASSUME NEW U, 0 \notin U, NEW V, NEW V2, Owned(U, V), NEW i \in Nodes, NEW B, B = {V[i][k] : k \in Places} \ {0},
           Emptied(V, V2, i)
    PROVE  Owned(U \ B, V2) /\ B \subseteq U
<1>0. \A j \in Nodes : \A l \in Places : V2[j][l] = IF j = i THEN 0 ELSE V[j][l]
  BY DEF Emptied
<1>1. B \subseteq U
  BY DEF Owned
<1>2. \A j \in Nodes : \A l \in Places : V2[j][l] \in (U \ B) \union {0}
  BY <1>0 DEF Owned
<1>3. \A j, m \in Nodes : \A l, n \in Places : V2[j][l] = V2[m][n] /\ V2[j][l] # 0 => j = m /\ l = n
  BY <1>0 DEF Owned
<1>4. ASSUME NEW c \in U \ B PROVE \E j \in Nodes : \E l \in Places : V2[j][l] = c
  <2>1. PICK j \in Nodes, l \in Places : V[j][l] = c
    BY DEF Owned
  <2>2. j # i
    BY <2>1
  <2> QED
    BY <1>0, <2>1, <2>2
<1> QED
  BY <1>1, <1>2, <1>3, <1>4 DEF Owned

\* itrunc keeps the invariant: all it frees was in use.
LEMMA ItruncInv ==
    ASSUME BlockInv, NEW p \in IoProcs, NEW f \in OpenFiles, Itrunc(p, f)
    PROVE  BlockInv'
<1> DEFINE i == InodeOf[f]
           B == BlocksOf(node[i].addrs)
           empty == [size |-> 0, addrs |-> [k \in 0 .. NDIRECT |-> 0]]
<1>0. BlockType /\ LockInv /\ OwnInv /\ SpanInv /\ ContentInv /\ BudgetInv
  BY DEF BlockInv
<1>1. /\ Unlocked(i) /\ bpanic' = (bpanic \/ ~(B \subseteq used)) /\ used' = used \ B
      /\ node' = [node EXCEPT ![i] = empty] /\ dnode' = [dnode EXCEPT ![i] = empty]
      /\ content' = [content EXCEPT ![i] = <<>>] /\ off' = [off EXCEPT ![f] = 0]
      /\ spans' = {s \in spans : InodeOf[s[1]] # i} /\ ios' = ios + 1 /\ UNCHANGED <<blk, nlk, io>>
  BY DEF Itrunc, Bfree
<1>2. i \in Nodes
  BY OpenNode
<1>3. empty \in [size : Nat, addrs : AddrType] /\ empty.size = 0 /\ \A k \in 0 .. NDIRECT : empty.addrs[k] = 0
  BY DEF AddrType
<1> HIDE DEF B, empty
<1>4. /\ node' \in [Nodes -> [size : Nat, addrs : AddrType]] /\ dnode' \in [Nodes -> [size : Nat, addrs : AddrType]]
      /\ node'[i] = empty /\ dnode'[i] = empty
      /\ \A j \in Nodes : j # i => node'[j] = node[j] /\ dnode'[j] = dnode[j]
  BY <1>0, <1>1, <1>2, <1>3 DEF BlockType
<1>5. /\ content' \in [Nodes -> Seq(SUBSET Nat)] /\ content'[i] = <<>> /\ \A j \in Nodes : j # i => content'[j] = content[j]
  <2>1. <<>> \in Seq(SUBSET Nat)
    OBVIOUS
  <2> QED
    BY <1>0, <1>1, <1>2, <2>1 DEF BlockType
<1>6. /\ off' \in [OpenFiles -> Nat] /\ \A g \in OpenFiles : g # f => off'[g] = off[g]
  BY <1>0, <1>1 DEF BlockType
<1>7. BlockType'
  BY <1>0, <1>1, <1>4, <1>5, <1>6 DEF BlockType
<1>8. OwnInv'
  <2> DEFINE V == PlaceMap(blk, Addrs)
             V2 == PlaceMap(blk', Addrs')
  <2>1. Emptied(V, V2, i)
    <3> SUFFICES ASSUME NEW j \in Nodes, NEW l \in Places
                 PROVE  V2[j][l] = IF j = i THEN 0 ELSE V[j][l]
      BY DEF Emptied
    <3>1. V2[j][l] = Place(blk, node'[j].addrs, l) /\ V[j][l] = Place(blk, node[j].addrs, l)
      BY <1>1 DEF PlaceMap, Addrs
    <3>2. CASE j = i
      BY <3>1, <3>2, <1>3, <1>4, PositionsTyped DEF Place, Places
    <3>3. CASE j # i
      BY <3>1, <3>3, <1>4
    <3> QED
      BY <3>2, <3>3
  <2>2. Owned(used, V) /\ 0 \notin used /\ B = {V[i][k] : k \in Places} \ {0}
    BY <1>0, <1>2, BlocksOfPlaces, BlockAssumption DEF OwnInv, BlockType, B
  <2> HIDE DEF V, V2, i
  <2>3. Owned(used \ B, V2)
    BY <1>2, <2>1, <2>2, OwnedRemove, Zenon
  <2>4. B \subseteq used
    BY <1>2, <2>1, <2>2, OwnedRemove, Zenon
  <2> QED
    BY <1>0, <1>1, <2>3, <2>4 DEF OwnInv, V2
<1>9. \A q \in IoProcs : Writing(q)' = Writing(q) /\ Ip(q)' = Ip(q) /\ File(q)' = File(q)
  BY <1>1 DEF Writing, Ip, File
<1>10. \A q \in IoProcs : Writing(q) => Ip(q) # i /\ File(q) # f /\ Ip(q) \in Nodes /\ File(q) \in OpenFiles
  BY <1>0, <1>1, WriterAlone DEF Ip
<1>11. LockInv'
  BY <1>0, <1>1, <1>4, <1>6, <1>9, <1>10 DEF LockInv
<1>12. SpanInv'
  <2>1. \A s \in spans' : s \in spans /\ s[1] \in OpenFiles /\ s[1] # f
    BY <1>0, <1>1 DEF BlockType
  <2> QED
    BY <1>0, <1>6, <2>1 DEF SpanInv, SharedWritesDisjoint
<1>13. ContentInv'
  <2> SUFFICES ASSUME NEW j \in Nodes
               PROVE  /\ Len(content'[j]) = IF Unlocked(j)' THEN node'[j].size ELSE Size(j, io[nlk[j]].at + io[nlk[j]].tot)'
                      /\ Len(content'[j]) <= MAXFILE * BSIZE
                      /\ Holds(blk', node'[j].addrs, content'[j])
                      /\ Unlocked(j)' => dnode'[j] = node'[j]
    BY DEF ContentInv
  <2>1. CASE j = i
    <3>1. MAXFILE * BSIZE \in Nat
      BY PositionsTyped
    <3>2. Len(content'[j]) = 0 /\ Unlocked(j)' /\ node'[j] = dnode'[j] /\ node'[j].size = 0
      BY <2>1, <1>1, <1>3, <1>4, <1>5 DEF Unlocked
    <3>3. Holds(blk', node'[j].addrs, content'[j])
      BY <3>2 DEF Holds
    <3> QED
      BY <3>1, <3>2, <3>3
  <2>2. CASE j # i
    BY <2>2, <1>0, <1>1, <1>4, <1>5 DEF ContentInv, Unlocked, Size
  <2> QED
    BY <2>1, <2>2
<1>14. BudgetInv'
  BY <1>0, <1>1, <1>4, <1>9, <1>10 DEF BudgetInv
<1> QED
  BY <1>7, <1>8, <1>11, <1>12, <1>13, <1>14 DEF BlockInv

\* k bytes of block g set to val, from the place of position from on.
Scribble(bl, g, from, k, val) ==
    [bl EXCEPT ![g] = [y \in DOMAIN @ |-> IF y >= from % BSIZE /\ y < (from % BSIZE) + k THEN val ELSE @[y]]]

Bytes(bl, bl2, g, from, k, val) ==
    \A y \in 0 .. BSIZE - 1 : bl2[g][y] = IF y >= from % BSIZE /\ y < (from % BSIZE) + k THEN val ELSE bl[g][y]

\* What such a write does to the blocks.
LEMMA ScribbleEffect ==
    ASSUME NEW bl \in BlockData, NEW g \in DataBlocks, NEW from \in Nat, NEW k \in Nat, NEW val \in Nat
    PROVE  /\ Scribble(bl, g, from, k, val) \in BlockData
           /\ \A b \in DataBlocks : b # g => Scribble(bl, g, from, k, val)[b] = bl[b]
           /\ Bytes(bl, Scribble(bl, g, from, k, val), g, from, k, val)
<1> DEFINE row == [y \in 0 .. Words - 1 |-> IF y >= from % BSIZE /\ y < (from % BSIZE) + k THEN val ELSE bl[g][y]]
           bl2 == Scribble(bl, g, from, k, val)
<1>1. bl \in [DataBlocks -> [0 .. Words - 1 -> Nat]]
  BY DEF BlockData
<1>2. bl2 = [bl EXCEPT ![g] = row]
  BY <1>1 DEF Scribble
<1>3. row \in [0 .. Words - 1 -> Nat]
  BY <1>1
<1>4. \A y \in 0 .. BSIZE - 1 : row[y] = IF y >= from % BSIZE /\ y < (from % BSIZE) + k THEN val ELSE bl[g][y]
  BY PositionsTyped
<1> HIDE DEF row, bl2
<1>5. bl2 \in [DataBlocks -> [0 .. Words - 1 -> Nat]] /\ bl2[g] = row /\ \A b \in DataBlocks : b # g => bl2[b] = bl[b]
  BY <1>1, <1>2, <1>3
<1>6. bl2 \in BlockData
  BY <1>5 DEF BlockData
<1>7. \A b \in DataBlocks : b # g => bl2[b] = bl[b]
  BY <1>5
<1>8. Bytes(bl, bl2, g, from, k, val)
  BY <1>4, <1>5 DEF Bytes
<1> QED
  BY <1>6, <1>7, <1>8 DEF bl2

\* A turn that wrote no byte keeps what is in the files.
LEMMA StepKept ==
    ASSUME NEW w, NEW v, NEW i \in Nodes, NEW ad \in [Nodes -> AddrType], NEW k \in Places, Step(w, v, i, ad, k), NEW j \in Nodes
    PROVE  Unmoved(w.blk, ad[j], v.blk, [ad EXCEPT ![i] = v.addrs][j], 0)
<1> DEFINE a2 == [ad EXCEPT ![i] = v.addrs]
           V == PlaceMap(w.blk, ad)
           V2 == PlaceMap(v.blk, a2)
<1>0. a2 = [ad EXCEPT ![i] = v.addrs] /\ V = PlaceMap(w.blk, ad) /\ V2 = PlaceMap(v.blk, a2)
  OBVIOUS
<1> HIDE DEF a2, V, V2
<1>1. \A l \in Places : V[j][l] = Place(w.blk, ad[j], l) /\ V2[j][l] = Place(v.blk, a2[j], l)
  BY <1>0 DEF PlaceMap
<1>2. \A l \in Places : V[j][l] # 0 => V2[j][l] = V[j][l]
  BY <1>0, Zenon DEF Step
<1>3. \A l \in Places : l # NDIRECT /\ V[j][l] # 0 => v.blk[V[j][l]] = w.blk[V[j][l]]
  BY <1>0, Zenon DEF Step
<1>4. Unmoved(w.blk, ad[j], v.blk, a2[j], 0)
  BY <1>1, <1>2, <1>3, Zenon DEF Unmoved
<1> QED
  BY <1>4 DEF a2

\* Bytes written to the block that bmap returned: no other place sees them.
Unseen(w, v, i, ad, k, bl2, a2) ==
    /\ bl2 \in BlockData /\ v.got \in DataBlocks
    /\ PlaceMap(bl2, a2) = PlaceMap(v.blk, a2)
    /\ \A j \in Nodes : Unmoved(w.blk, ad[j], bl2, a2[j], IF j = i THEN v.got ELSE 0)
    /\ \A l \in Places : Place(bl2, a2[i], l) = v.got <=> l = k
    /\ Place(w.blk, ad[i], k) # 0 => v.blk[v.got] = w.blk[v.got]

\* The block is not an indirect block, nor in a second place.
LEMMA ScribbleKept ==
    ASSUME NEW w, NEW v, NEW i \in Nodes, NEW ad \in [Nodes -> AddrType], NEW k \in Places, k # NDIRECT,
           Step(w, v, i, ad, k), v.got # 0, NEW from \in Nat, NEW m \in Nat, NEW val \in Nat
    PROVE  Unseen(w, v, i, ad, k, Scribble(v.blk, v.got, from, m, val), [ad EXCEPT ![i] = v.addrs])
<1> DEFINE a2 == [ad EXCEPT ![i] = v.addrs]
           V == PlaceMap(w.blk, ad)
           V2 == PlaceMap(v.blk, a2)
           g == v.got
           bl2 == Scribble(v.blk, v.got, from, m, val)
<1>0. V = PlaceMap(w.blk, ad) /\ V2 = PlaceMap(v.blk, a2) /\ a2 = [ad EXCEPT ![i] = v.addrs]
      /\ bl2 = Scribble(v.blk, v.got, from, m, val)
  OBVIOUS
<1> HIDE DEF V, V2, a2, bl2
<1>1. v \in WorkType /\ Owned(v.used, V2) /\ g = V2[i][k]
  BY <1>0, Zenon DEF Step
<1>2. a2 \in [Nodes -> AddrType]
  BY <1>0, <1>1 DEF WorkType
<1>3. \A j \in Nodes : \A l \in Places : V[j][l] = Place(w.blk, ad[j], l) /\ V2[j][l] = Place(v.blk, a2[j], l)
  BY <1>0 DEF PlaceMap
<1>4. \A j \in Nodes : \A l \in Places : V[j][l] # 0 => V2[j][l] = V[j][l]
  BY <1>0, Zenon DEF Step
<1>5. \A j \in Nodes : \A l \in Places : l # NDIRECT /\ V[j][l] # 0 => v.blk[V[j][l]] = w.blk[V[j][l]]
  BY <1>0, Zenon DEF Step
<1>6. v.blk \in BlockData /\ v.used \subseteq DataBlocks
  BY <1>1 DEF WorkType
<1>7. /\ \A j \in Nodes : \A l \in Places : V2[j][l] \in v.used \union {0}
      /\ \A j \in Nodes : \A l \in Places : V2[j][l] = g => j = i /\ l = k
  <2>1. \A j, h \in Nodes : \A l, n \in Places : V2[j][l] = V2[h][n] /\ V2[j][l] # 0 => j = h /\ l = n
    BY <1>1, Zenon DEF Owned
  <2>2. \A j \in Nodes : \A l \in Places : V2[j][l] \in v.used \union {0}
    BY <1>1, Zenon DEF Owned
  <2> QED
    BY <1>1, <2>1, <2>2
<1>8. g \in DataBlocks
  BY <1>1, <1>6, <1>7
<1>9. bl2 \in BlockData /\ \A b \in DataBlocks : b # g => bl2[b] = v.blk[b]
  <2>1. bl2 = Scribble(v.blk, g, from, m, val)
    BY <1>0
  <2> HIDE DEF g
  <2>2. Scribble(v.blk, g, from, m, val) \in BlockData
    BY <1>6, <1>8, ScribbleEffect
  <2>3. \A b \in DataBlocks : b # g => Scribble(v.blk, g, from, m, val)[b] = v.blk[b]
    BY <1>6, <1>8 DEF Scribble, BlockData
  <2> QED
    BY <2>1, <2>2, <2>3
<1> HIDE DEF g
<1>10. ASSUME NEW j \in Nodes, NEW l \in Places PROVE Place(bl2, a2[j], l) = V2[j][l]
  <2>1. V2[j][NDIRECT] = a2[j][NDIRECT]
    <3>1. V2[j][NDIRECT] = Place(v.blk, a2[j], NDIRECT)
      BY <1>3, PositionsTyped
    <3> QED
      BY <3>1, PositionsTyped DEF Place
  <2>2. a2[j][NDIRECT] # g /\ a2[j][NDIRECT] \in v.used \union {0}
    BY <2>1, <1>7, PositionsTyped
  <2>3. a2[j][NDIRECT] # 0 => bl2[a2[j][NDIRECT]] = v.blk[a2[j][NDIRECT]]
    BY <2>2, <1>6, <1>9
  <2>4. a2[j] \in AddrType
    BY <1>2
  <2>5. Place(bl2, a2[j], l) = Place(v.blk, a2[j], l)
    BY <2>3, <2>4, PlaceData, Zenon
  <2> QED
    BY <2>5, <1>3
<1>11. PlaceMap(bl2, a2) = V2
  BY <1>3, <1>10 DEF PlaceMap, V2
<1>12. ASSUME NEW j \in Nodes PROVE Unmoved(w.blk, ad[j], bl2, a2[j], IF j = i THEN g ELSE 0)
  <2> SUFFICES ASSUME NEW l \in Places, l # NDIRECT, Place(w.blk, ad[j], l) # 0
               PROVE  /\ Place(bl2, a2[j], l) = Place(w.blk, ad[j], l)
                      /\ Place(w.blk, ad[j], l) # (IF j = i THEN g ELSE 0) => bl2[Place(w.blk, ad[j], l)] = w.blk[Place(w.blk, ad[j], l)]
    BY Zenon DEF Unmoved
  <2>1. Place(w.blk, ad[j], l) = V[j][l] /\ V[j][l] # 0 /\ V2[j][l] = V[j][l] /\ v.blk[V[j][l]] = w.blk[V[j][l]]
    BY <1>3, <1>4, <1>5
  <2>2. V2[j][l] \in DataBlocks
    BY <1>6, <1>7, <2>1
  <2>3. j # i => V2[j][l] # g
    BY <1>7
  <2> QED
    BY <1>9, <1>10, <2>1, <2>2, <2>3
<1>13. \A l \in Places : Place(bl2, a2[i], l) = g <=> l = k
  BY <1>1, <1>7, <1>10 DEF g
<1>14. Place(w.blk, ad[i], k) # 0 => v.blk[g] = w.blk[g]
  BY <1>1, <1>3, <1>4, <1>5 DEF g
<1> QED
  BY <1>8, <1>9, <1>11, <1>12, <1>13, <1>14 DEF g, V2, bl2, a2, Unseen

\* The ghost content after a write.
LEMMA OverwrittenEffect ==
    ASSUME NEW s \in Seq(SUBSET Nat), NEW from \in Nat, NEW k \in Nat, from <= Len(s), ios \in Nat
    PROVE  /\ Overwritten(s, from, k) \in Seq(SUBSET Nat)
           /\ Len(Overwritten(s, from, k)) = IF from + k > Len(s) THEN from + k ELSE Len(s)
           /\ \A x \in 0 .. Len(Overwritten(s, from, k)) - 1 :
                  Overwritten(s, from, k)[x + 1] = IF from <= x /\ x < from + k THEN {ios} ELSE s[x + 1]
<1> DEFINE n == IF from + k > Len(s) THEN from + k ELSE Len(s)
           t == [j \in 1 .. n |-> IF j > from /\ j <= from + k THEN {ios} ELSE s[j]]
<1>1. Overwritten(s, from, k) = t
  BY DEF Overwritten
<1>2. n \in Nat /\ (n <= Len(s) \/ n = from + k) /\ n >= Len(s)
  OBVIOUS
<1> HIDE DEF n
<1>3. \A j \in 1 .. n : (IF j > from /\ j <= from + k THEN {ios} ELSE s[j]) \in SUBSET Nat
  <2> SUFFICES ASSUME NEW j \in 1 .. n, ~(j > from /\ j <= from + k)
               PROVE  s[j] \in SUBSET Nat
    OBVIOUS
  <2>1. j \in 1 .. Len(s)
    BY <1>2
  <2> QED
    BY <2>1
<1>4. t \in Seq(SUBSET Nat) /\ Len(t) = n
  BY <1>2, <1>3
<1>5. \A x \in 0 .. n - 1 : t[x + 1] = IF from <= x /\ x < from + k THEN {ios} ELSE s[x + 1]
  <2> SUFFICES ASSUME NEW x \in 0 .. n - 1
               PROVE  t[x + 1] = IF from <= x /\ x < from + k THEN {ios} ELSE s[x + 1]
    OBVIOUS
  <2>1. x + 1 \in 1 .. n /\ (x + 1 > from <=> from <= x) /\ (x + 1 <= from + k <=> x < from + k)
    BY <1>2
  <2> QED
    BY <2>1
<1> HIDE DEF t
<1> QED
  BY <1>1, <1>4, <1>5 DEF n

\* The ghost content after a turn that failed.
LEMMA TornEffect ==
    ASSUME NEW s \in Seq(SUBSET Nat), NEW from \in Nat, NEW k \in Nat, ios \in Nat
    PROVE  /\ Torn(s, from, k) \in Seq(SUBSET Nat) /\ Len(Torn(s, from, k)) = Len(s)
           /\ \A x \in 0 .. Len(s) - 1 :
                  Torn(s, from, k)[x + 1] = IF from <= x /\ x < from + k THEN s[x + 1] \union {ios} ELSE s[x + 1]
<1> DEFINE n == Len(s)
           t == [j \in 1 .. n |-> IF j > from /\ j <= from + k THEN s[j] \union {ios} ELSE s[j]]
<1>1. Torn(s, from, k) = t
  BY DEF Torn
<1>2. n \in Nat /\ \A j \in 1 .. n : s[j] \in SUBSET Nat
  OBVIOUS
<1> HIDE DEF n
<1>3. \A j \in 1 .. n : (IF j > from /\ j <= from + k THEN s[j] \union {ios} ELSE s[j]) \in SUBSET Nat
  BY <1>2
<1>4. t \in Seq(SUBSET Nat) /\ Len(t) = n
  BY <1>2, <1>3
<1>5. \A x \in 0 .. n - 1 : t[x + 1] = IF from <= x /\ x < from + k THEN s[x + 1] \union {ios} ELSE s[x + 1]
  <2> SUFFICES ASSUME NEW x \in 0 .. n - 1
               PROVE  t[x + 1] = IF from <= x /\ x < from + k THEN s[x + 1] \union {ios} ELSE s[x + 1]
    OBVIOUS
  <2>1. x + 1 \in 1 .. n /\ (x + 1 > from <=> from <= x) /\ (x + 1 <= from + k <=> x < from + k)
    BY <1>2
  <2> QED
    BY <2>1
<1> HIDE DEF t
<1> QED
  BY <1>1, <1>4, <1>5 DEF n

\* The indirect block costs at most two blocks of the log.
LEMMA IndirectTwo ==
    ASSUME NEW a2
    PROVE  IsFiniteSet(Indirect(a2)) /\ Cardinality(Indirect(a2)) <= 2
<1>1. CASE a2[NDIRECT] = 0
  <2>1. Indirect(a2) = {}
    BY <1>1 DEF Indirect
  <2> QED
    BY <2>1, FS_EmptySet
<1>2. CASE a2[NDIRECT] # 0
  <2> DEFINE S == {<<"block", a2[NDIRECT]>>}
             T == {<<"bitmap", a2[NDIRECT] \div BPB>>}
  <2>1. Indirect(a2) = S \union T
    BY <1>2 DEF Indirect
  <2>2. IsFiniteSet(S) /\ IsFiniteSet(T) /\ Cardinality(S) = 1 /\ Cardinality(T) = 1
    BY FS_Singleton
  <2> HIDE DEF S, T
  <2>3. IsFiniteSet(S \cap T) /\ Cardinality(S \cap T) \in Nat
    BY <2>2, FS_Intersection, FS_CardinalityType
  <2>4. IsFiniteSet(S \union T) /\ Cardinality(S \union T) = Cardinality(S) + Cardinality(T) - Cardinality(S \cap T)
    BY <2>2, FS_Union
  <2> QED
    BY <2>1, <2>2, <2>3, <2>4
<1> QED
  BY <1>1, <1>2

\* What one turn adds to the log.
LEMMA LogTurn ==
    ASSUME NEW c \in IoType, NEW a \in AddrType, NEW a2 \in AddrType, Budget(c, a), c.pc = "write", c.tot < c.n, c.n <= ChunkMax,
           NEW m \in Nat \ {0}, m = Span(c), Indirect(a) \subseteq Indirect(a2), NEW N, IsFiniteSet(N), Cardinality(N) <= 2,
           c.tot = 0 /\ c.at % BSIZE # 0 => Cardinality(N) <= 1,
           NEW L, L \subseteq c.logged \union Indirect(a2) \union N
    PROVE  /\ IsFiniteSet(L) /\ Cardinality(L \ Indirect(a2)) + 3 <= OpBlocks
           /\ Cardinality(L \ Indirect(a2)) + Spared(c.at, c.tot + m) <= 2 * Turns(c.at, c.tot + m)
           /\ c.tot + m = c.n \/ (c.at + c.tot + m) % BSIZE = 0
<1> DEFINE at == c.at
           tot == c.tot
           R == c.logged \ Indirect(a)
           R2 == L \ Indirect(a2)
<1>1. at \in Nat /\ tot \in Nat /\ c.n \in Nat
  BY DEF IoType
<1>2. IsFiniteSet(c.logged) /\ Cardinality(R) + Spared(at, tot) <= 2 * Turns(at, tot) /\ (tot = 0 \/ (at + tot) % BSIZE = 0)
  BY <1>1 DEF Budget
<1>3. IsFiniteSet(R) /\ Cardinality(R) \in Nat
  BY <1>2, FS_Subset, FS_CardinalityType
<1>4. IsFiniteSet(R \union N) /\ Cardinality(R \union N) <= Cardinality(R) + Cardinality(N) /\ Cardinality(R \union N) \in Nat
      /\ Cardinality(N) \in Nat
  <2>1. IsFiniteSet(R \cap N) /\ Cardinality(R \cap N) \in Nat /\ Cardinality(N) \in Nat
    BY <1>3, FS_Intersection, FS_CardinalityType
  <2>2. IsFiniteSet(R \union N) /\ Cardinality(R \union N) = Cardinality(R) + Cardinality(N) - Cardinality(R \cap N)
    BY <1>3, FS_Union
  <2>3. Cardinality(R \union N) \in Nat
    BY <2>2, FS_CardinalityType
  <2> QED
    BY <1>3, <2>1, <2>2, <2>3
<1>5. R2 \subseteq R \union N
  OBVIOUS
<1>6. IsFiniteSet(R2) /\ Cardinality(R2) <= Cardinality(R \union N) /\ Cardinality(R2) \in Nat
  BY <1>4, <1>5, FS_Subset, FS_CardinalityType
<1>7. IsFiniteSet(Indirect(a2))
  BY IndirectTwo
<1>8. IsFiniteSet(L)
  <2>1. L \subseteq R2 \union Indirect(a2) /\ IsFiniteSet(R2 \union Indirect(a2))
    BY <1>6, <1>7, FS_Union
  <2> QED
    BY <2>1, FS_Subset
<1> HIDE DEF R, R2
<1>9. BSIZE \in Nat \ {0} /\ (at + tot) % BSIZE \in Nat /\ (at + tot) % BSIZE < BSIZE
  BY <1>1, PositionsTyped, BlockDivMod
<1>10. /\ m <= BSIZE - ((at + tot) % BSIZE) /\ m <= c.n - tot
       /\ m = c.n - tot \/ m = BSIZE - ((at + tot) % BSIZE)
  BY <1>1, <1>9 DEF Span, Smaller
<1>11. Turns(at, tot + m) = Turns(at, tot) + 1
  BY <1>1, <1>2, <1>10, TurnsNext
<1>12. tot <= ChunkMax /\ tot + m <= ChunkMax /\ tot + m \in Nat /\ tot + m # 0
  BY <1>1, <1>10, ChunkBound
<1>13. Turns(at, tot) \in Nat /\ 2 * Turns(at, tot + m) + 3 <= OpBlocks + Spared(at, tot + m) /\ Turns(at, tot + m) \in Nat
  BY <1>1, <1>12, TurnsBound
<1>14. Cardinality(N) + Spared(at, tot + m) <= Spared(at, tot) + 2
  <2>1. CASE at % BSIZE = 0
    BY <2>1, <1>4 DEF Spared
  <2>2. CASE at % BSIZE # 0 /\ tot = 0
    BY <2>2, <1>4, <1>12 DEF Spared
  <2>3. CASE at % BSIZE # 0 /\ tot # 0
    BY <2>3, <1>4, <1>12 DEF Spared
  <2> QED
    BY <2>1, <2>2, <2>3
<1>15. Spared(at, tot) \in Nat /\ Spared(at, tot + m) \in Nat /\ OpBlocks \in Nat
  BY BlockAssumption DEF Spared
<1>16. Cardinality(R2) + Spared(at, tot + m) <= 2 * Turns(at, tot + m)
  BY <1>2, <1>3, <1>4, <1>6, <1>11, <1>13, <1>14, <1>15
<1>17. Cardinality(R2) + 3 <= OpBlocks
  BY <1>6, <1>13, <1>15, <1>16
<1>18. c.tot + m = c.n \/ (c.at + c.tot + m) % BSIZE = 0
  <2>1. CASE m = c.n - tot
    BY <2>1, <1>1
  <2>2. CASE m = BSIZE - ((at + tot) % BSIZE)
    <3> DEFINE x == at + tot
               q == x \div BSIZE
    <3>1. x \in Nat
      BY <1>1
    <3> HIDE DEF x
    <3>2. x = BSIZE * q + (x % BSIZE) /\ q \in Nat /\ x % BSIZE \in Nat
      BY <3>1, <1>9, BlockDivMod
    <3> HIDE DEF q
    <3>3. x + m = BSIZE * q + BSIZE /\ m = BSIZE - (x % BSIZE)
      BY <3>1, <3>2, <2>2, <1>9 DEF x
    <3>4. BSIZE * q + BSIZE = BSIZE * (q + 1) + 0 /\ q + 1 \in Nat
      BY <3>2, <1>9
    <3>5. (BSIZE * (q + 1) + 0) % BSIZE = 0
      BY <3>4, <1>9, BlockDivModCompose
    <3>6. (x + m) % BSIZE = 0
      BY <3>3, <3>4, <3>5
    <3> QED
      BY <3>6 DEF x
  <2> QED
    BY <1>10, <2>1, <2>2
<1> QED
  BY <1>8, <1>16, <1>17, <1>18 DEF R2

\* A turn of writei, whatever it wrote: v is the work of bmap, d the call after
\* the turn.
Turned(p, v, d) ==
    /\ v \in WorkType /\ d \in IoType /\ Io(p, d)
    /\ used' = v.used /\ node' = [node EXCEPT ![Ip(p)].addrs = v.addrs] /\ blk' \in BlockData
    /\ content' \in [Nodes -> Seq(SUBSET Nat)] /\ UNCHANGED <<dnode, nlk, off, ios, spans, bpanic>>
    /\ d.pc \in {"write", "update"} /\ d.f = io[p].f /\ d.at = io[p].at /\ d.n = io[p].n /\ d.tot <= d.n
    /\ Owned(v.used, PlaceMap(blk', [Addrs EXCEPT ![Ip(p)] = v.addrs]))
    /\ \A j \in Nodes : j # Ip(p) => content'[j] = content[j] /\ Holds(blk', node[j].addrs, content[j])
    /\ Len(content'[Ip(p)]) = Size(Ip(p), d.at + d.tot) /\ Len(content'[Ip(p)]) <= MAXFILE * BSIZE
    /\ Holds(blk', v.addrs, content'[Ip(p)])
    /\ Budget(d, v.addrs)

\* Any such turn keeps the invariant.
LEMMA TurnInv ==
    ASSUME BlockInv, NEW p \in IoProcs, Writing(p), NEW v, NEW d, Turned(p, v, d)
    PROVE  BlockInv'
<1> DEFINE i == Ip(p)
<1>0. BlockType /\ LockInv /\ OwnInv /\ SpanInv /\ ContentInv /\ BudgetInv
  BY DEF BlockInv
<1>1. /\ File(p) \in OpenFiles /\ i \in Nodes /\ nlk[i] = p /\ ~Unlocked(i) /\ File(p) = io[p].f
      /\ \A q \in IoProcs : q # p /\ Writing(q) => Ip(q) # i /\ File(q) # File(p)
  BY <1>0, WriterAlone DEF File
<1>2. /\ v \in WorkType /\ d \in IoType /\ Io(p, d) /\ used' = v.used /\ node' = [node EXCEPT ![i].addrs = v.addrs]
      /\ blk' \in BlockData /\ content' \in [Nodes -> Seq(SUBSET Nat)] /\ UNCHANGED <<dnode, nlk, off, ios, spans, bpanic>>
  BY DEF Turned
<1>3. d.pc \in {"write", "update"} /\ d.f = io[p].f /\ d.at = io[p].at /\ d.n = io[p].n /\ d.tot <= d.n
  BY DEF Turned
<1>4. /\ Owned(v.used, PlaceMap(blk', [Addrs EXCEPT ![i] = v.addrs]))
      /\ \A j \in Nodes : j # i => content'[j] = content[j] /\ Holds(blk', node[j].addrs, content[j])
      /\ Len(content'[i]) = Size(i, d.at + d.tot) /\ Len(content'[i]) <= MAXFILE * BSIZE
      /\ Holds(blk', v.addrs, content'[i]) /\ Budget(d, v.addrs)
  BY DEF Turned
<1>5. /\ io' \in [IoProcs -> IoType] /\ io'[p] = d
      /\ \A q \in IoProcs : q # p => io'[q] = io[q]
  BY <1>0, <1>2, IoPiece
<1>6. v.addrs \in AddrType /\ v.used \subseteq DataBlocks
  BY <1>2 DEF WorkType
<1> HIDE DEF i
<1>7. /\ node' \in [Nodes -> [size : Nat, addrs : AddrType]] /\ node'[i].addrs = v.addrs /\ node'[i].size = node[i].size
      /\ \A j \in Nodes : j # i => node'[j] = node[j]
  <2> DEFINE new == [size |-> node[i].size, addrs |-> v.addrs]
  <2>1. node \in [Nodes -> [size : Nat, addrs : AddrType]]
    BY <1>0 DEF BlockType
  <2>2. node[i] \in [size : Nat, addrs : AddrType]
    BY <1>1, <2>1
  <2>3. [node[i] EXCEPT !.addrs = v.addrs] = new
    BY <2>2
  <2>4. new \in [size : Nat, addrs : AddrType] /\ new.size = node[i].size /\ new.addrs = v.addrs
    BY <2>2, <1>6
  <2>5. node' = [node EXCEPT ![i] = new]
    BY <1>2, <2>3
  <2> HIDE DEF new
  <2> QED
    BY <1>1, <2>1, <2>4, <2>5
<1>8. BlockType'
  BY <1>0, <1>2, <1>5, <1>6, <1>7 DEF BlockType
<1>9. OwnInv'
  <2>1. Addrs' = [Addrs EXCEPT ![i] = v.addrs]
    BY <1>7 DEF Addrs
  <2> QED
    BY <1>0, <1>2, <1>4, <2>1 DEF OwnInv
<1>10. \A q \in IoProcs : Writing(q)' = Writing(q) /\ Ip(q)' = Ip(q) /\ File(q)' = File(q)
  BY <1>3, <1>5 DEF Writing, Ip, File
<1>11. \A j \in Nodes : node'[j].size = node[j].size
  BY <1>7
<1>12. LockInv'
  <2>1. \A q \in IoProcs : io'[q].pc # "user" => io'[q].f \in OpenFiles
    BY <1>0, <1>1, <1>3, <1>5 DEF LockInv
  <2>2. ASSUME NEW q \in IoProcs, Writing(q)'
        PROVE  /\ nlk'[Ip(q)'] = q /\ io'[q].at = off'[File(q)'] /\ io'[q].at <= node'[Ip(q)'].size
               /\ io'[q].tot <= io'[q].n /\ io'[q].n <= ChunkMax /\ io'[q].at + io'[q].n <= MAXFILE * BSIZE
    <3>1. Writing(q) /\ Ip(q) \in Nodes
      BY <2>2, <1>0, <1>10, WriterAlone
    <3>2. /\ nlk[Ip(q)] = q /\ io[q].at = off[File(q)] /\ io[q].at <= node[Ip(q)].size
          /\ io[q].tot <= io[q].n /\ io[q].n <= ChunkMax /\ io[q].at + io[q].n <= MAXFILE * BSIZE
      BY <3>1, <1>0 DEF LockInv
    <3>3. io'[q].at = io[q].at /\ io'[q].n = io[q].n /\ io'[q].tot <= io'[q].n
      BY <3>2, <1>3, <1>5
    <3> QED
      BY <3>1, <3>2, <3>3, <1>2, <1>10, <1>11
  <2>3. \A j \in Nodes : \A q \in IoProcs : nlk'[j] = q => Writing(q)' /\ Ip(q)' = j
    BY <1>0, <1>2, <1>10 DEF LockInv
  <2> QED
    BY <2>1, <2>2, <2>3 DEF LockInv
<1>13. SpanInv'
  BY <1>0, <1>2 DEF SpanInv, SharedWritesDisjoint
<1>14. ContentInv'
  <2> SUFFICES ASSUME NEW j \in Nodes
               PROVE  /\ Len(content'[j]) = IF Unlocked(j)' THEN node'[j].size ELSE Size(j, io[nlk[j]].at + io[nlk[j]].tot)'
                      /\ Len(content'[j]) <= MAXFILE * BSIZE
                      /\ Holds(blk', node'[j].addrs, content'[j])
                      /\ Unlocked(j)' => dnode'[j] = node'[j]
    BY DEF ContentInv
  <2>1. /\ Len(content[j]) <= MAXFILE * BSIZE /\ Holds(blk, node[j].addrs, content[j])
        /\ Len(content[j]) = IF Unlocked(j) THEN node[j].size ELSE Size(j, io[nlk[j]].at + io[nlk[j]].tot)
        /\ Unlocked(j) => dnode[j] = node[j]
    BY <1>0 DEF ContentInv
  <2>2. nlk'[j] = nlk[j] /\ Unlocked(j)' = Unlocked(j)
    BY <1>2 DEF Unlocked
  <2>3. CASE j = i
    <3>1. io'[nlk'[j]] = d /\ ~Unlocked(j)'
      BY <2>2, <2>3, <1>1, <1>5
    <3>2. Size(j, io[nlk[j]].at + io[nlk[j]].tot)' = Size(i, d.at + d.tot)
      BY <3>1, <2>3, <1>11 DEF Size
    <3> QED
      BY <2>3, <3>1, <3>2, <1>4, <1>7
  <2>4. CASE j # i
    <3>1. ~Unlocked(j) => io'[nlk'[j]] = io[nlk[j]]
      <4> SUFFICES ASSUME ~Unlocked(j)
                   PROVE  io'[nlk'[j]] = io[nlk[j]]
        OBVIOUS
      <4>1. PICK q \in IoProcs : nlk[j] = q
        BY <1>0 DEF BlockType, Unlocked
      <4>2. Ip(q) = j
        BY <4>1, <1>0 DEF LockInv
      <4> QED
        BY <4>1, <4>2, <2>2, <2>4, <1>5 DEF i
    <3>2. content'[j] = content[j] /\ Holds(blk', node'[j].addrs, content'[j]) /\ node'[j] = node[j] /\ dnode'[j] = dnode[j]
      BY <2>4, <1>2, <1>4, <1>7
    <3> QED
      BY <2>1, <2>2, <3>1, <3>2 DEF Size
  <2> QED
    BY <2>3, <2>4
<1>15. BudgetInv'
  <2> SUFFICES ASSUME NEW q \in IoProcs
               PROVE  IF Writing(q)' THEN Budget(io'[q], node'[Ip(q)'].addrs) ELSE io'[q].logged = {}
    BY DEF BudgetInv, Budget
  <2>1. CASE q = p
    BY <2>1, <1>4, <1>5, <1>7, <1>10 DEF i
  <2>2. CASE q # p
    <3>1. Writing(q) => Ip(q) # i /\ Ip(q) \in Nodes
      BY <2>2, <1>0, <1>1, WriterAlone
    <3> QED
      BY <2>2, <3>1, <1>0, <1>5, <1>7, <1>10 DEF BudgetInv
  <2> QED
    BY <2>1, <2>2
<1> QED
  BY <1>8, <1>9, <1>12, <1>13, <1>14, <1>15 DEF BlockInv

\* What a turn of writei starts from.
Position(p) == io[p].at + io[p].tot
Work(p) == Bmap(BlockWork(Ip(p), io[p].logged), Position(p) \div BSIZE)
PlaceHere(p) == PlaceOf(Position(p) \div BSIZE)

\* The position is inside the file or at its end, and below MAXFILE blocks.
LEMMA TurnStart ==
    ASSUME BlockInv, NEW p \in IoProcs, io[p].pc = "write", io[p].tot < io[p].n
    PROVE  /\ Writing(p) /\ Ip(p) \in Nodes /\ io[p] \in IoType
           /\ Position(p) \in Nat /\ Position(p) < MAXFILE * BSIZE
           /\ Position(p) <= Len(content[Ip(p)]) /\ Len(content[Ip(p)]) = Size(Ip(p), Position(p))
           /\ Len(content[Ip(p)]) \in Nat /\ Len(content[Ip(p)]) <= MAXFILE * BSIZE
           /\ Span(io[p]) \in Nat \ {0} /\ Span(io[p]) <= BSIZE - (Position(p) % BSIZE) /\ io[p].tot + Span(io[p]) <= io[p].n
           /\ io[p].at + io[p].n <= MAXFILE * BSIZE /\ io[p].n <= ChunkMax
<1> DEFINE c == io[p]
           i == Ip(p)
           from == c.at + c.tot
<1>0. BlockType /\ LockInv /\ OwnInv /\ SpanInv /\ ContentInv /\ BudgetInv
  BY DEF BlockInv
<1>1. Writing(p)
  BY DEF Writing
<1>2. i \in Nodes /\ nlk[i] = p /\ ~Unlocked(i)
  BY <1>0, <1>1, WriterAlone
<1>3. c \in IoType
  BY <1>0 DEF BlockType
<1>4. c.at \in Nat /\ c.tot \in Nat /\ c.n \in Nat
  BY <1>3 DEF IoType
<1>5. c.at <= node[i].size /\ c.n <= ChunkMax /\ c.at + c.n <= MAXFILE * BSIZE
  BY <1>0, <1>1 DEF LockInv
<1>6. node[i].size \in Nat /\ content[i] \in Seq(SUBSET Nat)
  BY <1>0, <1>2 DEF BlockType
<1>7. Len(content[i]) = Size(i, from) /\ Len(content[i]) <= MAXFILE * BSIZE /\ Len(content[i]) \in Nat
  BY <1>0, <1>2, <1>6 DEF ContentInv
<1>8. MAXFILE * BSIZE \in Nat /\ BSIZE \in Nat \ {0}
  BY PositionsTyped
<1>9. from \in Nat /\ from < c.at + c.n /\ from % BSIZE \in Nat /\ from % BSIZE < BSIZE
  <2>1. from \in Nat /\ from < c.at + c.n
    BY <1>4
  <2> HIDE DEF from
  <2>2. from % BSIZE \in Nat /\ from % BSIZE < BSIZE
    BY <2>1, <1>8, BlockDivMod
  <2> QED
    BY <2>1, <2>2
<1>10. from < MAXFILE * BSIZE
  BY <1>4, <1>5, <1>8, <1>9
<1>11. from <= Len(content[i])
  BY <1>6, <1>7, <1>9 DEF Size
<1>12. Span(c) \in Nat \ {0} /\ Span(c) <= BSIZE - (from % BSIZE) /\ c.tot + Span(c) <= c.n
  <2> DEFINE r == from % BSIZE
  <2>1. Span(c) = Smaller(c.n - c.tot, BSIZE - r)
    BY DEF Span
  <2> HIDE DEF r
  <2> QED
    BY <2>1, <1>4, <1>8, <1>9 DEF Smaller, r
<1> QED
  BY <1>1, <1>2, <1>3, <1>5, <1>7, <1>9, <1>10, <1>11, <1>12 DEF Position

\* The call of bmap in a turn is a step in the sense above.
LEMMA TurnStep ==
    ASSUME BlockInv, NEW p \in IoProcs, io[p].pc = "write", io[p].tot < io[p].n
    PROVE  /\ BlockWork(Ip(p), io[p].logged) \in WorkType /\ Addrs \in [Nodes -> AddrType]
           /\ PlaceHere(p) \in Places /\ PlaceHere(p) # NDIRECT /\ Position(p) \div BSIZE \in 0 .. MAXFILE - 1
           /\ Step(BlockWork(Ip(p), io[p].logged), Work(p), Ip(p), Addrs, PlaceHere(p))
<1> DEFINE w == BlockWork(Ip(p), io[p].logged)
           bn == Position(p) \div BSIZE
           i == Ip(p)
<1>0. BlockType /\ OwnInv
  BY DEF BlockInv
<1>1. i \in Nodes /\ io[p] \in IoType /\ Position(p) \in Nat /\ Position(p) < MAXFILE * BSIZE
  BY TurnStart
<1>2. bn \in 0 .. MAXFILE - 1
  BY <1>1, BlockInFile
<1>3. Addrs \in [Nodes -> AddrType] /\ Addrs[i] = node[i].addrs
  BY <1>0, <1>1 DEF BlockType, Addrs
<1>4. w.used = used /\ w.blk = blk /\ w.addrs = node[i].addrs
  BY DEF BlockWork
<1>5. w \in WorkType
  <2>1. io[p].logged \in SUBSET LogIds
    BY <1>1 DEF IoType
  <2>2. node[i].addrs \in AddrType
    BY <1>1, <1>3
  <2>3. used \in SUBSET DataBlocks /\ blk \in BlockData
    BY <1>0 DEF BlockType
  <2> QED
    BY <2>1, <2>2, <2>3 DEF BlockWork, WorkType
<1> HIDE DEF w, bn, i
<1>6. Owned(w.used, PlaceMap(w.blk, Addrs)) /\ Addrs[i] = w.addrs
  BY <1>0, <1>3, <1>4 DEF OwnInv
<1>7. Step(w, Bmap(w, bn), i, Addrs, PlaceOf(bn))
  BY <1>1, <1>2, <1>3, <1>5, <1>6, BmapStep
<1>8. PlaceOf(bn) \in Places /\ PlaceOf(bn) # NDIRECT
  BY <1>2, PositionsTyped
<1> QED
  BY <1>2, <1>3, <1>5, <1>7, <1>8 DEF w, bn, i, Work, PlaceHere

\* A turn never takes an indirect block away.
LEMMA IndirectStays ==
    ASSUME BlockInv, NEW p \in IoProcs, io[p].pc = "write", io[p].tot < io[p].n
    PROVE  /\ Work(p) \in WorkType /\ node[Ip(p)].addrs \in AddrType
           /\ Indirect(node[Ip(p)].addrs) \subseteq Indirect(Work(p).addrs)
           /\ Work(p).logged \subseteq io[p].logged \union Indirect(Work(p).addrs) \union
                  (IF Place(blk, node[Ip(p)].addrs, PlaceHere(p)) # 0 \/ Work(p).got = 0 THEN {}
                   ELSE {<<"bitmap", Work(p).got \div BPB>>, <<"block", Work(p).got>>})
<1> DEFINE w == BlockWork(Ip(p), io[p].logged)
           v == Work(p)
           i == Ip(p)
           k == PlaceHere(p)
           a2 == [Addrs EXCEPT ![i] = v.addrs]
           V == PlaceMap(w.blk, Addrs)
           V2 == PlaceMap(v.blk, a2)
<1>1. w.blk = blk /\ w.logged = io[p].logged
  BY DEF BlockWork
<1>2. k \in Places /\ Addrs \in [Nodes -> AddrType] /\ Step(w, v, i, Addrs, k)
  BY TurnStep
<1>3. i \in Nodes
  BY TurnStart
<1>4. Addrs[i] = node[i].addrs /\ node[i].addrs \in AddrType
  BY <1>2, <1>3 DEF Addrs
<1> HIDE DEF w, v, k, i
<1>5. /\ v \in WorkType /\ \A j \in Nodes : \A l \in Places : V[j][l] # 0 => V2[j][l] = V[j][l]
      /\ v.logged \subseteq w.logged \union Indirect(v.addrs) \union
             (IF V[i][k] # 0 \/ v.got = 0 THEN {} ELSE {<<"bitmap", v.got \div BPB>>, <<"block", v.got>>})
  BY <1>2, Zenon DEF Step
<1>6. a2[i] = v.addrs
  BY <1>2, <1>3
<1>7. \A l \in Places : V[i][l] = Place(blk, node[i].addrs, l) /\ V2[i][l] = Place(v.blk, v.addrs, l)
  BY <1>1, <1>3, <1>4, <1>6 DEF PlaceMap
<1> HIDE DEF a2, V, V2
<1>8. V[i][NDIRECT] = node[i].addrs[NDIRECT] /\ V2[i][NDIRECT] = v.addrs[NDIRECT]
  <2>1. NDIRECT \in Places /\ NDIRECT <= NDIRECT
    BY PositionsTyped
  <2> QED
    BY <2>1, <1>7 DEF Place
<1>9. node[i].addrs[NDIRECT] # 0 => v.addrs[NDIRECT] = node[i].addrs[NDIRECT]
  BY <1>3, <1>5, <1>8, PositionsTyped
<1>10. Indirect(node[i].addrs) \subseteq Indirect(v.addrs)
  BY <1>9 DEF Indirect
<1>11. V[i][k] = Place(blk, node[i].addrs, k)
  BY <1>2, <1>7
<1> QED
  BY <1>1, <1>4, <1>5, <1>10, <1>11 DEF v, i, k

\* A position inside a block that the file reaches has its block already.
LEMMA BlockThere ==
    ASSUME BlockInv, NEW p \in IoProcs, io[p].pc = "write", io[p].tot < io[p].n, Position(p) % BSIZE # 0
    PROVE  Place(blk, node[Ip(p)].addrs, PlaceHere(p)) # 0
<1> DEFINE i == Ip(p)
           from == Position(p)
           q == from \div BSIZE
           r == from % BSIZE
           x == from - 1
<1>1. i \in Nodes /\ from \in Nat /\ from <= Len(content[i]) /\ Len(content[i]) \in Nat
  BY TurnStart
<1>2. BSIZE \in Nat \ {0}
  BY PositionsTyped
<1> HIDE DEF i, from
<1>3. q \in Nat /\ r \in Nat /\ r < BSIZE /\ from = BSIZE * q + r /\ r # 0
  BY <1>1, <1>2, BlockDivMod DEF from
<1> HIDE DEF q, r
<1>4. x = BSIZE * q + (r - 1) /\ r - 1 \in Nat /\ r - 1 < BSIZE /\ x \in Nat /\ x < Len(content[i])
  BY <1>1, <1>2, <1>3
<1>5. (BSIZE * q + (r - 1)) \div BSIZE = q
  BY <1>2, <1>3, <1>4, BlockDivModCompose
<1> HIDE DEF x
<1>6. x \div BSIZE = q
  BY <1>4, <1>5
<1>7. Holds(blk, node[i].addrs, content[i])
  BY <1>1 DEF BlockInv, ContentInv
<1>8. Place(blk, node[i].addrs, PlaceOf(x \div BSIZE)) # 0
  BY <1>1, <1>4, <1>7, HoldsAt
<1> QED
  BY <1>6, <1>8 DEF i, from, q, PlaceHere

\* The log after a turn that had its block, or a part of what it logged.
LEMMA TurnBudget ==
    ASSUME BlockInv, NEW p \in IoProcs, io[p].pc = "write", io[p].tot < io[p].n, Work(p).got # 0,
           NEW L, L \subseteq Work(p).logged \union {<<"block", Work(p).got>>}
    PROVE  LET a2 == Work(p).addrs
               m == Span(io[p]) IN
           /\ IsFiniteSet(L) /\ Cardinality(L \ Indirect(a2)) + 3 <= OpBlocks
           /\ Cardinality(L \ Indirect(a2)) + Spared(io[p].at, io[p].tot + m) <= 2 * Turns(io[p].at, io[p].tot + m)
           /\ io[p].tot + m = io[p].n \/ (io[p].at + io[p].tot + m) % BSIZE = 0
<1> DEFINE c == io[p]
           a == node[Ip(p)].addrs
           a2 == Work(p).addrs
           m == Span(io[p])
           there == Place(blk, a, PlaceHere(p)) # 0
           B == {<<"block", Work(p).got>>}
           M == {<<"bitmap", Work(p).got \div BPB>>}
           N == IF there THEN B ELSE M \union B
<1>1. Writing(p) /\ c \in IoType /\ m \in Nat \ {0} /\ c.n <= ChunkMax
  BY TurnStart
<1>2. Work(p) \in WorkType /\ a \in AddrType /\ Indirect(a) \subseteq Indirect(a2)
  BY IndirectStays
<1>3. Work(p).logged \subseteq c.logged \union Indirect(a2) \union
          (IF there \/ Work(p).got = 0 THEN {} ELSE {<<"bitmap", Work(p).got \div BPB>>, <<"block", Work(p).got>>})
  BY IndirectStays
<1>4. a2 \in AddrType
  BY <1>2 DEF WorkType
<1>5. Budget(c, a)
  BY <1>1 DEF BlockInv, BudgetInv
<1>6. IsFiniteSet(B) /\ Cardinality(B) = 1 /\ IsFiniteSet(M) /\ Cardinality(M) = 1
  BY FS_Singleton
<1>7. L \subseteq c.logged \union Indirect(a2) \union N
  <2>1. CASE there
    BY <1>3, <2>1
  <2>2. CASE ~there
    BY <1>3, <2>2
  <2> QED
    BY <2>1, <2>2
<1> HIDE DEF B, M
<1>8. IsFiniteSet(M \union B) /\ Cardinality(M \union B) <= 2
  <2>1. IsFiniteSet(M \cap B) /\ Cardinality(M \cap B) \in Nat
    BY <1>6, FS_Intersection, FS_CardinalityType
  <2>2. IsFiniteSet(M \union B) /\ Cardinality(M \union B) = Cardinality(M) + Cardinality(B) - Cardinality(M \cap B)
    BY <1>6, FS_Union
  <2> QED
    BY <1>6, <2>1, <2>2
<1>9. IsFiniteSet(N) /\ Cardinality(N) <= 2 /\ (there => Cardinality(N) <= 1)
  BY <1>6, <1>8
<1>10. c.tot = 0 /\ c.at % BSIZE # 0 => there
  <2> SUFFICES ASSUME c.tot = 0, c.at % BSIZE # 0
               PROVE  there
    OBVIOUS
  <2>1. c.at \in Nat
    BY <1>1 DEF IoType
  <2>2. Position(p) = c.at
    BY <2>1 DEF Position
  <2> QED
    BY <2>2, BlockThere
<1> HIDE DEF c, a, a2, m, there, N
<1>11. m = Span(c) /\ c.pc = "write" /\ c.tot < c.n
  BY DEF m, c
<1>12. c.tot = 0 /\ c.at % BSIZE # 0 => Cardinality(N) <= 1
  BY <1>9, <1>10
<1>13. /\ IsFiniteSet(L) /\ Cardinality(L \ Indirect(a2)) + 3 <= OpBlocks
       /\ Cardinality(L \ Indirect(a2)) + Spared(c.at, c.tot + m) <= 2 * Turns(c.at, c.tot + m)
       /\ c.tot + m = c.n \/ (c.at + c.tot + m) % BSIZE = 0
  BY <1>1, <1>2, <1>4, <1>5, <1>7, <1>9, <1>11, <1>12, LogTurn
<1> QED
  BY <1>13 DEF c, a2, m

\* k bytes written at the position: every file holds its content, with length
\* from + k, or the old one if k did not reach its end.
LEMMA TurnContent ==
    ASSUME BlockInv, NEW p \in IoProcs, io[p].pc = "write", io[p].tot < io[p].n, Work(p).got # 0,
           NEW k \in Nat, k <= Span(io[p]), NEW bl2, bl2 = Scribble(Work(p).blk, Work(p).got, Position(p), k, ios),
           NEW c2 \in Seq(SUBSET Nat), Len(c2) <= Len(content[Ip(p)]) \/ Len(c2) <= Position(p) + k,
           \A x \in 0 .. Len(c2) - 1 : IF Position(p) <= x /\ x < Position(p) + k THEN ios \in c2[x + 1] ELSE c2[x + 1] = content[Ip(p)][x + 1]
    PROVE  /\ bl2 \in BlockData /\ Len(c2) <= MAXFILE * BSIZE
           /\ Owned(Work(p).used, PlaceMap(bl2, [Addrs EXCEPT ![Ip(p)] = Work(p).addrs]))
           /\ \A j \in Nodes : j # Ip(p) => Holds(bl2, node[j].addrs, content[j])
           /\ Holds(bl2, Work(p).addrs, c2)
<1> DEFINE i == Ip(p)
           from == Position(p)
           w == BlockWork(i, io[p].logged)
           v == Work(p)
           h == PlaceHere(p)
           a2 == [Addrs EXCEPT ![i] = v.addrs]
           m == Span(io[p])
           s == content[i]
           g == v.got
<1>0. BlockType /\ ContentInv
  BY DEF BlockInv
<1>1. i \in Nodes /\ io[p] \in IoType /\ from \in Nat /\ from < MAXFILE * BSIZE /\ from <= Len(s) /\ Len(s) \in Nat /\ Len(s) <= MAXFILE * BSIZE
  BY TurnStart
<1>2. m \in Nat /\ m <= BSIZE - (from % BSIZE) /\ io[p].tot + m <= io[p].n /\ io[p].at + io[p].n <= MAXFILE * BSIZE
  BY TurnStart
<1>3. h \in Places /\ h # NDIRECT /\ Addrs \in [Nodes -> AddrType] /\ Step(w, v, i, Addrs, h)
  BY TurnStep
<1>4. ios \in Nat /\ s \in Seq(SUBSET Nat)
  BY <1>0, <1>1 DEF BlockType
<1>5. w.blk = blk /\ \A j \in Nodes : Addrs[j] = node[j].addrs
  BY DEF BlockWork, Addrs
<1>6. v \in WorkType /\ Owned(v.used, PlaceMap(v.blk, a2))
  BY <1>3, Zenon DEF Step
<1>7. g # 0 /\ h = PlaceOf(from \div BSIZE) /\ bl2 = Scribble(v.blk, g, from, k, ios) /\ k <= m
      /\ (Len(c2) <= Len(s) \/ Len(c2) <= from + k)
  BY DEF PlaceHere
<1>8. a2[i] = v.addrs /\ (\A j \in Nodes : j # i => a2[j] = node[j].addrs) /\ a2 = [Addrs EXCEPT ![i] = v.addrs]
  BY <1>1, <1>3, <1>5
<1> HIDE DEF i, from, w, v, h, a2, m, s
<1>9. /\ bl2 \in BlockData /\ g \in DataBlocks /\ PlaceMap(bl2, a2) = PlaceMap(v.blk, a2)
      /\ \A j \in Nodes : Unmoved(w.blk, Addrs[j], bl2, a2[j], IF j = i THEN g ELSE 0)
      /\ \A n \in Places : Place(bl2, a2[i], n) = g <=> n = h
      /\ Place(w.blk, Addrs[i], h) # 0 => v.blk[g] = w.blk[g]
  <2>1. Unseen(w, v, i, Addrs, h, Scribble(v.blk, v.got, from, k, ios), [Addrs EXCEPT ![i] = v.addrs])
    BY <1>1, <1>3, <1>4, <1>7, ScribbleKept
  <2>2. Unseen(w, v, i, Addrs, h, bl2, a2)
    BY <2>1, <1>7, <1>8
  <2> QED
    BY <2>2 DEF Unseen
<1>10. \A x \in 0 .. Len(c2) - 1 : IF from <= x /\ x < from + k THEN ios \in c2[x + 1] ELSE c2[x + 1] = s[x + 1]
  BY DEF from, s, i
<1> HIDE DEF g
<1>11. from + k <= MAXFILE * BSIZE /\ MAXFILE * BSIZE \in Nat
  <2>1. from = io[p].at + io[p].tot /\ io[p].at \in Nat /\ io[p].tot \in Nat /\ io[p].n \in Nat
    BY <1>1 DEF IoType, from, Position
  <2>2. MAXFILE * BSIZE \in Nat
    BY PositionsTyped
  <2> DEFINE T == MAXFILE * BSIZE
  <2>3. m \in Nat /\ io[p].tot + m <= io[p].n /\ io[p].at + io[p].n <= T /\ k <= m /\ T \in Nat
    BY <1>2, <1>7, <2>2
  <2> HIDE DEF T
  <2>4. from + k <= T
    BY <2>1, <2>3
  <2> QED
    BY <2>2, <2>4 DEF T
<1>12. Len(c2) \in Nat /\ Len(c2) <= MAXFILE * BSIZE /\ (Len(c2) <= Len(s) \/ Len(c2) <= from + k)
  BY <1>1, <1>7, <1>11
<1>14. Owned(v.used, PlaceMap(bl2, a2))
  BY <1>6, <1>9
<1>15. ASSUME NEW j \in Nodes, j # i PROVE Holds(bl2, node[j].addrs, content[j])
  <2>1. Unmoved(blk, node[j].addrs, bl2, node[j].addrs, 0)
    BY <1>5, <1>8, <1>9, <1>15
  <2>2. Holds(blk, node[j].addrs, content[j]) /\ Len(content[j]) <= MAXFILE * BSIZE
    BY <1>0 DEF ContentInv
  <2>3. Len(content[j]) \in Nat
    BY <1>0 DEF BlockType
  <2> QED
    BY <2>1, <2>2, <2>3, HoldsKept
<1>16. \A y \in 0 .. BSIZE - 1 : bl2[g][y] = IF y >= from % BSIZE /\ y < (from % BSIZE) + k THEN ios ELSE v.blk[g][y]
  <2>1. v.blk \in BlockData
    BY <1>6 DEF WorkType
  <2> DEFINE bl == v.blk
  <2> HIDE DEF bl
  <2>2. bl \in BlockData /\ bl2 = Scribble(bl, g, from, k, ios)
    BY <2>1, <1>7 DEF bl
  <2>3. Bytes(bl, Scribble(bl, g, from, k, ios), g, from, k, ios)
    BY <2>2, <1>1, <1>4, <1>9, ScribbleEffect
  <2> QED
    BY <2>2, <2>3 DEF bl, Bytes
<1>17. Holds(bl2, v.addrs, c2)
  <2> DEFINE a == node[i].addrs
             b2 == v.addrs
  <2>1. Unmoved(blk, a, bl2, b2, g)
    BY <1>1, <1>5, <1>8, <1>9
  <2>2. Holds(blk, a, s)
    BY <1>0, <1>1 DEF ContentInv, s
  <2>3. Place(bl2, b2, PlaceOf(from \div BSIZE)) = g
    BY <1>3, <1>7, <1>8, <1>9
  <2>4. \A n \in Places : Place(bl2, b2, n) = g => n = PlaceOf(from \div BSIZE)
    BY <1>7, <1>8, <1>9
  <2>5. Place(blk, a, PlaceOf(from \div BSIZE)) # 0 =>
            \A y \in 0 .. BSIZE - 1 : ~(y >= from % BSIZE /\ y < (from % BSIZE) + k) => bl2[g][y] = blk[g][y]
    <3> SUFFICES ASSUME Place(blk, a, h) # 0, NEW y \in 0 .. BSIZE - 1, ~(y >= from % BSIZE /\ y < (from % BSIZE) + k)
                 PROVE  bl2[g][y] = blk[g][y]
      BY <1>7
    <3>1. v.blk[g] = blk[g]
      BY <1>1, <1>5, <1>9
    <3> QED
      BY <3>1, <1>16
  <2>6. \A y \in 0 .. BSIZE - 1 : y >= from % BSIZE /\ y < (from % BSIZE) + k => bl2[g][y] = ios
    BY <1>16
  <2>7. k <= BSIZE - (from % BSIZE)
    <3> DEFINE r == from % BSIZE
    <3>1. r \in Nat /\ BSIZE \in Nat
      BY <1>1, PositionsTyped, BlockDivMod
    <3>2. m <= BSIZE - r
      BY <1>2
    <3> HIDE DEF r
    <3>3. k <= BSIZE - r
      BY <3>1, <3>2, <1>2, <1>7
    <3> QED
      BY <3>3 DEF r
  <2> HIDE DEF a, b2
  <2>8. Wrote(blk, a, bl2, b2, s, c2, from, k, g, ios)
    BY <2>1, <2>2, <2>3, <2>4, <2>5, <2>6, <2>7, <1>1, <1>7, <1>12, <1>10, Zenon DEF Wrote
  <2>9. Holds(bl2, b2, c2)
    BY <2>8, HoldsWrite
  <2> QED
    BY <2>9 DEF b2
<1> QED
  BY <1>9, <1>12, <1>14, <1>15, <1>17 DEF i, from, v, a2, s

\* A turn of writei keeps the invariant: without a block, with all its bytes,
\* or with a part of them.
LEMMA WriteBlockInv ==
    ASSUME BlockInv, NEW p \in IoProcs, WriteBlock(p)
    PROVE  BlockInv'
<1> DEFINE c == io[p]
           i == Ip(p)
           from == Position(p)
           v == Work(p)
           m == Span(io[p])
           s == content[i]
           a2 == [Addrs EXCEPT ![i] = v.addrs]
           none == [c EXCEPT !.pc = "update", !.logged = v.logged]
           full == [c EXCEPT !.tot = @ + m, !.logged = v.logged \union {<<"block", v.got>>}]
<1>0. BlockType /\ ContentInv /\ BudgetInv
  BY DEF BlockInv
<1>1. /\ c.pc = "write" /\ c.tot < c.n /\ used' = v.used /\ node' = [node EXCEPT ![i].addrs = v.addrs]
      /\ UNCHANGED <<dnode, nlk, off, ios, spans, bpanic>>
  BY DEF WriteBlock, Work, Position
<1>2. \/ v.got = 0 /\ blk' = v.blk /\ Io(p, none) /\ content' = content
      \/ v.got # 0 /\ blk' = Scribble(v.blk, v.got, from, m, ios) /\ Io(p, full)
         /\ content' = [content EXCEPT ![i] = Overwritten(@, from, m)]
      \/ \E part \in 0 .. m - 1 :
         /\ v.got # 0 /\ blk' = Scribble(v.blk, v.got, from, part, ios) /\ Io(p, none)
         /\ content' = [content EXCEPT ![i] = Torn(@, from, part)]
  BY DEF WriteBlock, Work, Position, Scribble, Copied, WithData
<1>3. /\ Writing(p) /\ i \in Nodes /\ c \in IoType /\ from \in Nat /\ from <= Len(s) /\ Len(s) = Size(i, from)
      /\ Len(s) \in Nat /\ Len(s) <= MAXFILE * BSIZE /\ m \in Nat \ {0} /\ c.tot + m <= c.n
  BY <1>1, TurnStart
<1>4. v \in WorkType /\ node[i].addrs \in AddrType
  BY <1>1, IndirectStays
<1>5. v.logged \in SUBSET LogIds /\ v.blk \in BlockData /\ v.addrs \in AddrType /\ v.got \in Nat
  BY <1>4 DEF WorkType
<1>6. c.tot \in Nat /\ c.at \in Nat /\ c.n \in Nat /\ from = c.at + c.tot
  BY <1>3 DEF IoType, Position
<1>7. none \in IoType /\ none.pc = "update" /\ none.f = c.f /\ none.at = c.at /\ none.n = c.n /\ none.tot = c.tot /\ none.logged = v.logged
  BY <1>3, <1>5 DEF IoType
<1>8. full \in IoType /\ full.pc = "write" /\ full.f = c.f /\ full.at = c.at /\ full.n = c.n /\ full.tot = c.tot + m
      /\ full.logged = v.logged \union {<<"block", v.got>>}
  <2> DEFINE t == c.tot + m
             L == v.logged \union {<<"block", v.got>>}
  <2>1. t \in Nat
    BY <1>3, <1>6
  <2>2. L \in SUBSET LogIds
    BY <1>5 DEF LogIds
  <2>3. full = [c EXCEPT !.tot = t, !.logged = L]
    BY <1>3 DEF IoType
  <2> HIDE DEF t, L, full
  <2>4. full \in IoType /\ full.pc = c.pc /\ full.f = c.f /\ full.at = c.at /\ full.n = c.n /\ full.tot = t /\ full.logged = L
    BY <1>3, <2>1, <2>2, <2>3 DEF IoType
  <2> QED
    BY <1>1, <2>4 DEF t, L
<1>9. content \in [Nodes -> Seq(SUBSET Nat)] /\ s \in Seq(SUBSET Nat)
  BY <1>0, <1>3 DEF BlockType
<1>10. CASE v.got = 0 /\ blk' = v.blk /\ Io(p, none) /\ content' = content
  <2> DEFINE w == BlockWork(i, c.logged)
             h == PlaceHere(p)
  <2>1. h \in Places /\ Addrs \in [Nodes -> AddrType] /\ Step(w, v, i, Addrs, h) /\ w.blk = blk
    BY <1>1, TurnStep DEF BlockWork
  <2>2. Owned(v.used, PlaceMap(v.blk, a2))
    BY <2>1, Zenon DEF Step
  <2> HIDE DEF w, h, v
  <2>3. \A j \in Nodes : Unmoved(w.blk, Addrs[j], v.blk, a2[j], 0)
    BY <1>3, <2>1, StepKept
  <2>4. a2[i] = v.addrs /\ (\A j \in Nodes : Addrs[j] = node[j].addrs) /\ \A j \in Nodes : j # i => a2[j] = node[j].addrs
    BY <1>3, <2>1 DEF Addrs
  <2>5. \A j \in Nodes : Holds(v.blk, a2[j], content[j])
    <3> SUFFICES ASSUME NEW j \in Nodes
                 PROVE  Holds(v.blk, a2[j], content[j])
      OBVIOUS
    <3>1. Holds(blk, node[j].addrs, content[j]) /\ Len(content[j]) <= MAXFILE * BSIZE
      BY <1>0 DEF ContentInv
    <3>2. Len(content[j]) \in Nat
      BY <1>9
    <3>3. Unmoved(blk, node[j].addrs, v.blk, a2[j], 0)
      BY <2>1, <2>3, <2>4
    <3> QED
      BY <3>1, <3>2, <3>3, HoldsKept
  <2>6. Budget(none, v.addrs)
    <3> DEFINE a == node[i].addrs
               b == v.addrs
               R == c.logged \ Indirect(a)
               R2 == v.logged \ Indirect(b)
    <3>1. Budget(c, a)
      BY <1>0, <1>3 DEF BudgetInv
    <3>2. Indirect(a) \subseteq Indirect(b)
      BY <1>1, IndirectStays DEF v
    <3>3. v.logged \subseteq c.logged \union Indirect(b)
      <4>1. v.logged \subseteq c.logged \union Indirect(b) \union
              (IF Place(blk, a, h) # 0 \/ v.got = 0 THEN {} ELSE {<<"bitmap", v.got \div BPB>>, <<"block", v.got>>})
        BY <1>1, IndirectStays DEF v, h
      <4> QED
        BY <4>1, <1>10
    <3>4. R2 \subseteq R
      BY <3>2, <3>3
    <3>5. IsFiniteSet(c.logged) /\ Cardinality(R) + 3 <= OpBlocks
      BY <3>1 DEF Budget
    <3>6. IsFiniteSet(R) /\ Cardinality(R) \in Nat
      BY <3>5, FS_Subset, FS_CardinalityType
    <3>7. Cardinality(R2) <= Cardinality(R) /\ IsFiniteSet(R2) /\ Cardinality(R2) \in Nat
      BY <3>4, <3>6, FS_Subset, FS_CardinalityType
    <3>8. IsFiniteSet(v.logged)
      <4>1. IsFiniteSet(Indirect(b))
        BY IndirectTwo
      <4>2. IsFiniteSet(c.logged \union Indirect(b))
        BY <3>5, <4>1, FS_Union
      <4> QED
        BY <3>3, <4>2, FS_Subset
    <3> HIDE DEF R, b, a, none
    <3>9. Cardinality(R2) + 3 <= OpBlocks
      BY <3>5, <3>6, <3>7, BlockAssumption
    <3> QED
      BY <1>7, <3>8, <3>9 DEF Budget, b
  <2>7. \A j \in Nodes : j # i => content'[j] = content[j] /\ Holds(blk', node[j].addrs, content[j])
    BY <1>10, <2>4, <2>5
  <2>8. Holds(blk', v.addrs, content'[i]) /\ Len(content'[i]) = Size(i, c.at + c.tot) /\ Len(content'[i]) <= MAXFILE * BSIZE
    BY <1>3, <1>6, <1>10, <2>4, <2>5
  <2>9. Owned(v.used, PlaceMap(blk', a2)) /\ blk' \in BlockData /\ content' \in [Nodes -> Seq(SUBSET Nat)]
    BY <1>5, <1>9, <1>10, <2>2
  <2> HIDE DEF none
  <2>10. Turned(p, v, none)
    BY <1>1, <1>4, <1>6, <1>7, <1>10, <2>6, <2>7, <2>8, <2>9 DEF Turned
  <2> QED
    BY <1>3, <2>10, TurnInv
<1> HIDE DEF v, none, full
<1>11. CASE /\ v.got # 0 /\ blk' = Scribble(v.blk, v.got, from, m, ios) /\ Io(p, full)
            /\ content' = [content EXCEPT ![i] = Overwritten(@, from, m)]
  <2> DEFINE c2 == Overwritten(s, from, m)
  <2>1. content' = [content EXCEPT ![i] = c2]
    BY <1>11
  <2>2. /\ blk' \in BlockData /\ c2 \in Seq(SUBSET Nat) /\ Len(c2) = (IF from + m > Len(s) THEN from + m ELSE Len(s)) /\ Len(c2) <= MAXFILE * BSIZE
        /\ Owned(v.used, PlaceMap(blk', a2)) /\ Holds(blk', v.addrs, c2)
        /\ \A j \in Nodes : j # i => Holds(blk', node[j].addrs, content[j])
    <3>1. m \in Nat /\ m <= Span(io[p]) /\ ios \in Nat
      BY <1>0, <1>3 DEF BlockType
    <3>2. c2 \in Seq(SUBSET Nat) /\ Len(c2) = IF from + m > Len(s) THEN from + m ELSE Len(s)
      BY <1>3, <1>9, <3>1, OverwrittenEffect
    <3>3. \A x \in 0 .. Len(c2) - 1 : c2[x + 1] = IF from <= x /\ x < from + m THEN {ios} ELSE s[x + 1]
      BY <1>3, <1>9, <3>1, OverwrittenEffect
    <3> HIDE DEF c2
    <3>4. \A x \in 0 .. Len(c2) - 1 : IF from <= x /\ x < from + m THEN ios \in c2[x + 1] ELSE c2[x + 1] = s[x + 1]
      BY <3>3
    <3>5. Len(c2) <= Len(s) \/ Len(c2) <= from + m
      <4> HIDE DEF from, m, s
      <4> QED
        BY <1>3, <3>2
    <3> QED
      BY <1>1, <1>11, <3>1, <3>2, <3>4, <3>5, TurnContent DEF v
  <2> HIDE DEF c2
  <2>3. content' \in [Nodes -> Seq(SUBSET Nat)] /\ content'[i] = c2 /\ \A j \in Nodes : j # i => content'[j] = content[j]
    BY <1>3, <1>9, <2>1, <2>2
  <2>4. Len(c2) = Size(i, c.at + (c.tot + m))
    <3>1. node[i].size \in Nat
      BY <1>0, <1>3 DEF BlockType
    <3>2. c.at + (c.tot + m) = from + m
      BY <1>3, <1>6
    <3>3. Len(s) = IF from > node[i].size THEN from ELSE node[i].size
      BY <1>3 DEF Size
    <3>4. Size(i, from + m) = IF from + m > node[i].size THEN from + m ELSE node[i].size
      BY DEF Size
    <3> HIDE DEF from, m, s
    <3> QED
      BY <1>3, <2>2, <3>1, <3>2, <3>3, <3>4
  <2>5. Budget(full, v.addrs)
    <3> DEFINE L == full.logged
    <3>1. L \subseteq v.logged \union {<<"block", v.got>>}
      BY <1>8
    <3>2. /\ IsFiniteSet(L) /\ Cardinality(L \ Indirect(v.addrs)) + 3 <= OpBlocks
          /\ Cardinality(L \ Indirect(v.addrs)) + Spared(c.at, c.tot + m) <= 2 * Turns(c.at, c.tot + m)
          /\ c.tot + m = c.n \/ (c.at + c.tot + m) % BSIZE = 0
      BY <1>1, <1>11, <3>1, TurnBudget DEF v
    <3>3. c.at + c.tot + m = c.at + (c.tot + m)
      BY <1>3, <1>6
    <3> QED
      BY <1>8, <3>2, <3>3 DEF Budget
  <2>6. Turned(p, v, full)
    BY <1>1, <1>3, <1>4, <1>8, <1>11, <2>2, <2>3, <2>4, <2>5 DEF Turned
  <2> QED
    BY <1>3, <2>6, TurnInv
<1>12. ASSUME NEW part \in 0 .. m - 1, v.got # 0, blk' = Scribble(v.blk, v.got, from, part, ios), Io(p, none),
              content' = [content EXCEPT ![i] = Torn(@, from, part)]
       PROVE  BlockInv'
  <2> DEFINE c2 == Torn(s, from, part)
  <2>1. content' = [content EXCEPT ![i] = c2]
    BY <1>12
  <2>2. part \in Nat /\ part <= m /\ ios \in Nat
    BY <1>0, <1>3 DEF BlockType
  <2>3. /\ blk' \in BlockData /\ c2 \in Seq(SUBSET Nat) /\ Len(c2) = Len(s) /\ Len(c2) <= MAXFILE * BSIZE
        /\ Owned(v.used, PlaceMap(blk', a2)) /\ Holds(blk', v.addrs, c2)
        /\ \A j \in Nodes : j # i => Holds(blk', node[j].addrs, content[j])
    <3>1. c2 \in Seq(SUBSET Nat) /\ Len(c2) = Len(s)
      BY <1>3, <1>9, <2>2, TornEffect
    <3>2. \A x \in 0 .. Len(s) - 1 : c2[x + 1] = IF from <= x /\ x < from + part THEN s[x + 1] \union {ios} ELSE s[x + 1]
      BY <1>3, <1>9, <2>2, TornEffect
    <3> HIDE DEF c2
    <3>3. \A x \in 0 .. Len(c2) - 1 : IF from <= x /\ x < from + part THEN ios \in c2[x + 1] ELSE c2[x + 1] = s[x + 1]
      BY <3>1, <3>2
    <3>4. Len(c2) <= Len(s) \/ Len(c2) <= from + part
      BY <1>3, <3>1
    <3> QED
      BY <1>1, <1>3, <1>12, <2>2, <3>1, <3>3, <3>4, TurnContent DEF v
  <2> HIDE DEF c2
  <2>4. content' \in [Nodes -> Seq(SUBSET Nat)] /\ content'[i] = c2 /\ \A j \in Nodes : j # i => content'[j] = content[j]
    BY <1>3, <1>9, <2>1, <2>3
  <2>5. Len(c2) = Size(i, c.at + c.tot)
    <3> HIDE DEF from, s, m
    <3> QED
      BY <1>3, <1>6, <2>3
  <2>6. Budget(none, v.addrs)
    <3>1. v.logged \subseteq v.logged \union {<<"block", v.got>>}
      OBVIOUS
    <3>2. IsFiniteSet(v.logged) /\ Cardinality(v.logged \ Indirect(v.addrs)) + 3 <= OpBlocks
      BY <1>1, <1>12, <3>1, TurnBudget DEF v
    <3> QED
      BY <1>7, <3>2 DEF Budget
  <2>7. Turned(p, v, none)
    BY <1>1, <1>4, <1>6, <1>7, <1>12, <2>3, <2>4, <2>5, <2>6 DEF Turned
  <2> QED
    BY <1>3, <2>7, TurnInv
<1> QED
  BY <1>2, <1>10, <1>11, <1>12

-----------------------------------------------------------------------------
(* The blocks as the log and the disk have them.                             *)

\* bmap logs every block it takes or changes.
Recorded(w, v) ==
    /\ w.logged \subseteq v.logged
    /\ \A b \in DataBlocks : <<"block", b>> \notin v.logged => v.blk[b] = w.blk[b] /\ (b \in v.used => b \in w.used)

LEMMA BallocRecorded ==
    ASSUME NEW w \in WorkType
    PROVE  Balloc(w) \in WorkType /\ Recorded(w, Balloc(w))
<1> DEFINE v == Balloc(w)
<1>1. /\ v \in WorkType
      /\ \/ /\ v.got = 0 /\ v.used = w.used /\ v.blk = w.blk /\ v.addrs = w.addrs /\ v.logged = w.logged
         \/ /\ v.got \in DataBlocks \ w.used /\ v.got # 0 /\ v.used = w.used \union {v.got}
            /\ v.blk = [w.blk EXCEPT ![v.got] = ZeroBlock] /\ v.addrs = w.addrs
            /\ v.logged = w.logged \union {<<"bitmap", v.got \div BPB>>, <<"block", v.got>>}
  BY BallocEffect
<1> HIDE DEF v
<1>2. w.blk \in [DataBlocks -> [0 .. Words - 1 -> Nat]]
  BY DEF WorkType, BlockData
<1>3. Recorded(w, v)
  BY <1>1, <1>2 DEF Recorded
<1> QED
  BY <1>1, <1>3 DEF v

\* A second step records what the first one did.
LEMMA RecordedTwice ==
    ASSUME NEW w, NEW v, NEW u, Recorded(w, v), Recorded(v, u)
    PROVE  Recorded(w, u)
BY DEF Recorded

LEMMA DirectRecorded ==
    ASSUME NEW w \in WorkType, NEW k \in 0 .. NDIRECT
    PROVE  Direct(w, k) \in WorkType /\ Recorded(w, Direct(w, k))
<1>1. CASE w.addrs[k] # 0
  <2>1. Direct(w, k) = [w EXCEPT !.got = w.addrs[k]]
    BY <1>1 DEF Direct
  <2>2. w.addrs[k] \in Nat
    BY DEF WorkType, AddrType
  <2> QED
    BY <2>1, <2>2 DEF Recorded, WorkType
<1>2. CASE w.addrs[k] = 0
  <2> DEFINE v == Balloc(w)
  <2>1. Direct(w, k) = [v EXCEPT !.addrs[k] = v.got]
    BY <1>2 DEF Direct
  <2>2. v \in WorkType /\ Recorded(w, v)
    BY BallocRecorded
  <2> HIDE DEF v
  <2>3. [v.addrs EXCEPT ![k] = v.got] \in AddrType
    BY <2>2 DEF WorkType, AddrType
  <2>4. /\ Direct(w, k) \in WorkType /\ Direct(w, k).logged = v.logged
        /\ Direct(w, k).blk = v.blk /\ Direct(w, k).used = v.used
    BY <2>1, <2>2, <2>3 DEF WorkType
  <2> QED
    BY <2>2, <2>4 DEF Recorded
<1> QED
  BY <1>1, <1>2

LEMMA BmapRecorded ==
    ASSUME NEW w \in WorkType, NEW bn \in 0 .. MAXFILE - 1
    PROVE  Recorded(w, Bmap(w, bn))
<1>1. CASE bn < NDIRECT
  <2>1. Bmap(w, bn) = Direct(w, bn) /\ bn \in 0 .. NDIRECT
    BY <1>1, PositionsTyped DEF Bmap
  <2> QED
    BY <2>1, DirectRecorded
<1>2. CASE ~(bn < NDIRECT)
  <2> DEFINE x == Direct(w, NDIRECT)
             e == bn - NDIRECT
             v == Balloc(x)
             r == Bmap(w, bn)
  <2>1. x \in WorkType /\ Recorded(w, x)
    BY DirectRecorded, PositionsTyped
  <2>2. v \in WorkType /\ Recorded(x, v)
    BY <2>1, BallocRecorded
  <2>3. r = CASE x.got = 0 -> x
              [] x.got # 0 /\ x.blk[x.got][e] # 0 -> [x EXCEPT !.got = x.blk[x.got][e]]
              [] OTHER -> IF v.got = 0 THEN v
                          ELSE [v EXCEPT !.blk[x.got][e] = v.got, !.logged = @ \union {<<"block", x.got>>}]
    BY <1>2 DEF Bmap
  <2>4. Recorded(w, v)
    BY <2>1, <2>2, RecordedTwice
  <2> HIDE DEF x, v, e, r
  <2>5. CASE x.got = 0
    BY <2>1, <2>3, <2>5 DEF r
  <2>6. CASE x.got # 0 /\ x.blk[x.got][e] # 0
    <3>1. r = [x EXCEPT !.got = x.blk[x.got][e]]
      BY <2>3, <2>6
    <3>2. r.logged = x.logged /\ r.blk = x.blk /\ r.used = x.used
      BY <3>1, <2>1 DEF WorkType
    <3> QED
      BY <3>2, <2>1 DEF Recorded, r
  <2>7. CASE x.got # 0 /\ x.blk[x.got][e] = 0 /\ v.got = 0
    BY <2>3, <2>4, <2>7 DEF r
  <2>8. CASE x.got # 0 /\ x.blk[x.got][e] = 0 /\ v.got # 0
    <3> DEFINE nb == [v.blk EXCEPT ![x.got] = [@ EXCEPT ![e] = v.got]]
    <3>1. r = [v EXCEPT !.blk = nb, !.logged = @ \union {<<"block", x.got>>}]
      BY <2>3, <2>8
    <3>2. r.logged = v.logged \union {<<"block", x.got>>} /\ r.blk = nb /\ r.used = v.used
      BY <3>1, <2>2 DEF WorkType
    <3>3. \A b \in DataBlocks : b # x.got => nb[b] = v.blk[b]
      BY <2>2 DEF WorkType, BlockData
    <3> HIDE DEF nb
    <3>4. \A b \in DataBlocks : <<"block", b>> \notin r.logged => b # x.got /\ <<"block", b>> \notin v.logged
      BY <3>2
    <3> QED
      BY <2>4, <3>2, <3>3, <3>4 DEF Recorded, r
  <2> QED
    BY <2>5, <2>6, <2>7, <2>8
<1> QED
  BY <1>1, <1>2

\* A step that changes neither the blocks nor what the inodes name.
LEMMA SavedKept ==
    ASSUME SavedInv, blk' = blk, saved' = saved, content' = content,
           \A i \in Nodes : node'[i].addrs = node[i].addrs
    PROVE  SavedInv'
BY DEF SavedInv

\* The places are the same in the buffers and on the disk.
LEMMA SavedPlaces ==
    ASSUME BlockType, SavedInv, NEW i \in Nodes, NEW k \in Places
    PROVE  Place(saved, node[i].addrs, k) = Place(blk, node[i].addrs, k)
<1>1. node[i].addrs \in AddrType
  BY DEF BlockType
<1>2. node[i].addrs[NDIRECT] # 0 => saved[node[i].addrs[NDIRECT]] = blk[node[i].addrs[NDIRECT]]
  BY DEF SavedInv
<1> QED
  BY <1>1, <1>2, PlaceData, Zenon

\* A buffer that is recycled: the disk has its block, with bytes the file may
\* hold.
LEMMA ForgetInv ==
    ASSUME BlockInv, SavedInv, NEW b \in DataBlocks, Forget(b)
    PROVE  BlockInv' /\ SavedInv'
<1>0. BlockType /\ OwnInv /\ LockInv /\ SpanInv /\ ContentInv /\ BudgetInv
  BY DEF BlockInv
<1>1. /\ blk' = [blk EXCEPT ![b] = saved[b]]
      /\ UNCHANGED <<used, saved, node, dnode, nlk, off, io, ios, content, spans, bpanic>>
  BY DEF Forget
<1>2. blk' \in BlockData /\ blk'[b] = saved[b] /\ \A x \in DataBlocks : x # b => blk'[x] = blk[x]
  <2>1. blk \in [DataBlocks -> [0 .. Words - 1 -> Nat]] /\ saved \in [DataBlocks -> [0 .. Words - 1 -> Nat]]
    BY <1>0 DEF BlockType, SavedInv, BlockData
  <2> QED
    BY <1>1, <2>1 DEF BlockData
<1>3. BlockType'
  BY <1>0, <1>1, <1>2 DEF BlockType
<1>4. \A i \in Nodes : \A k \in Places : Place(blk, node[i].addrs, k) \in DataBlocks \union {0}
  <2>1. \A i \in Nodes : \A k \in Places : PlaceMap(blk, Addrs)[i][k] = Place(blk, node[i].addrs, k)
    BY MapValue DEF Addrs
  <2> QED
    BY <2>1, <1>0 DEF OwnInv, Owned, BlockType
<1>5. ASSUME NEW i \in Nodes PROVE node[i].addrs[NDIRECT] # 0 => blk'[node[i].addrs[NDIRECT]] = blk[node[i].addrs[NDIRECT]]
  <2>1. node[i].addrs[NDIRECT] \in DataBlocks \union {0}
    <3>1. Place(blk, node[i].addrs, NDIRECT) = node[i].addrs[NDIRECT] /\ NDIRECT \in Places
      BY PositionsTyped DEF Place
    <3> QED
      BY <1>4, <3>1
  <2> QED
    BY <1>2, <2>1 DEF SavedInv
<1>6. ASSUME NEW i \in Nodes, NEW k \in Places PROVE Place(blk', node[i].addrs, k) = Place(blk, node[i].addrs, k)
  <2>1. node[i].addrs \in AddrType
    BY <1>0 DEF BlockType
  <2> QED
    BY <1>5, <2>1, PlaceData
<1>7. OwnInv'
  <2>1. PlaceMap(blk', Addrs) = PlaceMap(blk, Addrs)
    <3>1. \A i \in Nodes : Addrs[i] = node[i].addrs
      BY DEF Addrs
    <3> QED
      BY <1>6, <3>1 DEF PlaceMap
  <2>2. Addrs' = Addrs
    BY <1>1 DEF Addrs
  <2> QED
    BY <1>0, <1>1, <2>1, <2>2 DEF OwnInv
<1>8. LockInv' /\ BudgetInv'
  BY <1>0, <1>1 DEF LockInv, BudgetInv, Writing, Ip, File
<1>9. SpanInv'
  BY <1>0, <1>1 DEF SpanInv, SharedWritesDisjoint
<1>10. ASSUME NEW i \in Nodes PROVE Holds(blk', node[i].addrs, content[i])
  <2> DEFINE a == node[i].addrs
             c == content[i]
  <2>1. Holds(blk, a, c) /\ Holds(saved, a, c) /\ Len(c) \in Nat /\ Len(c) <= MAXFILE * BSIZE
    BY <1>0 DEF ContentInv, SavedInv, BlockType
  <2> SUFFICES ASSUME NEW x \in 0 .. Len(c) - 1
               PROVE  /\ Place(blk', a, PlaceOf(x \div BSIZE)) # 0
                      /\ blk'[Place(blk', a, PlaceOf(x \div BSIZE))][x % BSIZE] \in c[x + 1]
    BY DEF Holds
  <2> DEFINE k == PlaceOf(x \div BSIZE)
             g == Place(blk, a, k)
  <2>2. x \in Nat /\ x < Len(c) /\ x < MAXFILE * BSIZE
    BY <2>1, PositionsTyped
  <2>3. k \in Places
    BY <2>2, BlockInFile, PositionsTyped
  <2>4. Place(blk, a, k) # 0 /\ blk[Place(blk, a, k)][x % BSIZE] \in c[x + 1]
    BY <2>1, <2>2, HoldsAt
  <2>5. saved[Place(saved, a, k)][x % BSIZE] \in c[x + 1]
    BY <2>1, <2>2, HoldsAt
  <2> HIDE DEF k
  <2>6. Place(blk', a, k) = g /\ Place(saved, a, k) = g
    BY <2>3, <1>0, <1>6, SavedPlaces
  <2>7. g \in DataBlocks
    BY <2>3, <2>4, <1>4
  <2> HIDE DEF a, c, g
  <2>8. blk'[g][x % BSIZE] \in c[x + 1] /\ g # 0
    <3>1. CASE g = b
      BY <3>1, <2>4, <2>5, <2>6, <1>2 DEF g
    <3>2. CASE g # b
      BY <3>2, <2>4, <2>7, <1>2 DEF g
    <3> QED
      BY <3>1, <3>2
  <2> QED
    BY <2>6, <2>8 DEF k, a, c
<1>11. ContentInv'
  BY <1>0, <1>1, <1>10 DEF ContentInv, Unlocked, Size
<1>12. SavedInv'
  <2>1. \A i \in Nodes : node[i].addrs[NDIRECT] # 0 => saved[node[i].addrs[NDIRECT]] = blk'[node[i].addrs[NDIRECT]]
    BY <1>5 DEF SavedInv
  <2> QED
    BY <1>1, <2>1 DEF SavedInv
<1> QED
  BY <1>3, <1>7, <1>8, <1>9, <1>11, <1>12 DEF BlockInv

\* The bytes of a file that truncation leaves alone.
LEMMA SavedItrunc ==
    ASSUME BlockType, SavedInv, NEW p \in IoProcs, NEW f \in OpenFiles, Itrunc(p, f)
    PROVE  SavedInv'
<1> DEFINE i == InodeOf[f]
           empty == [size |-> 0, addrs |-> [k \in 0 .. NDIRECT |-> 0]]
<1>1. node' = [node EXCEPT ![i] = empty] /\ content' = [content EXCEPT ![i] = <<>>] /\ UNCHANGED <<blk, saved>>
  BY DEF Itrunc
<1>2. i \in Nodes
  BY OpenNode
<1>3. empty.addrs[NDIRECT] = 0
  BY PositionsTyped
<1> HIDE DEF empty
<1>4. /\ node'[i] = empty /\ content'[i] = <<>>
      /\ \A j \in Nodes : j # i => node'[j] = node[j] /\ content'[j] = content[j]
  BY <1>1, <1>2 DEF BlockType
<1>5. \A j \in Nodes : node'[j].addrs[NDIRECT] # 0 => saved'[node'[j].addrs[NDIRECT]] = blk'[node'[j].addrs[NDIRECT]]
  BY <1>1, <1>3, <1>4 DEF SavedInv
<1>6. ASSUME NEW j \in Nodes PROVE Holds(saved', node'[j].addrs, content'[j])
  <2>1. CASE j = i
    <3>1. Len(content'[j]) = 0
      BY <2>1, <1>4
    <3> QED
      BY <3>1 DEF Holds
  <2>2. CASE j # i
    BY <2>2, <1>1, <1>4 DEF SavedInv
  <2> QED
    BY <2>1, <2>2
<1> QED
  BY <1>1, <1>5, <1>6 DEF SavedInv

\* A turn of writei: what is logged is what the buffers hold, and the blocks
\* that are not were there before, with bytes that are still allowed.
LEMMA SavedWrite ==
    ASSUME BlockInv, SavedInv, BlockInv', NEW p \in IoProcs, WriteBlock(p)
    PROVE  SavedInv'
<1> DEFINE c == io[p]
           i == Ip(p)
           from == Position(p)
           w == BlockWork(i, c.logged)
           v == Work(p)
           h == PlaceHere(p)
           m == Span(io[p])
           s == content[i]
           a2 == [Addrs EXCEPT ![i] = v.addrs]
           V == PlaceMap(blk, Addrs)
           V2 == PlaceMap(v.blk, a2)
<1>0. BlockType /\ ContentInv /\ OwnInv
  BY DEF BlockInv
<1>1. c.pc = "write" /\ c.tot < c.n /\ node' = [node EXCEPT ![i].addrs = v.addrs] /\ ios' = ios
  BY DEF WriteBlock, Work, Position
<1>2. PICK L \in {v.logged, v.logged \union {<<"block", v.got>>}} :
      /\ saved' = [b \in DataBlocks |-> IF <<"block", b>> \in L THEN blk'[b] ELSE saved[b]]
      /\ \/ v.got = 0 /\ blk' = v.blk /\ content' = content
         \/ /\ v.got # 0 /\ blk' = Scribble(v.blk, v.got, from, m, ios) /\ <<"block", v.got>> \in L
            /\ content' = [content EXCEPT ![i] = Overwritten(@, from, m)]
         \/ \E part \in 0 .. m - 1 :
            /\ v.got # 0 /\ blk' = Scribble(v.blk, v.got, from, part, ios)
            /\ content' = [content EXCEPT ![i] = Torn(@, from, part)]
  BY DEF WriteBlock, Work, Position, Scribble, Copied, WithData, Saves
<1>3. /\ i \in Nodes /\ from \in Nat /\ from <= Len(s) /\ Len(s) \in Nat /\ m \in Nat /\ m <= BSIZE - (from % BSIZE)
  BY <1>1, TurnStart
<1>4. /\ w \in WorkType /\ h \in Places /\ h # NDIRECT /\ Addrs \in [Nodes -> AddrType] /\ from \div BSIZE \in 0 .. MAXFILE - 1
      /\ Step(w, v, i, Addrs, h) /\ h = PlaceOf(from \div BSIZE)
  BY <1>1, TurnStep DEF PlaceHere
<1>5. w.blk = blk /\ w.used = used
  BY DEF BlockWork
<1>6. Recorded(w, v)
  BY <1>4, BmapRecorded DEF Work
<1>7. ios \in Nat /\ s \in Seq(SUBSET Nat) /\ content \in [Nodes -> Seq(SUBSET Nat)] /\ used \subseteq DataBlocks
      /\ blk \in BlockData /\ node \in [Nodes -> [size : Nat, addrs : AddrType]] /\ saved \in BlockData
  BY <1>0, <1>3 DEF BlockType, SavedInv
<1>8. /\ blk' \in BlockData /\ content' \in [Nodes -> Seq(SUBSET Nat)]
      /\ \A j \in Nodes : Holds(blk', node'[j].addrs, content'[j]) /\ Len(content'[j]) <= MAXFILE * BSIZE
  BY DEF BlockInv, BlockType, ContentInv
<1>9. v \in WorkType /\ Owned(v.used, V2) /\ v.got = V2[i][h] /\ \A j \in Nodes : \A l \in Places : V[j][l] # 0 => V2[j][l] = V[j][l]
  BY <1>4, <1>5, Zenon DEF Step
<1>10. v.blk \in BlockData /\ v.used \subseteq DataBlocks /\ 0 \notin DataBlocks /\ v.got \in Nat /\ v.addrs \in AddrType
  BY <1>9, BlockAssumption DEF WorkType
<1>11. /\ \A j \in Nodes : a2[j] = node'[j].addrs /\ Addrs[j] = node[j].addrs /\ node[j].addrs \in AddrType /\ a2[j] \in AddrType
  <2>1. \A j \in Nodes : Addrs[j] = node[j].addrs /\ node[j].addrs \in AddrType
    BY <1>7 DEF Addrs
  <2>2. \A j \in Nodes : node'[j].addrs = IF j = i THEN v.addrs ELSE node[j].addrs
    BY <1>1, <1>3, <1>7
  <2>3. \A j \in Nodes : a2[j] = IF j = i THEN v.addrs ELSE node[j].addrs
    BY <1>3, <1>4, <2>1
  <2> QED
    BY <1>10, <2>1, <2>2, <2>3
<1>12. \A j \in Nodes : \A l \in Places : V[j][l] = Place(blk, node[j].addrs, l) /\ V2[j][l] = Place(v.blk, a2[j], l)
  <2> HIDE DEF v, a2
  <2> SUFFICES ASSUME NEW j \in Nodes, NEW l \in Places
               PROVE  V[j][l] = Place(blk, node[j].addrs, l) /\ V2[j][l] = Place(v.blk, a2[j], l)
    OBVIOUS
  <2>1. V[j][l] = Place(blk, Addrs[j], l)
    BY MapValue
  <2>2. V2[j][l] = Place(v.blk, a2[j], l)
    BY MapValue
  <2>3. Addrs[j] = node[j].addrs
    BY <1>11
  <2> QED
    BY <2>1, <2>2, <2>3
<1> HIDE DEF c, i, from, w, v, h, m, s, a2, V, V2
<1>13. /\ \A j, q \in Nodes : \A l, n \in Places : V2[j][l] = V2[q][n] /\ V2[j][l] # 0 => j = q /\ l = n
       /\ \A j \in Nodes : \A l \in Places : V2[j][l] \in v.used \union {0}
  BY <1>9, Zenon DEF Owned
<1>14. \A b \in used : \E j \in Nodes : \E l \in Places : V[j][l] = b
  BY <1>0, Zenon DEF OwnInv, Owned, V
<1>15. ASSUME NEW j \in Nodes, NEW l \in Places, V2[j][l] # 0, <<"block", V2[j][l]>> \notin v.logged
       PROVE  V[j][l] = V2[j][l]
  <2>1. V2[j][l] \in v.used /\ V2[j][l] \in DataBlocks
    BY <1>10, <1>13, <1>15
  <2>2. V2[j][l] \in used
    BY <1>5, <1>6, <1>15, <2>1 DEF Recorded
  <2>3. PICK q \in Nodes, n \in Places : V[q][n] = V2[j][l]
    BY <1>14, <2>2
  <2>4. V2[q][n] = V2[j][l]
    BY <1>9, <1>15, <2>3
  <2>5. q = j /\ n = l
    BY <1>13, <1>15, <2>4
  <2> QED
    BY <2>3, <2>5
<1>16. \A b \in DataBlocks : b # v.got => blk'[b] = v.blk[b]
  <2>1. CASE v.got = 0 /\ blk' = v.blk
    BY <2>1
  <2>2. ASSUME NEW k \in Nat, blk' = Scribble(v.blk, v.got, from, k, ios)
        PROVE  \A b \in DataBlocks : b # v.got => blk'[b] = v.blk[b]
    BY <1>10, <2>2 DEF Scribble, BlockData
  <2>3. \A part \in 0 .. m - 1 : part \in Nat
    BY <1>3
  <2> QED
    BY <1>2, <1>3, <2>1, <2>2, <2>3
<1>17. ASSUME NEW j \in Nodes
       PROVE  /\ a2[j][NDIRECT] # 0 => blk'[a2[j][NDIRECT]] = v.blk[a2[j][NDIRECT]] /\ a2[j][NDIRECT] \in DataBlocks
              /\ V2[j][NDIRECT] = a2[j][NDIRECT] /\ V[j][NDIRECT] = node[j].addrs[NDIRECT]
  <2>1. NDIRECT \in Places /\ NDIRECT <= NDIRECT
    BY PositionsTyped
  <2>2. V2[j][NDIRECT] = a2[j][NDIRECT] /\ V[j][NDIRECT] = node[j].addrs[NDIRECT]
    BY <1>12, <2>1 DEF Place
  <2>3. a2[j][NDIRECT] # 0 => a2[j][NDIRECT] # v.got /\ a2[j][NDIRECT] \in DataBlocks
    BY <1>3, <1>4, <1>9, <1>10, <1>13, <2>1, <2>2
  <2> QED
    BY <1>16, <2>2, <2>3
<1>18. ASSUME NEW j \in Nodes, NEW l \in Places PROVE Place(blk', a2[j], l) = V2[j][l]
  <2>1. a2[j] \in AddrType
    BY <1>11
  <2>2. a2[j][NDIRECT] # 0 => blk'[a2[j][NDIRECT]] = v.blk[a2[j][NDIRECT]]
    BY <1>17
  <2>3. Place(blk', a2[j], l) = Place(v.blk, a2[j], l)
    BY <2>1, <2>2, PlaceData, Zenon
  <2> QED
    BY <2>3, <1>12
<1>19. ASSUME NEW b \in DataBlocks, b # 0
       PROVE  \/ saved'[b] = blk'[b]
              \/ saved'[b] = saved[b] /\ <<"block", b>> \notin v.logged
  <2>1. v.logged \subseteq L
    BY <1>2
  <2>2. saved'[b] = IF <<"block", b>> \in L THEN blk'[b] ELSE saved[b]
    BY <1>2
  <2> QED
    BY <2>1, <2>2
<1>20. saved' \in BlockData
  <2>1. saved' \in [DataBlocks -> [0 .. Words - 1 -> Nat]]
    BY <1>2, <1>7, <1>8 DEF BlockData
  <2> QED
    BY <2>1 DEF BlockData
<1>21. ASSUME NEW j \in Nodes, a2[j][NDIRECT] # 0 PROVE saved'[a2[j][NDIRECT]] = blk'[a2[j][NDIRECT]]
  <2> DEFINE d == a2[j][NDIRECT]
  <2>1. d \in DataBlocks /\ d # 0 /\ blk'[d] = v.blk[d] /\ V2[j][NDIRECT] = d /\ V[j][NDIRECT] = node[j].addrs[NDIRECT]
    BY <1>17, <1>21
  <2>2. CASE saved'[d] = saved[d] /\ <<"block", d>> \notin v.logged
    <3>1. V[j][NDIRECT] = d
      BY <1>15, <2>1, <2>2, PositionsTyped
    <3>2. saved[d] = blk[d]
      BY <2>1, <3>1 DEF SavedInv
    <3>3. v.blk[d] = blk[d]
      BY <1>5, <1>6, <2>1, <2>2 DEF Recorded
    <3> QED
      BY <2>1, <2>2, <3>2, <3>3
  <2> QED
    BY <1>19, <2>1, <2>2
<1>22. ASSUME NEW j \in Nodes, NEW x \in Nat, x < Len(content'[j]),
              <<"block", V2[j][PlaceOf(x \div BSIZE)]>> \notin L
       PROVE  x < Len(content[j]) /\ content[j][x + 1] \subseteq content'[j][x + 1]
  <2>1. CASE content' = content
    BY <2>1, <1>22
  <2>2. CASE v.got # 0 /\ <<"block", v.got>> \in L /\ content' = [content EXCEPT ![i] = Overwritten(@, from, m)]
    <3>1. CASE j # i
      BY <3>1, <2>2, <1>3, <1>7, <1>22
    <3>2. CASE j = i
      <4> DEFINE o == Overwritten(s, from, m)
      <4>1. content'[j] = o
        BY <3>2, <2>2, <1>3, <1>7 DEF s
      <4>2. Len(o) = IF from + m > Len(s) THEN from + m ELSE Len(s)
        BY <1>3, <1>7, OverwrittenEffect
      <4>3. \A y \in 0 .. Len(o) - 1 : o[y + 1] = IF from <= y /\ y < from + m THEN {ios} ELSE s[y + 1]
        BY <1>3, <1>7, OverwrittenEffect
      <4> HIDE DEF o
      <4>4. x \div BSIZE # from \div BSIZE
        <5>1. V2[j][PlaceOf(x \div BSIZE)] # v.got
          BY <1>22, <2>2
        <5> QED
          BY <5>1, <3>2, <1>4, <1>9
      <4>5. ~(from <= x /\ x < from + m)
        BY <4>4, <1>3, TurnBytes
      <4>6. x < Len(s)
        BY <4>1, <4>2, <4>5, <1>3, <1>22
      <4>7. o[x + 1] = s[x + 1]
        BY <4>1, <4>3, <4>5, <4>6, <1>3, <1>22
      <4> QED
        BY <3>2, <4>1, <4>6, <4>7 DEF s
    <3> QED
      BY <3>1, <3>2
  <2>3. ASSUME NEW part \in 0 .. m - 1, content' = [content EXCEPT ![i] = Torn(@, from, part)]
        PROVE  x < Len(content[j]) /\ content[j][x + 1] \subseteq content'[j][x + 1]
    <3>1. CASE j # i
      BY <3>1, <2>3, <1>3, <1>7, <1>22
    <3>2. CASE j = i
      <4> DEFINE o == Torn(s, from, part)
      <4>1. content'[j] = o
        BY <3>2, <2>3, <1>3, <1>7 DEF s
      <4>0. part \in Nat
        BY <1>3
      <4>2. Len(o) = Len(s)
        BY <4>0, <1>3, <1>7, TornEffect
      <4>3. \A y \in 0 .. Len(s) - 1 : o[y + 1] = IF from <= y /\ y < from + part THEN s[y + 1] \union {ios} ELSE s[y + 1]
        BY <4>0, <1>3, <1>7, TornEffect
      <4> HIDE DEF o
      <4>4. x \in 0 .. Len(s) - 1
        BY <4>1, <4>2, <1>3, <1>22
      <4>5. s[x + 1] \subseteq o[x + 1]
        BY <4>3, <4>4
      <4> QED
        BY <3>2, <4>1, <4>4, <4>5, <1>3 DEF s
    <3> QED
      BY <3>1, <3>2
  <2> QED
    BY <1>2, <2>1, <2>2, <2>3
<1>23. ASSUME NEW j \in Nodes PROVE Holds(saved', a2[j], content'[j])
  <2> DEFINE e == content'[j]
  <2>1. Holds(blk', a2[j], e) /\ Len(e) \in Nat /\ Len(e) <= MAXFILE * BSIZE
    BY <1>8, <1>11
  <2> SUFFICES ASSUME NEW x \in 0 .. Len(e) - 1
               PROVE  /\ Place(saved', a2[j], PlaceOf(x \div BSIZE)) # 0
                      /\ saved'[Place(saved', a2[j], PlaceOf(x \div BSIZE))][x % BSIZE] \in e[x + 1]
    BY DEF Holds
  <2> DEFINE k == PlaceOf(x \div BSIZE)
             g == V2[j][k]
  <2>2. x \in Nat /\ x < Len(e) /\ x < MAXFILE * BSIZE
    BY <2>1, PositionsTyped
  <2>3. k \in Places
    BY <2>2, BlockInFile, PositionsTyped
  <2>4. Place(blk', a2[j], k) # 0 /\ blk'[Place(blk', a2[j], k)][x % BSIZE] \in e[x + 1]
    BY <2>1, <2>2, HoldsAt
  <2>5. Place(blk', a2[j], k) = g /\ Place(saved', a2[j], k) = g
    <3> HIDE DEF k
    <3>1. Place(saved', a2[j], k) = Place(blk', a2[j], k)
      BY <1>11, <1>21, <2>3, PlaceData, Zenon
    <3> QED
      BY <3>1, <1>18, <2>3
  <2>6. g # 0 /\ g \in DataBlocks
    BY <1>10, <1>13, <2>3, <2>4, <2>5
  <2>7. CASE saved'[g] = blk'[g]
    BY <2>4, <2>5, <2>6, <2>7
  <2>8. CASE saved'[g] # blk'[g]
    <3>1. saved'[g] = saved[g] /\ <<"block", g>> \notin v.logged /\ <<"block", g>> \notin L
      BY <1>2, <1>19, <2>6, <2>8
    <3>2. V[j][k] = g
      BY <1>15, <2>3, <2>6, <3>1
    <3>3. Place(saved, node[j].addrs, k) = g
      BY <1>0, <1>12, <2>3, <3>2, SavedPlaces
    <3>4. x < Len(content[j]) /\ content[j][x + 1] \subseteq e[x + 1]
      BY <1>22, <2>2, <3>1
    <3>5. Holds(saved, node[j].addrs, content[j]) /\ Len(content[j]) \in Nat
      BY <1>7 DEF SavedInv
    <3>6. saved[Place(saved, node[j].addrs, k)][x % BSIZE] \in content[j][x + 1]
      BY <2>2, <3>4, <3>5, HoldsAt
    <3>7. saved'[g][x % BSIZE] \in e[x + 1]
      BY <3>1, <3>3, <3>4, <3>6
    <3> QED
      BY <2>5, <2>6, <3>7
  <2> QED
    BY <2>7, <2>8
<1>24. \A j \in Nodes : node'[j].addrs[NDIRECT] # 0 => saved'[node'[j].addrs[NDIRECT]] = blk'[node'[j].addrs[NDIRECT]]
  BY <1>11, <1>21
<1>25. \A j \in Nodes : Holds(saved', node'[j].addrs, content'[j])
  BY <1>11, <1>23
<1> QED
  BY <1>20, <1>24, <1>25 DEF SavedInv

\* Every step keeps the invariant.
LEMMA FileNextInv == FileInv /\ [BlockNext]_blockVars => FileInv'
<1> SUFFICES ASSUME BlockInv, SavedInv, [BlockNext]_blockVars
             PROVE  BlockInv' /\ SavedInv'
  BY DEF FileInv
<1>0. BlockType
  BY DEF BlockInv
<1>1. ASSUME NEW p \in IoProcs, Chunk(p) PROVE BlockInv' /\ SavedInv'
  <2>1. UNCHANGED <<blk, saved, node, content>>
    BY <1>1 DEF Chunk
  <2> QED
    BY <2>1, <1>1, ChunkInv, SavedKept
<1>2. ASSUME NEW p \in IoProcs, WriteBlock(p) PROVE BlockInv' /\ SavedInv'
  BY <1>2, WriteBlockInv, SavedWrite
<1>3. ASSUME NEW p \in IoProcs, Update(p) PROVE BlockInv' /\ SavedInv'
  <2>1. UNCHANGED <<blk, saved, content>> /\ node' = [node EXCEPT ![Ip(p)] = [node[Ip(p)] EXCEPT !.size = Size(Ip(p), io[p].at + io[p].tot)]]
    BY <1>3 DEF Update
  <2>2. \A i \in Nodes : node'[i].addrs = node[i].addrs
    <3> DEFINE sz == Size(Ip(p), io[p].at + io[p].tot)
    <3>1. node \in [Nodes -> [size : Nat, addrs : AddrType]]
      BY <1>0 DEF BlockType
    <3> HIDE DEF sz
    <3>2. node' = [node EXCEPT ![Ip(p)] = [node[Ip(p)] EXCEPT !.size = sz]]
      BY <2>1 DEF sz
    <3> QED
      BY <3>1, <3>2
  <2> QED
    BY <2>1, <2>2, <1>3, UpdateInv, SavedKept
<1>4. ASSUME NEW p \in IoProcs, NEW f \in OpenFiles, Itrunc(p, f) PROVE BlockInv' /\ SavedInv'
  BY <1>0, <1>4, ItruncInv, SavedItrunc
<1>5. ASSUME NEW p \in IoProcs, NEW f \in OpenFiles, NEW n \in Counts, FileWrite(p, f, n) PROVE BlockInv' /\ SavedInv'
  <2>1. UNCHANGED <<blk, saved, node, content>>
    BY <1>5 DEF FileWrite
  <2> QED
    BY <2>1, <1>5, FileWriteInv, SavedKept
<1>6. ASSUME NEW p \in IoProcs, NEW f \in OpenFiles, NEW n \in Counts, FileRead(p, f, n) PROVE BlockInv' /\ SavedInv'
  <2>1. UNCHANGED <<blk, saved, node, content>>
    BY <1>6 DEF FileRead
  <2> QED
    BY <2>1, <1>6, FileReadInv, SavedKept
<1>7. ASSUME NEW b \in DataBlocks, Forget(b) PROVE BlockInv' /\ SavedInv'
  BY <1>7, ForgetInv
<1>8. CASE UNCHANGED blockVars
  <2>1. BlockType'
    BY <1>8 DEF BlockInv, BlockType, blockVars
  <2>2. OwnInv'
    BY <1>8 DEF BlockInv, OwnInv, Addrs, blockVars
  <2>3. LockInv' /\ BudgetInv'
    BY <1>8 DEF BlockInv, LockInv, BudgetInv, Writing, Ip, File, blockVars
  <2>4. SpanInv'
    BY <1>8 DEF BlockInv, SpanInv, SharedWritesDisjoint, blockVars
  <2>5. ContentInv'
    BY <1>8 DEF BlockInv, ContentInv, Unlocked, Size, blockVars
  <2>6. SavedInv'
    BY <1>8, SavedKept DEF blockVars
  <2> QED
    BY <2>1, <2>2, <2>3, <2>4, <2>5, <2>6 DEF BlockInv
<1> QED
  BY <1>1, <1>2, <1>3, <1>4, <1>5, <1>6, <1>7, <1>8 DEF BlockNext, BlockStep

\* The contents of files: the inductive invariant of writei, bmap, balloc and
\* itrunc holds in every state, whatever the numbers of processes, files and
\* blocks and however the turns of the writers and the recycling of buffers
\* interleave.
THEOREM BlockInvariant == BlockSpec => []FileInv
<1>1. BlockInit => FileInv
  <2> SUFFICES ASSUME BlockInit
               PROVE  FileInv
    OBVIOUS
  <2>1. BlockInv
    BY BlockInitInv
  <2>2. saved = blk
    BY DEF BlockInit
  <2>3. SavedInv
    BY <2>1, <2>2 DEF SavedInv, BlockInv, BlockType, ContentInv
  <2> QED
    BY <2>1, <2>3 DEF FileInv
<1> QED
  BY <1>1, FileNextInv, PTL DEF BlockSpec

\* The slots BlocksOwnedOnce counts are the places, each with a block of its own.
LEMMA SlotsOwned == BlockInv => BlocksOwnedOnce
<1> SUFFICES ASSUME BlockInv
             PROVE  BlocksOwnedOnce
  OBVIOUS
<1> DEFINE slots == UNION {{<<i, k, node[i].addrs[k]>> : k \in 0 .. NDIRECT}
                        \union {<<i, NDIRECT + 1 + k, blk[node[i].addrs[NDIRECT]][k]>> :
                                k \in {x \in 0 .. NINDIRECT - 1 : node[i].addrs[NDIRECT] # 0}} : i \in Nodes}
           owned == {s \in slots : s[3] # 0}
           V == PlaceMap(blk, Addrs)
<1>0. BlockType /\ OwnInv
  BY DEF BlockInv
<1>1. \A i \in Nodes : \A k \in Places : V[i][k] = Place(blk, node[i].addrs, k)
  BY DEF PlaceMap, Addrs
<1> HIDE DEF V
<1>2. ASSUME NEW s \in slots, s[3] # 0
      PROVE  \E i \in Nodes, k \in Places : s = <<i, k, V[i][k]>>
  <2>1. PICK i \in Nodes : s \in {<<i, k, node[i].addrs[k]>> : k \in 0 .. NDIRECT}
                        \union {<<i, NDIRECT + 1 + k, blk[node[i].addrs[NDIRECT]][k]>> :
                                k \in {x \in 0 .. NINDIRECT - 1 : node[i].addrs[NDIRECT] # 0}}
    BY <1>2
  <2>2. CASE s \in {<<i, k, node[i].addrs[k]>> : k \in 0 .. NDIRECT}
    <3>1. PICK k \in 0 .. NDIRECT : s = <<i, k, node[i].addrs[k]>>
      BY <2>2
    <3>2. k \in Places /\ V[i][k] = node[i].addrs[k]
      BY <1>1, PositionsTyped DEF Place
    <3> QED
      BY <3>1, <3>2
  <2>3. CASE s \in {<<i, NDIRECT + 1 + k, blk[node[i].addrs[NDIRECT]][k]>> :
                                k \in {x \in 0 .. NINDIRECT - 1 : node[i].addrs[NDIRECT] # 0}}
    <3>1. PICK e \in 0 .. NINDIRECT - 1 : node[i].addrs[NDIRECT] # 0 /\ s = <<i, NDIRECT + 1 + e, blk[node[i].addrs[NDIRECT]][e]>>
      BY <2>3
    <3> DEFINE k == NDIRECT + 1 + e
    <3>2. k \in Places /\ ~(k <= NDIRECT) /\ k - NDIRECT - 1 = e
      BY PositionsTyped DEF Places
    <3>3. s = <<i, k, blk[node[i].addrs[NDIRECT]][e]>>
      BY <3>1
    <3> HIDE DEF k
    <3>4. Place(blk, node[i].addrs, k) = blk[node[i].addrs[NDIRECT]][k - NDIRECT - 1]
      BY <3>1, <3>2, Zenon DEF Place
    <3>5. V[i][k] = blk[node[i].addrs[NDIRECT]][e]
      BY <1>1, <3>2, <3>4
    <3> QED
      BY <3>2, <3>3, <3>5
  <2> QED
    BY <2>1, <2>2, <2>3
<1>3. ASSUME NEW i \in Nodes, NEW k \in Places, V[i][k] # 0
      PROVE  <<i, k, V[i][k]>> \in slots
  <2>1. CASE k <= NDIRECT
    <3>1. k \in 0 .. NDIRECT /\ V[i][k] = node[i].addrs[k]
      BY <1>1, <2>1, PositionsTyped DEF Place, Places
    <3> QED
      BY <3>1
  <2>2. CASE ~(k <= NDIRECT)
    <3> DEFINE e == k - NDIRECT - 1
    <3>1. node[i].addrs[NDIRECT] # 0 /\ V[i][k] = blk[node[i].addrs[NDIRECT]][k - NDIRECT - 1]
      BY <1>1, <1>3, <2>2 DEF Place
    <3>2. e \in 0 .. NINDIRECT - 1 /\ k = NDIRECT + 1 + e
      BY <2>2, PositionsTyped DEF Places
    <3>3. V[i][k] = blk[node[i].addrs[NDIRECT]][e]
      BY <3>1
    <3> HIDE DEF e
    <3>4. <<i, k, V[i][k]>> = <<i, NDIRECT + 1 + e, blk[node[i].addrs[NDIRECT]][e]>>
      BY <3>2, <3>3
    <3>5. e \in {x \in 0 .. NINDIRECT - 1 : node[i].addrs[NDIRECT] # 0}
      BY <3>1, <3>2
    <3> QED
      BY <3>4, <3>5
  <2> QED
    BY <2>1, <2>2
<1>5. /\ \A s \in owned : \E i \in Nodes, k \in Places : s = <<i, k, V[i][k]>> /\ s[3] = V[i][k] /\ V[i][k] # 0
      /\ \A i \in Nodes, k \in Places : V[i][k] # 0 => <<i, k, V[i][k]>> \in owned
  <2>1. ASSUME NEW s \in owned PROVE \E i \in Nodes, k \in Places : s = <<i, k, V[i][k]>> /\ s[3] = V[i][k] /\ V[i][k] # 0
    <3>1. PICK i \in Nodes, k \in Places : s = <<i, k, V[i][k]>>
      BY <1>2
    <3>2. s[3] = V[i][k] /\ s[3] # 0
      BY <3>1
    <3> QED
      BY <3>1, <3>2
  <2>2. ASSUME NEW i \in Nodes, NEW k \in Places, V[i][k] # 0 PROVE <<i, k, V[i][k]>> \in owned
    BY <1>3, <2>2
  <2> QED
    BY <2>1, <2>2
<1> HIDE DEF slots, owned
<1>6. /\ \A i \in Nodes : \A k \in Places : V[i][k] \in used \union {0}
      /\ \A i, j \in Nodes : \A k, l \in Places : V[i][k] = V[j][l] /\ V[i][k] # 0 => i = j /\ k = l
      /\ \A b \in used : \E i \in Nodes : \E k \in Places : V[i][k] = b
  BY <1>0 DEF OwnInv, Owned, V
<1>7. 0 \notin used /\ IsFiniteSet(used)
  BY <1>0, BlockAssumption, FS_Subset DEF BlockType
<1>8. \A s \in owned : s[3] \in used
  BY <1>5, <1>6
<1>9. \A b \in used : \E s \in owned : s[3] = b
  <2> SUFFICES ASSUME NEW b \in used
               PROVE  \E s \in owned : s[3] = b
    OBVIOUS
  <2>1. PICK i \in Nodes, k \in Places : V[i][k] = b
    BY <1>6
  <2>2. <<i, k, V[i][k]>> \in owned /\ <<i, k, V[i][k]>>[3] = b
    BY <1>5, <1>7, <2>1
  <2> QED
    BY <2>2
<1>10. {s[3] : s \in owned} = used
  BY <1>8, <1>9
<1>11. \A s, t \in owned : s[3] = t[3] => s = t
  BY <1>5, <1>6
<1>12. ExistsBijection(used, owned)
  <2> DEFINE f == [b \in used |-> CHOOSE s \in owned : s[3] = b]
  <2>1. \A b \in used : f[b] \in owned /\ f[b][3] = b
    BY <1>9
  <2>2. f \in [used -> owned]
    BY <2>1
  <2> HIDE DEF f
  <2>3. \A b, d \in used : f[b] = f[d] => b = d
    BY <2>1
  <2>4. \A s \in owned : \E b \in used : f[b] = s
    BY <1>8, <1>11, <2>1
  <2>5. f \in Bijection(used, owned)
    BY <2>2, <2>3, <2>4 DEF Bijection, Injection, Surjection, IsInjective
  <2> QED
    BY <2>5 DEF ExistsBijection
<1>13. Cardinality(owned) = Cardinality(used)
  BY <1>7, <1>12, FS_Bijection
<1> QED
  BY <1>0, <1>10, <1>13 DEF BlocksOwnedOnce, OwnInv, owned, slots

\* Every block marked in the bitmap is in exactly one place of one inode and
\* bfree never finds a block free, also after writes that ran out of blocks.
THEOREM BlocksOwnedAlways == BlockSpec => []BlocksOwnedOnce
BY BlockInvariant, SlotsOwned, PTL DEF FileInv

\* What readi would read is the content.
LEMMA ContentStored == FileInv => FileContent
<1> SUFFICES ASSUME FileInv, NEW i \in Nodes, Unlocked(i)
             PROVE  /\ Len(content[i]) = node[i].size
                    /\ \A j \in 1 .. node[i].size : {Byte(blk, i, j - 1), Byte(saved, i, j - 1)} \subseteq content[i][j]
                    /\ dnode[i] = node[i]
  BY DEF FileContent
<1> DEFINE c == content[i]
           n == node[i].size
           a == node[i].addrs
<1>0. BlockType /\ SavedInv
  BY DEF FileInv, BlockInv
<1>1. c \in Seq(SUBSET Nat) /\ n \in Nat /\ a \in AddrType
  BY <1>0 DEF BlockType
<1>2. Len(c) = n /\ Len(c) <= MAXFILE * BSIZE /\ Holds(blk, a, c) /\ dnode[i] = node[i] /\ Holds(saved, a, c)
  BY DEF FileInv, BlockInv, ContentInv, SavedInv
<1>3. ASSUME NEW j \in 1 .. n PROVE Byte(blk, i, j - 1) \in c[j] /\ Byte(saved, i, j - 1) \in c[j]
  <2> DEFINE x == j - 1
             bn == x \div BSIZE
             b == IF bn < NDIRECT THEN a[bn] ELSE blk[a[NDIRECT]][bn - NDIRECT]
  <2>1. x \in Nat /\ x < Len(c) /\ x < MAXFILE * BSIZE /\ x + 1 = j
    BY <1>1, <1>2, PositionsTyped
  <2> HIDE DEF x
  <2>2. bn \in 0 .. MAXFILE - 1 /\ PlaceOf(bn) \in Places
    BY <2>1, BlockInFile, PositionsTyped
  <2>3. Place(blk, a, PlaceOf(bn)) # 0 /\ blk[Place(blk, a, PlaceOf(bn))][x % BSIZE] \in c[x + 1]
    BY <1>1, <1>2, <2>1, HoldsAt
  <2>31. saved[Place(saved, a, PlaceOf(bn))][x % BSIZE] \in c[x + 1]
    BY <1>1, <1>2, <2>1, HoldsAt
  <2>4. Byte(blk, i, x) = blk[b][x % BSIZE] /\ Byte(saved, i, x) = saved[b][x % BSIZE]
    BY DEF Byte
  <2> HIDE DEF bn
  <2>5. Place(blk, a, PlaceOf(bn)) = b
    <3>1. CASE bn < NDIRECT
      <4>1. PlaceOf(bn) = bn /\ bn <= NDIRECT
        BY <2>2, <3>1, PositionsTyped DEF PlaceOf
      <4> QED
        BY <3>1, <4>1 DEF Place
    <3>2. CASE ~(bn < NDIRECT)
      <4> DEFINE k == bn + 1
      <4>1. PlaceOf(bn) = k /\ ~(k <= NDIRECT) /\ k - NDIRECT - 1 = bn - NDIRECT
        BY <2>2, <3>2, PositionsTyped DEF PlaceOf
      <4> HIDE DEF k
      <4>2. a[NDIRECT] # 0
        BY <2>3, <4>1 DEF Place
      <4>3. Place(blk, a, k) = blk[a[NDIRECT]][k - NDIRECT - 1]
        BY <4>1, <4>2, Zenon DEF Place
      <4> QED
        BY <3>2, <4>1, <4>3
    <3> QED
      BY <3>1, <3>2
  <2>6. Place(saved, a, PlaceOf(bn)) = b
    BY <1>0, <2>2, <2>5, SavedPlaces
  <2>7. Byte(blk, i, x) \in c[x + 1] /\ Byte(saved, i, x) \in c[x + 1]
    BY <2>3, <2>31, <2>4, <2>5, <2>6
  <2> QED
    BY <2>1, <2>7 DEF x
<1> QED
  BY <1>2, <1>3

\* A file nobody has locked holds at every place, in the buffers and on the
\* disk, a byte of the last write there or of one that failed there since, and
\* its inode on disk is the one in memory.
THEOREM FileContentKept == BlockSpec => []FileContent
BY BlockInvariant, ContentStored, PTL

\* Chunks written through one open file never overlap.
THEOREM SharedWritesApart == BlockSpec => []SharedWritesDisjoint
<1>1. BlockInv => SharedWritesDisjoint
  BY DEF BlockInv, SpanInv
<1> QED
  BY <1>1, BlockInvariant, PTL DEF FileInv

\* Three blocks are spare: the indirect block, its bit, and the inode.
LEMMA LogFits == BlockInv => ChunkFitsLog
<1> SUFFICES ASSUME BlockInv, NEW p \in IoProcs
             PROVE  Cardinality(io[p].logged) + 1 <= OpBlocks
  BY DEF ChunkFitsLog
<1>1. CASE Writing(p)
  <2> DEFINE L == io[p].logged
             I == Indirect(node[Ip(p)].addrs)
             R == L \ I
  <2>1. IsFiniteSet(L) /\ Cardinality(R) + 3 <= OpBlocks
    BY <1>1 DEF BlockInv, BudgetInv, Budget
  <2>2. IsFiniteSet(I) /\ Cardinality(I) <= 2 /\ Cardinality(I) \in Nat
    BY IndirectTwo, FS_CardinalityType
  <2> HIDE DEF L, I
  <2>3. IsFiniteSet(R) /\ Cardinality(R) \in Nat
    BY <2>1, FS_Subset, FS_CardinalityType
  <2>4. IsFiniteSet(R \cap I) /\ Cardinality(R \cap I) \in Nat
    BY <2>2, <2>3, FS_Intersection, FS_CardinalityType
  <2>5. IsFiniteSet(R \union I) /\ Cardinality(R \union I) = Cardinality(R) + Cardinality(I) - Cardinality(R \cap I)
    BY <2>2, <2>3, FS_Union
  <2>6. L \subseteq R \union I
    OBVIOUS
  <2> HIDE DEF R
  <2>7. Cardinality(L) <= Cardinality(R \union I) /\ Cardinality(L) \in Nat /\ Cardinality(R \union I) \in Nat
    BY <2>1, <2>5, <2>6, FS_Subset, FS_CardinalityType
  <2>8. Cardinality(L) + 1 <= OpBlocks
    BY <2>1, <2>2, <2>3, <2>4, <2>5, <2>7, BlockAssumption
  <2> QED
    BY <2>8 DEF L
<1>2. CASE ~Writing(p)
  <2>1. io[p].logged = {}
    BY <1>2 DEF BlockInv, BudgetInv
  <2>2. Cardinality({}) = 0
    BY FS_EmptySet
  <2> QED
    BY <2>1, <2>2, BlockAssumption
<1> QED
  BY <1>1, <1>2

\* What a chunk of filewrite logs, with the inode's block, never exceeds what
\* begin_op reserved, for every block size and every offset.
THEOREM ChunkFitsLogAlways == BlockSpec => []ChunkFitsLog
BY BlockInvariant, LogFits, PTL DEF FileInv
=============================================================================
