----------------------------- MODULE RingProofs -----------------------------
(* Proofs about the rings that processes share with somebody else: those of  *)
(* the virtio disk, of a pipe and of the console, for any number of          *)
(* processes, any size and wherever the indices wrap.                        *)
EXTENDS VirtioDisk, Pipe, Console, FiniteSetTheorems, SequenceTheorems, WellFoundedInduction, TLAPS

-----------------------------------------------------------------------------
(* The disk: the inductive invariant.                                        *)

DescRecord == [addr : {"none", "header", "data", "status"}, write : BOOLEAN, sector : Sectors \union {None},
               buf : Bufs \union {None}, more : BOOLEAN, next : Descs]
InfoRecord == [b : Bufs \union {None}, status : {0, 255}]
BufRecord  == [data : Values \union {None}, disk : {0, 1}, lock : Procs \union {None}]
ReqRecord  == [write : BOOLEAN, sector : Sectors \union {None}, value : Values \union {None},
               b : Bufs \union {None}, i0 : Descs, i1 : Descs, i2 : Descs]
Indices    == 0 .. (IdxMod - 1)
Rings      == [ring : [Descs -> Descs], idx : Indices]
Labels     == {"idle", "alloc", "sleep_free", "publish", "notify", "sleep_buf", "woken", "return"}

DiskType ==
    /\ free \in [Descs -> BOOLEAN] /\ desc \in [Descs -> DescRecord] /\ info \in [Descs -> InfoRecord]
    /\ avail \in Rings /\ used \in Rings /\ used_idx \in Indices /\ fetched \in Indices
    /\ inflight \in SUBSET Descs /\ media \in [Sectors -> Values]
    /\ buf \in [Bufs -> BufRecord] /\ req \in [Procs -> ReqRecord] /\ pc \in [Procs -> Labels]
    /\ irq \in {"off", "on"} /\ served \in [Procs -> Nat]

\* A request has its buffer locked and its sector to itself; what is to be
\* written stays in the buffer.
RequestInv ==
    /\ \A p \in Procs : pc[p] # "idle" =>
          /\ req[p].b \in Bufs /\ req[p].sector \in Sectors /\ buf[req[p].b].lock = p
          /\ req[p].write => req[p].value \in Values /\ buf[req[p].b].data = req[p].value
    /\ \A p, q \in Procs : pc[p] # "idle" /\ pc[q] # "idle" /\ req[p].sector = req[q].sector => p = q

\* The chain of a request, from alloc3_desc to free_chain.
ChainOf(p) ==
    LET r == req[p] IN
    /\ r.i0 # r.i1 /\ r.i0 # r.i2 /\ r.i1 # r.i2
    /\ desc[r.i0].addr = "header" /\ desc[r.i0].write = r.write /\ desc[r.i0].sector = r.sector
    /\ desc[r.i0].more = TRUE /\ desc[r.i0].next = r.i1
    /\ desc[r.i1].addr = "data" /\ desc[r.i1].buf = r.b
    /\ desc[r.i1].more = TRUE /\ desc[r.i1].next = r.i2
    /\ info[r.i0].b = r.b

ChainInv ==
    /\ \A p \in Procs : pc[p] \in Holding => ChainOf(p) /\ \A i \in Owned(p) : ~free[i]
    /\ \A p, q \in Procs : pc[p] \in Holding /\ pc[q] \in Holding /\ p # q => Owned(p) \intersect Owned(q) = {}
    /\ \A i \in Descs : ~free[i] => \E p \in Procs : pc[p] \in Holding /\ i \in Owned(p)

MutexInv ==
    /\ \A p \in Procs : pc[p] \in {"publish", "notify"} => vdisk_lock = p
    /\ irq = "on" => vdisk_lock = "intr"

\* The entries of a ring r between two of its indices.
Dist(a, c) == IF a <= c THEN c - a ELSE c + IdxMod - a
At(r, a, k) == r[(a + k) % NUM]
Between(r, a, c) == {At(r, a, k) : k \in 0 .. (Dist(a, c) - 1)}
NoRepeat(r, a, c) == \A j, k \in 0 .. (Dist(a, c) - 1) : At(r, a, j) = At(r, a, k) => j = k

Submitted == Between(avail.ring, fetched, avail.idx)   \* for the device to fetch
Completed == Between(used.ring, used_idx, used.idx)    \* for the interrupt handler
Heads == {i \in Descs : \E p \in Procs : pc[p] = "sleep_buf" /\ req[p].i0 = i}

\* The first descriptor of a request that sleeps is in at most one of the two
\* rings or with the device, and at most once.
RingInv ==
    /\ NoRepeat(avail.ring, fetched, avail.idx) /\ NoRepeat(used.ring, used_idx, used.idx)
    /\ Submitted \subseteq Heads /\ inflight \subseteq Heads /\ Completed \subseteq Heads
    /\ Submitted \intersect inflight = {} /\ Submitted \intersect Completed = {}
    /\ inflight \intersect Completed = {}
    /\ \A p \in Procs : pc[p] = "notify" => avail.ring[avail.idx % NUM] = req[p].i0
    /\ \A i \in Completed : info[i].status = 0

\* The device has executed the request of p.
Done(p) ==
    /\ served[p] = 1
    /\ media[req[p].sector] = IF req[p].write THEN req[p].value ELSE buf[req[p].b].data

ServedInv ==
    \A p \in Procs :
        /\ pc[p] \in {"alloc", "sleep_free", "publish", "notify"} => served[p] = 0
        /\ pc[p] = "sleep_buf" => IF req[p].i0 \in Completed THEN Done(p) ELSE served[p] = 0
        /\ pc[p] \in {"woken", "return"} => Done(p)
        /\ pc[p] = "woken" => buf[req[p].b].disk = 0

DiskInv == DiskType /\ RequestInv /\ ChainInv /\ MutexInv /\ RingInv /\ ServedInv /\ faulted = FALSE

-----------------------------------------------------------------------------
(* Arithmetic of wrapped indices.                                            *)

\* Quotient and remainder of an index.
LEMMA IndexDivMod ==
    ASSUME NEW a \in Nat, NEW n \in Nat, n > 0
    PROVE  a \div n \in Nat /\ a % n \in 0 .. (n - 1) /\ a = n * (a \div n) + (a % n)
  OBVIOUS

\* The slots of NUM consecutive indices are different.
LEMMA ModDistinct ==
    ASSUME NEW n \in Nat, n > 0, NEW a \in Nat, NEW j \in 0 .. (n - 1), NEW k \in 0 .. (n - 1),
           (a + j) % n = (a + k) % n
    PROVE  j = k
<1>1. PICK q \in Int, r \in 0 .. (n - 1) : a + j = n * q + r /\ r = (a + j) % n
  <2>1. PICK x \in Nat : x = a + j
    OBVIOUS
  <2>2. x \div n \in Nat /\ x % n \in 0 .. (n - 1) /\ x = n * (x \div n) + (x % n)
    BY IndexDivMod
  <2>3. \E q \in Int, r \in 0 .. (n - 1) : x = n * q + r /\ r = x % n
    <3>1. x \div n \in Int
      BY <2>2
    <3> QED
      BY <2>2, <3>1
  <2> QED
    BY <2>1, <2>3
<1>2. PICK p \in Int, t \in 0 .. (n - 1) : a + k = n * p + t /\ t = (a + k) % n
  <2>1. PICK x \in Nat : x = a + k
    OBVIOUS
  <2>2. x \div n \in Nat /\ x % n \in 0 .. (n - 1) /\ x = n * (x \div n) + (x % n)
    BY IndexDivMod
  <2>3. \E p \in Int, t \in 0 .. (n - 1) : x = n * p + t /\ t = x % n
    <3>1. x \div n \in Int
      BY <2>2
    <3> QED
      BY <2>2, <3>1
  <2> QED
    BY <2>1, <2>3
<1>3. j - k = n * (q - p)
  <2>1. n * (q - p) = n * q - n * p
    OBVIOUS
  <2> QED
    BY <1>1, <1>2, <2>1
<1>4. q - p \in Int /\ ~(q - p >= 1) /\ ~(q - p <= -1)
  <2>1. ASSUME NEW d \in Int, d >= 1 PROVE n * d >= n
    BY <2>1
  <2>2. ASSUME NEW d \in Int, d <= -1 PROVE n * d <= -n
    BY <2>2
  <2> QED
    BY <1>3, <2>1, <2>2
<1>5. q - p = 0
  BY <1>4
<1> QED
  BY <1>3, <1>5

\* An index that wraps at a multiple of n keeps its slot.
LEMMA ModWrap ==
    ASSUME NEW n \in Nat, n > 0, NEW m \in Nat, m % n = 0, NEW k \in Nat
    PROVE  (m + k) % n = k % n
<1>1. PICK q \in Nat : m = n * q
  <2>1. m \div n \in Nat /\ m = n * (m \div n) + (m % n)
    BY IndexDivMod
  <2> QED
    BY <2>1
<1>2. PICK p \in Nat, t \in 0 .. (n - 1) : k = n * p + t /\ t = k % n
  <2>1. k \div n \in Nat /\ k % n \in 0 .. (n - 1) /\ k = n * (k \div n) + (k % n)
    BY IndexDivMod
  <2> QED
    BY <2>1
<1>3. m + k = n * (q + p) + t
  <2>1. n * (q + p) = n * q + n * p
    OBVIOUS
  <2> QED
    BY <1>1, <1>2, <2>1
<1>4. ASSUME NEW x \in Nat PROVE (n * x + t) % n = t
  OBVIOUS
<1>5. q + p \in Nat
  OBVIOUS
<1> QED
  BY <1>2, <1>3, <1>4, <1>5

\* A wrapped index plus one.
LEMMA NextIdxIs ==
    ASSUME NEW i \in Indices
    PROVE  NextIdx(i) = (IF i = IdxMod - 1 THEN 0 ELSE i + 1) /\ NextIdx(i) \in Indices
<1>1. IdxMod \in Nat /\ IdxMod > 0 /\ i \in Nat /\ i < IdxMod
  BY IdxAssumption, NumAssumption DEF Indices
<1>2. CASE i = IdxMod - 1
  <2>1. i + 1 = IdxMod /\ IdxMod % IdxMod = 0
    BY <1>1, <1>2
  <2> QED
    BY <1>1, <1>2, <2>1 DEF NextIdx, Indices
<1>3. CASE i # IdxMod - 1
  <2>1. i + 1 < IdxMod /\ i + 1 \in Nat
    BY <1>1, <1>3
  <2>2. (i + 1) % IdxMod = i + 1
    BY <1>1, <2>1
  <2> QED
    BY <1>1, <1>3, <2>1, <2>2 DEF NextIdx, Indices
<1> QED
  BY <1>2, <1>3

\* The slots of an index and of those that follow it.
LEMMA SlotsFrom ==
    ASSUME NEW a \in Indices
    PROVE  /\ \A k \in Nat : (a + k) % NUM \in Descs
           /\ \A k \in Nat : (NextIdx(a) + k) % NUM = (a + (k + 1)) % NUM
           /\ \A c \in Indices : Dist(a, c) \in Nat /\ c % NUM = (a + Dist(a, c)) % NUM
<1>1. /\ NUM \in Nat /\ NUM > 0 /\ IdxMod \in Nat /\ IdxMod > NUM /\ IdxMod % NUM = 0
      /\ a \in Nat /\ a < IdxMod
  BY IdxAssumption, NumAssumption DEF Indices
<1>2. ASSUME NEW x \in Nat PROVE x % NUM \in Descs
  BY <1>1 DEF Descs
<1>3. ASSUME NEW k \in Nat PROVE (NextIdx(a) + k) % NUM = (a + (k + 1)) % NUM
  <2>1. CASE a = IdxMod - 1
    <3>1. NextIdx(a) + k = k /\ a + (k + 1) = IdxMod + k
      BY <1>1, <2>1, NextIdxIs
    <3>2. (IdxMod + k) % NUM = k % NUM
      BY <1>1, ModWrap
    <3> QED
      BY <3>1, <3>2
  <2>2. CASE a # IdxMod - 1
    <3>1. NextIdx(a) + k = a + (k + 1)
      BY <1>1, <2>2, NextIdxIs
    <3> QED
      BY <3>1
  <2> QED
    BY <2>1, <2>2
<1>4. ASSUME NEW c \in Indices PROVE Dist(a, c) \in Nat /\ c % NUM = (a + Dist(a, c)) % NUM
  <2>1. c \in Nat /\ c < IdxMod
    BY <1>1 DEF Indices
  <2>2. CASE a <= c
    <3>1. Dist(a, c) = c - a /\ a + (c - a) = c
      BY <1>1, <2>1, <2>2 DEF Dist
    <3> QED
      BY <1>1, <2>1, <2>2, <3>1
  <2>3. CASE ~(a <= c)
    <3>1. Dist(a, c) = c + IdxMod - a /\ a + (c + IdxMod - a) = IdxMod + c /\ c + IdxMod - a \in Nat
      BY <1>1, <2>1, <2>3 DEF Dist
    <3>2. (IdxMod + c) % NUM = c % NUM
      BY <1>1, <2>1, ModWrap
    <3> QED
      BY <3>1, <3>2
  <2> QED
    BY <2>2, <2>3
<1>5. \A k \in Nat : a + k \in Nat
  BY <1>1
<1> QED
  BY <1>2, <1>3, <1>4, <1>5

-----------------------------------------------------------------------------
(* What happens to the entries of a ring.                                    *)

\* The entry behind the last one may be written.
LEMMA RingWrite ==
    ASSUME NEW r \in [Descs -> Descs], NEW a \in Indices, NEW c \in Indices, NEW x \in Descs,
           Dist(a, c) < NUM,
           NEW s \in [Descs -> Descs], s[c % NUM] = x, \A i \in Descs : i # c % NUM => s[i] = r[i]
    PROVE  /\ Between(s, a, c) = Between(r, a, c)
           /\ NoRepeat(r, a, c) => NoRepeat(s, a, c)
<1> DEFINE D == Dist(a, c)
<1>1. NUM \in Nat /\ NUM > 0 /\ a \in Nat /\ D \in Nat /\ c % NUM = (a + D) % NUM /\ c % NUM \in Descs
      /\ D \in 0 .. (NUM - 1)
  <2>1. D \in Nat /\ c % NUM = (a + D) % NUM
    BY SlotsFrom
  <2>2. (a + D) % NUM \in Descs
    BY <2>1, SlotsFrom
  <2> QED
    BY <2>1, <2>2, NumAssumption DEF Indices
<1> HIDE DEF D
<1>2. ASSUME NEW k \in 0 .. (D - 1) PROVE At(s, a, k) = At(r, a, k)
  <2>1. k \in 0 .. (NUM - 1) /\ k # D /\ k \in Nat
    BY <1>1
  <2>2. (a + k) % NUM # (a + D) % NUM
    BY <1>1, <2>1, ModDistinct
  <2>3. (a + k) % NUM \in Descs
    BY <2>1, SlotsFrom
  <2> QED
    BY <1>1, <2>2, <2>3 DEF At
<1>4. Between(s, a, c) = Between(r, a, c)
  BY <1>2 DEF Between, D
<1>5. NoRepeat(r, a, c) => NoRepeat(s, a, c)
  BY <1>2 DEF NoRepeat, D
<1> QED
  BY <1>4, <1>5

\* Incrementing the second index makes that entry part of the ring.
LEMMA RingPush ==
    ASSUME NEW r \in [Descs -> Descs], NEW a \in Indices, NEW c \in Indices, NEW x \in Descs,
           Dist(a, c) < NUM, r[c % NUM] = x, x \notin Between(r, a, c), NoRepeat(r, a, c)
    PROVE  /\ NextIdx(c) \in Indices
           /\ Between(r, a, NextIdx(c)) = Between(r, a, c) \union {x}
           /\ NoRepeat(r, a, NextIdx(c))
<1> DEFINE D == Dist(a, c)
           e == NextIdx(c)
<1>1. D \in Nat /\ c % NUM = (a + D) % NUM /\ e \in Indices /\ D < NUM
  BY SlotsFrom, NextIdxIs
<1>2. Dist(a, e) = D + 1
  <2>1. e = (IF c = IdxMod - 1 THEN 0 ELSE c + 1)
    BY NextIdxIs
  <2>2. /\ NUM \in Nat /\ IdxMod \in Nat /\ IdxMod > NUM /\ a \in Nat /\ a < IdxMod
        /\ c \in Nat /\ c < IdxMod
    BY NumAssumption, IdxAssumption DEF Indices
  <2>3. CASE a <= c
    BY <1>1, <2>1, <2>2, <2>3 DEF Dist
  <2>4. CASE ~(a <= c)
    BY <1>1, <2>1, <2>2, <2>4 DEF Dist
  <2> QED
    BY <2>3, <2>4
<1>3. At(r, a, D) = x
  BY <1>1 DEF At
<1> HIDE DEF D, e
<1>4. 0 .. (Dist(a, e) - 1) = (0 .. (D - 1)) \union {D}
  BY <1>1, <1>2
<1>5. Between(r, a, e) = Between(r, a, c) \union {x}
  <2>1. Between(r, a, c) = {At(r, a, k) : k \in 0 .. (D - 1)}
    BY DEF Between, D
  <2>2. Between(r, a, e) = {At(r, a, k) : k \in (0 .. (D - 1)) \union {D}}
    BY <1>4 DEF Between
  <2> QED
    BY <1>3, <2>1, <2>2
<1>6. NoRepeat(r, a, e)
  <2>1. ASSUME NEW k \in 0 .. (D - 1) PROVE At(r, a, k) # x
    BY DEF Between, D
  <2>2. \A j, k \in 0 .. (D - 1) : At(r, a, j) = At(r, a, k) => j = k
    BY DEF NoRepeat, D
  <2> QED
    BY <1>3, <1>4, <2>1, <2>2 DEF NoRepeat
<1> QED
  BY <1>1, <1>5, <1>6 DEF e

\* Incrementing the first index takes the first entry out, whatever is left in
\* its slot.
LEMMA RingPop ==
    ASSUME NEW r \in [Descs -> Descs], NEW a \in Indices, NEW c \in Indices, a # c,
           Dist(a, c) < NUM, NoRepeat(r, a, c),
           NEW s \in [Descs -> Descs], \A i \in Descs : i # a % NUM => s[i] = r[i]
    PROVE  /\ NextIdx(a) \in Indices
           /\ r[a % NUM] \in Between(r, a, c)
           /\ Between(s, NextIdx(a), c) = Between(r, a, c) \ {r[a % NUM]}
           /\ NoRepeat(s, NextIdx(a), c)
           /\ s[c % NUM] = r[c % NUM]
<1> DEFINE D == Dist(a, c)
           e == NextIdx(a)
<1>1. /\ D \in Nat /\ c % NUM = (a + D) % NUM /\ e \in Indices /\ D < NUM
      /\ NUM \in Nat /\ NUM >= 3 /\ a \in Nat
  BY SlotsFrom, NextIdxIs, NumAssumption DEF Indices
<1>2. Dist(e, c) = D - 1 /\ D > 0
  <2>1. e = (IF a = IdxMod - 1 THEN 0 ELSE a + 1)
    BY NextIdxIs
  <2>2. IdxMod \in Nat /\ IdxMod > NUM /\ a \in Nat /\ a < IdxMod /\ c \in Nat /\ c < IdxMod
    BY <1>1, IdxAssumption DEF Indices
  <2>3. CASE a <= c
    BY <1>1, <2>1, <2>2, <2>3 DEF Dist
  <2>4. CASE ~(a <= c)
    BY <1>1, <2>1, <2>2, <2>4 DEF Dist
  <2> QED
    BY <2>3, <2>4
<1>3. a % NUM = (a + 0) % NUM /\ a % NUM \in Descs /\ At(r, a, 0) = r[a % NUM]
  <2>1. a + 0 = a
    BY <1>1
  <2>2. (a + 0) % NUM \in Descs
    BY SlotsFrom
  <2> QED
    BY <2>1, <2>2 DEF At
<1>5. ASSUME NEW k \in 1 .. D PROVE s[(a + k) % NUM] = r[(a + k) % NUM]
  <2>1. k \in 0 .. (NUM - 1) /\ 0 \in 0 .. (NUM - 1) /\ k # 0 /\ k \in Nat
    BY <1>1
  <2>2. PICK z \in 0 .. (NUM - 1) : z = 0
    BY <2>1
  <2>3. (a + k) % NUM # (a + z) % NUM
    <3>1. k # z /\ NUM > 0
      BY <1>1, <2>1, <2>2
    <3> QED
      BY <1>1, <2>1, <3>1, ModDistinct
  <2>4. (a + k) % NUM \in Descs
    BY <2>1, SlotsFrom
  <2> QED
    BY <1>3, <2>2, <2>3, <2>4
<1>6. ASSUME NEW k \in 0 .. (D - 2) PROVE At(s, e, k) = At(r, a, k + 1)
  <2>1. k \in Nat /\ k + 1 \in 1 .. D
    BY <1>1
  <2>2. (e + k) % NUM = (a + (k + 1)) % NUM
    BY <2>1, SlotsFrom
  <2> QED
    BY <1>5, <2>1, <2>2 DEF At
<1>7. s[c % NUM] = r[c % NUM]
  <2>1. D \in 1 .. D
    BY <1>1, <1>2
  <2> QED
    BY <1>1, <1>5, <2>1
<1> HIDE DEF D, e
<1>8. /\ Between(r, a, c) = {At(r, a, k) : k \in 0 .. (D - 1)}
      /\ Between(s, e, c) = {At(s, e, k) : k \in 0 .. (D - 2)}
      /\ \A j, k \in 0 .. (D - 1) : At(r, a, j) = At(r, a, k) => j = k
  <2>1. Dist(e, c) - 1 = D - 2
    BY <1>1, <1>2
  <2> QED
    BY <2>1 DEF Between, NoRepeat, D
<1>9. At(r, a, 0) \in Between(r, a, c)
  <2>1. 0 \in 0 .. (D - 1)
    BY <1>1, <1>2
  <2> QED
    BY <1>8, <2>1
<1>10. Between(s, e, c) = Between(r, a, c) \ {At(r, a, 0)}
  <2>1. ASSUME NEW k \in 0 .. (D - 2) PROVE At(s, e, k) \in Between(r, a, c) \ {At(r, a, 0)}
    <3>1. k + 1 \in 0 .. (D - 1) /\ 0 \in 0 .. (D - 1) /\ k + 1 # 0
      BY <1>1, <1>2
    <3> QED
      BY <1>6, <1>8, <3>1
  <2>2. ASSUME NEW k \in 0 .. (D - 1), At(r, a, k) # At(r, a, 0) PROVE At(r, a, k) \in Between(s, e, c)
    <3>1. k # 0
      BY <2>2
    <3>2. k - 1 \in 0 .. (D - 2) /\ (k - 1) + 1 = k
      BY <1>1, <3>1
    <3>3. At(s, e, k - 1) = At(r, a, (k - 1) + 1)
      BY <1>6, <3>2
    <3> QED
      BY <1>8, <3>2, <3>3
  <2>3. ASSUME NEW y \in Between(s, e, c) PROVE y \in Between(r, a, c) \ {At(r, a, 0)}
    BY <1>8, <2>1
  <2>4. ASSUME NEW y \in Between(r, a, c) \ {At(r, a, 0)} PROVE y \in Between(s, e, c)
    BY <1>8, <2>2
  <2> QED
    BY <2>3, <2>4
<1>11. NoRepeat(s, e, c)
  <2>1. ASSUME NEW j \in 0 .. (D - 2), NEW k \in 0 .. (D - 2), At(s, e, j) = At(s, e, k) PROVE j = k
    <3>1. j + 1 \in 0 .. (D - 1) /\ k + 1 \in 0 .. (D - 1)
      BY <1>1
    <3>2. At(r, a, j + 1) = At(r, a, k + 1)
      BY <1>6, <2>1
    <3>3. j + 1 = k + 1
      BY <1>8, <3>1, <3>2
    <3> QED
      BY <3>3
  <2>2. Dist(e, c) - 1 = D - 2
    BY <1>1, <1>2
  <2> QED
    BY <2>1, <2>2 DEF NoRepeat
<1> QED
  BY <1>1, <1>3, <1>7, <1>9, <1>10, <1>11 DEF e

\* A ring without repetitions is shorter than the number of descriptors when
\* one of them cannot be in it.
LEMMA RingShort ==
    ASSUME NEW r \in [Descs -> Descs], NEW a \in Indices, NEW c \in Indices, NoRepeat(r, a, c),
           NEW x \in Descs, x \notin Between(r, a, c)
    PROVE  Dist(a, c) < NUM
<1> DEFINE D == Dist(a, c)
           f == [k \in 1 .. D |-> At(r, a, k - 1)]
<1>1. D \in Nat /\ NUM \in Nat /\ NUM >= 3
  BY SlotsFrom, NumAssumption
<1>2. ASSUME NEW k \in 0 .. (D - 1) PROVE At(r, a, k) \in Descs \ {x}
  <2>1. At(r, a, k) \in Between(r, a, c)
    BY DEF Between
  <2>2. k \in Nat
    BY <1>1
  <2>3. (a + k) % NUM \in Descs
    BY <2>2, SlotsFrom
  <2> QED
    BY <2>1, <2>3 DEF At
<1>3. f \in Injection(1 .. D, Descs \ {x})
  <2>1. ASSUME NEW k \in 1 .. D PROVE k - 1 \in 0 .. (D - 1)
    BY <1>1
  <2>2. ASSUME NEW j \in 1 .. D, NEW k \in 1 .. D, f[j] = f[k] PROVE j = k
    <3>1. j - 1 = k - 1
      BY <2>1, <2>2 DEF NoRepeat
    <3> QED
      BY <1>1, <3>1
  <2>3. f \in [1 .. D -> Descs \ {x}]
    BY <1>2, <2>1
  <2> HIDE DEF f
  <2> QED
    BY <2>2, <2>3 DEF Injection, IsInjective
<1> HIDE DEF f, D
<1>4. IsFiniteSet(Descs) /\ Cardinality(Descs) = NUM
  <2>1. IsFiniteSet(0 .. (NUM - 1)) /\ Cardinality(0 .. (NUM - 1)) = (IF 0 > NUM - 1 THEN 0 ELSE (NUM - 1) - 0 + 1)
    BY <1>1, FS_Interval
  <2> QED
    BY <1>1, <2>1 DEF Descs
<1>5. IsFiniteSet(Descs \ {x}) /\ Cardinality(Descs \ {x}) = NUM - 1
  BY <1>4, FS_RemoveElement
<1>6. Cardinality(1 .. D) <= NUM - 1
  BY <1>3, <1>5, FS_Injection
<1>7. Cardinality(1 .. D) = D
  <2>1. Cardinality(1 .. D) = IF 1 > D THEN 0 ELSE D - 1 + 1
    BY <1>1, FS_Interval
  <2> QED
    BY <1>1, <2>1
<1> QED
  BY <1>1, <1>6, <1>7 DEF D

-----------------------------------------------------------------------------
(* The disk: facts about its state.                                          *)

\* Some descriptor is not the first of a chain.
LEMMA NotAllHeads ==
    ASSUME DiskType, ChainInv, NEW B \in SUBSET Heads
    PROVE  \E x \in Descs : x \notin B
<1>1. CASE B = {}
  <2>1. 0 \in Descs
    BY NumAssumption DEF Descs
  <2> QED
    BY <1>1, <2>1
<1>2. CASE B # {}
  <2>1. PICK p \in Procs : pc[p] = "sleep_buf"
    BY <1>2 DEF Heads
  <2>2. req[p] \in ReqRecord /\ pc[p] \in Holding
    BY <2>1 DEF DiskType, Holding
  <2>3. req[p].i1 \in Descs /\ req[p].i0 # req[p].i1
    BY <2>2 DEF ChainInv, ChainOf, ReqRecord
  <2>4. ASSUME NEW q \in Procs, pc[q] = "sleep_buf" PROVE req[q].i0 # req[p].i1
    <3>1. CASE q = p
      BY <2>3, <3>1
    <3>2. CASE q # p
      <4>1. Owned(q) \intersect Owned(p) = {}
        BY <2>2, <2>4, <3>2 DEF ChainInv, Holding
      <4> QED
        BY <4>1 DEF Owned
    <3> QED
      BY <3>1, <3>2
  <2> QED
    BY <2>3, <2>4 DEF Heads
<1> QED
  BY <1>1, <1>2

\* The fields of the two rings, which never fill up.
LEMMA RingsShort ==
    ASSUME DiskType, ChainInv, RingInv
    PROVE  /\ avail.ring \in [Descs -> Descs] /\ avail.idx \in Indices
           /\ used.ring \in [Descs -> Descs] /\ used.idx \in Indices
           /\ fetched \in Indices /\ used_idx \in Indices
           /\ Dist(fetched, avail.idx) < NUM /\ Dist(used_idx, used.idx) < NUM
<1>1. /\ avail.ring \in [Descs -> Descs] /\ avail.idx \in Indices
      /\ used.ring \in [Descs -> Descs] /\ used.idx \in Indices
      /\ fetched \in Indices /\ used_idx \in Indices
  BY DEF DiskType, Rings
<1>2. PICK x \in Descs : x \notin Between(avail.ring, fetched, avail.idx)
  BY NotAllHeads DEF RingInv, Submitted
<1>3. PICK y \in Descs : y \notin Between(used.ring, used_idx, used.idx)
  BY NotAllHeads DEF RingInv, Completed
<1>4. Dist(fetched, avail.idx) < NUM
  BY <1>1, <1>2, RingShort DEF RingInv
<1>5. Dist(used_idx, used.idx) < NUM
  BY <1>1, <1>3, RingShort DEF RingInv
<1> QED
  BY <1>1, <1>4, <1>5

\* Two requests have different buffers.
LEMMA BuffersApart ==
    ASSUME RequestInv, NEW p \in Procs, NEW q \in Procs, pc[p] # "idle", pc[q] # "idle", req[p].b = req[q].b
    PROVE  p = q
  BY DEF RequestInv

\* Two requests that hold descriptors have different ones.
LEMMA HeadsApart ==
    ASSUME ChainInv, NEW p \in Procs, NEW q \in Procs, pc[p] \in Holding, pc[q] \in Holding,
           req[p].i0 \in Owned(q)
    PROVE  p = q
<1> SUFFICES ASSUME p # q PROVE FALSE
  OBVIOUS
<1>1. Owned(p) \intersect Owned(q) = {}
  BY DEF ChainInv
<1> QED
  BY <1>1 DEF Owned

-----------------------------------------------------------------------------
(* The disk: the initial state, and one lemma for each action.               *)

\* virtio_disk_init leaves the driver in a state of the invariant.
LEMMA DiskInitHolds ==
    ASSUME Init
    PROVE  DiskInv
<1>1. /\ \A i \in Descs : free[i] = TRUE
      /\ \A p \in Procs : pc[p] = "idle"
      /\ avail.idx = 0 /\ used.idx = 0 /\ fetched = 0 /\ used_idx = 0
      /\ inflight = {} /\ irq = "off" /\ faulted = FALSE
  BY DEF Init
<1>2. 0 \in Descs /\ 0 \in Indices
  BY NumAssumption, IdxAssumption DEF Descs, Indices
<1>3. DiskType
  <2>1. NoDesc \in DescRecord /\ NoReq \in ReqRecord
    BY <1>2 DEF NoDesc, NoReq, DescRecord, ReqRecord
  <2>2. free \in [Descs -> BOOLEAN] /\ desc \in [Descs -> DescRecord] /\ req \in [Procs -> ReqRecord]
    BY <2>1 DEF Init
  <2>3. info \in [Descs -> InfoRecord] /\ buf \in [Bufs -> BufRecord]
    BY DEF Init, InfoRecord, BufRecord
  <2>4. avail \in Rings /\ used \in Rings
    BY <1>2 DEF Init, Rings
  <2>5. pc \in [Procs -> Labels] /\ served \in [Procs -> Nat] /\ media \in [Sectors -> Values]
    BY DEF Init, Labels
  <2> QED
    BY <1>1, <1>2, <2>2, <2>3, <2>4, <2>5 DEF DiskType
<1>4. Dist(0, 0) = 0
  BY <1>2 DEF Dist, Indices
<1>5. Submitted = {} /\ Completed = {}
  <2>1. 0 .. (0 - 1) = {}
    OBVIOUS
  <2> QED
    BY <1>1, <1>4, <2>1 DEF Submitted, Completed, Between
<1>6. RingInv
  <2>1. NoRepeat(avail.ring, fetched, avail.idx) /\ NoRepeat(used.ring, used_idx, used.idx)
    BY <1>1, <1>4 DEF NoRepeat
  <2> QED
    BY <1>1, <1>5, <2>1 DEF RingInv
<1>7. RequestInv /\ ChainInv /\ MutexInv /\ ServedInv
  BY <1>1 DEF RequestInv, ChainInv, Holding, MutexInv, ServedInv
<1> QED
  BY <1>1, <1>3, <1>6, <1>7 DEF DiskInv

\* Begin preserves the invariant.
LEMMA BeginStep ==
    ASSUME DiskInv, NEW p \in Procs, Begin(p)
    PROVE  DiskInv'
<1>1. DiskType /\ RequestInv /\ ChainInv /\ MutexInv /\ RingInv /\ ServedInv /\ faulted = FALSE
      /\ None \notin Procs
  BY NoneAssumption DEF DiskInv
<1>2. PICK b \in Bufs, s \in Sectors, w \in BOOLEAN, v \in Values :
        /\ <<b, s>> \in Transfers /\ buf[b].lock = None
        /\ \A q \in Procs : pc[q] # "idle" => req[q].sector # s
        /\ buf' = [buf EXCEPT ![b].lock = p, ![b].data = IF w THEN v ELSE @]
        /\ req' = [req EXCEPT ![p] = [NoReq EXCEPT !.write = w, !.sector = s, !.b = b,
                                                   !.value = IF w THEN v ELSE None]]
  BY DEF Begin
<1>3. /\ pc[p] = "idle" /\ pc'[p] = "alloc" /\ \A q \in Procs : q # p => pc'[q] = pc[q]
      /\ served'[p] = 0 /\ \A q \in Procs : q # p => served'[q] = served[q]
      /\ free' = free /\ desc' = desc /\ info' = info /\ avail' = avail /\ used_idx' = used_idx
      /\ used' = used /\ fetched' = fetched /\ inflight' = inflight /\ media' = media
      /\ vdisk_lock' = vdisk_lock /\ irq' = irq /\ faulted' = faulted
      /\ pc' \in [Procs -> Labels] /\ served' \in [Procs -> Nat]
  BY <1>1 DEF Begin, Goto, driver, device, DiskType, Labels
<1>4. /\ buf'[b].lock = p /\ (w => buf'[b].data = v) /\ \A c \in Bufs : c # b => buf'[c] = buf[c]
      /\ req'[p].b = b /\ req'[p].sector = s /\ req'[p].write = w /\ (w => req'[p].value = v)
      /\ \A q \in Procs : q # p => req'[q] = req[q]
  BY <1>1, <1>2 DEF DiskType, BufRecord, NoReq
<1>5. DiskType'
  <2>1. buf' \in [Bufs -> BufRecord]
    <3>1. buf[b] \in BufRecord
      BY <1>1 DEF DiskType
    <3>2. PICK d \in Values \union {None} : d = IF w THEN v ELSE buf[b].data
      BY <3>1 DEF BufRecord
    <3>3. [buf[b] EXCEPT !.lock = p, !.data = d] \in BufRecord
      BY <3>1 DEF BufRecord
    <3>4. buf' = [buf EXCEPT ![b] = [buf[b] EXCEPT !.lock = p, !.data = d]]
      BY <1>1, <1>2, <3>2 DEF DiskType, BufRecord
    <3> QED
      BY <1>1, <3>3, <3>4 DEF DiskType
  <2>2. 0 \in Descs
    BY NumAssumption DEF Descs
  <2>3. req' \in [Procs -> ReqRecord]
    <3>1. PICK x \in Values \union {None} : x = IF w THEN v ELSE None
      OBVIOUS
    <3>2. [NoReq EXCEPT !.write = w, !.sector = s, !.b = b, !.value = x] \in ReqRecord
      BY <2>2 DEF ReqRecord, NoReq
    <3>3. req' = [req EXCEPT ![p] = [NoReq EXCEPT !.write = w, !.sector = s, !.b = b, !.value = x]]
      BY <1>2, <3>1
    <3> QED
      BY <1>1, <3>2, <3>3 DEF DiskType
  <2> QED
    BY <1>1, <1>3, <2>1, <2>3 DEF DiskType
<1>6. \A q \in Procs : q # p /\ pc[q] # "idle" => req[q].b # b /\ req[q].b \in Bufs
  BY <1>1, <1>2 DEF RequestInv
<1>7. RequestInv'
  <2>1. ASSUME NEW q \in Procs, pc'[q] # "idle"
        PROVE  /\ req'[q].b \in Bufs /\ req'[q].sector \in Sectors /\ buf'[req'[q].b].lock = q
               /\ req'[q].write => req'[q].value \in Values /\ buf'[req'[q].b].data = req'[q].value
    <3>1. CASE q = p
      BY <1>4, <3>1
    <3>2. CASE q # p
      BY <1>1, <1>3, <1>4, <1>6, <2>1, <3>2 DEF RequestInv
    <3> QED
      BY <3>1, <3>2
  <2>2. ASSUME NEW q \in Procs, NEW t \in Procs, pc'[q] # "idle", pc'[t] # "idle", req'[q].sector = req'[t].sector
        PROVE  q = t
    BY <1>1, <1>2, <1>3, <1>4, <2>2 DEF RequestInv
  <2> QED
    BY <2>1, <2>2 DEF RequestInv
<1>8. \A q \in Procs : /\ pc'[q] \in Holding <=> pc[q] \in Holding
                       /\ pc[q] \in Holding => q # p /\ req'[q] = req[q] /\ Owned(q)' = Owned(q)
  BY <1>3, <1>4 DEF Holding, Owned
<1>9. ChainInv'
  BY <1>1, <1>3, <1>8 DEF ChainInv, ChainOf
<1>10. MutexInv'
  BY <1>1, <1>3 DEF MutexInv
<1>11. Submitted' = Submitted /\ Completed' = Completed /\ Heads' = Heads
  BY <1>3, <1>4 DEF Submitted, Completed, Heads
<1>12. RingInv'
  BY <1>1, <1>3, <1>4, <1>11 DEF RingInv
<1>13. ServedInv'
  <2>1. ASSUME NEW q \in Procs, q # p, pc[q] # "idle", Done(q) PROVE Done(q)'
    BY <1>3, <1>4, <1>6, <2>1 DEF Done
  <2> QED
    BY <1>1, <1>3, <1>4, <1>6, <1>11, <2>1 DEF ServedInv
<1> QED
  BY <1>1, <1>3, <1>5, <1>7, <1>9, <1>10, <1>12, <1>13 DEF DiskInv

\* End preserves the invariant.
LEMMA EndStep ==
    ASSUME DiskInv, NEW p \in Procs, End(p)
    PROVE  DiskInv'
<1>1. DiskType /\ RequestInv /\ ChainInv /\ MutexInv /\ RingInv /\ ServedInv /\ faulted = FALSE
  BY DEF DiskInv
<1>2. PICK b \in Bufs : b = req[p].b
  BY <1>1 DEF End, RequestInv
<1>3. /\ pc[p] = "return" /\ pc'[p] = "idle" /\ \A q \in Procs : q # p => pc'[q] = pc[q]
      /\ served'[p] = 0 /\ \A q \in Procs : q # p => served'[q] = served[q]
      /\ free' = free /\ desc' = desc /\ info' = info /\ avail' = avail /\ used_idx' = used_idx
      /\ used' = used /\ fetched' = fetched /\ inflight' = inflight /\ media' = media
      /\ vdisk_lock' = vdisk_lock /\ irq' = irq /\ faulted' = faulted
      /\ pc' \in [Procs -> Labels] /\ served' \in [Procs -> Nat]
  BY <1>1 DEF End, Goto, driver, device, DiskType, Labels
<1>4. /\ \A c \in Bufs : c # b => buf'[c] = buf[c]
      /\ \A q \in Procs : q # p => req'[q] = req[q]
  BY <1>1, <1>2 DEF End, DiskType
<1>5. DiskType'
  <2>1. buf' \in [Bufs -> BufRecord]
    BY <1>1, <1>2 DEF End, DiskType, BufRecord
  <2>2. 0 \in Descs
    BY NumAssumption DEF Descs
  <2>3. req' \in [Procs -> ReqRecord]
    BY <1>1, <2>2 DEF End, DiskType, ReqRecord, NoReq
  <2> QED
    BY <1>1, <1>3, <2>1, <2>3 DEF DiskType
<1>6. \A q \in Procs : q # p /\ pc[q] # "idle" => req[q].b # b /\ req[q].b \in Bufs
  BY <1>1, <1>2, <1>3 DEF RequestInv
<1>7. RequestInv'
  <2>1. ASSUME NEW q \in Procs, pc'[q] # "idle"
        PROVE  /\ req'[q].b \in Bufs /\ req'[q].sector \in Sectors /\ buf'[req'[q].b].lock = q
               /\ req'[q].write => req'[q].value \in Values /\ buf'[req'[q].b].data = req'[q].value
    BY <1>1, <1>3, <1>4, <1>6, <2>1 DEF RequestInv
  <2>2. ASSUME NEW q \in Procs, NEW t \in Procs, pc'[q] # "idle", pc'[t] # "idle", req'[q].sector = req'[t].sector
        PROVE  q = t
    BY <1>1, <1>3, <1>4, <2>2 DEF RequestInv
  <2> QED
    BY <2>1, <2>2 DEF RequestInv
<1>8. \A q \in Procs : /\ pc'[q] \in Holding <=> pc[q] \in Holding
                       /\ pc[q] \in Holding => q # p /\ req'[q] = req[q] /\ Owned(q)' = Owned(q)
  BY <1>3, <1>4 DEF Holding, Owned
<1>9. ChainInv'
  BY <1>1, <1>3, <1>8 DEF ChainInv, ChainOf
<1>10. MutexInv'
  BY <1>1, <1>3 DEF MutexInv
<1>11. Submitted' = Submitted /\ Completed' = Completed /\ Heads' = Heads
  BY <1>3, <1>4 DEF Submitted, Completed, Heads
<1>12. RingInv'
  BY <1>1, <1>3, <1>4, <1>11 DEF RingInv
<1>13. ServedInv'
  <2>1. ASSUME NEW q \in Procs, q # p, pc[q] # "idle", Done(q) PROVE Done(q)'
    BY <1>3, <1>4, <1>6, <2>1 DEF Done
  <2> QED
    BY <1>1, <1>3, <1>4, <1>6, <1>11, <2>1 DEF ServedInv
<1> QED
  BY <1>1, <1>3, <1>5, <1>7, <1>9, <1>10, <1>12, <1>13 DEF DiskInv

\* AllocFails preserves the invariant.
LEMMA AllocFailsStep ==
    ASSUME DiskInv, NEW p \in Procs, AllocFails(p)
    PROVE  DiskInv'
<1>1. DiskType /\ RequestInv /\ ChainInv /\ MutexInv /\ RingInv /\ ServedInv /\ faulted = FALSE
  BY DEF DiskInv
<1>2. /\ free' = free /\ info' = info /\ avail' = avail /\ used_idx' = used_idx
      /\ used' = used /\ fetched' = fetched /\ inflight' = inflight /\ media' = media
      /\ vdisk_lock' = vdisk_lock /\ irq' = irq /\ faulted' = faulted /\ buf' = buf /\ req' = req
      /\ served' = served /\ pc[p] = "alloc" /\ pc'[p] = "sleep_free"
      /\ desc' = [i \in Descs |-> IF free[i] THEN NoDesc ELSE desc[i]]
  BY <1>1 DEF AllocFails, device, DiskType, WakeFree
<1>3. /\ pc' \in [Procs -> Labels]
      /\ \A q \in Procs : pc'[q] = pc[q] \/ (pc[q] \in {"alloc", "sleep_free"} /\ pc'[q] \in {"alloc", "sleep_free"})
  BY <1>1 DEF AllocFails, WakeFree, DiskType, Labels
<1>4. DiskType'
  <2>1. 0 \in Descs
    BY NumAssumption DEF Descs
  <2>2. NoDesc \in DescRecord
    BY <2>1 DEF NoDesc, DescRecord
  <2>3. desc' \in [Descs -> DescRecord]
    BY <1>1, <1>2, <2>2 DEF DiskType
  <2> QED
    BY <1>1, <1>2, <1>3, <2>3 DEF DiskType
<1>5. \A q \in Procs : pc'[q] # "idle" <=> pc[q] # "idle"
  BY <1>3
<1>6. RequestInv'
  BY <1>1, <1>2, <1>5 DEF RequestInv
<1>7. \A q \in Procs : (pc'[q] \in Holding <=> pc[q] \in Holding) /\ Owned(q)' = Owned(q)
  BY <1>2, <1>3 DEF Holding, Owned
<1>8. ChainInv'
  <2>1. ASSUME NEW q \in Procs, pc[q] \in Holding PROVE ChainOf(q)'
    <3>1. ChainOf(q) /\ \A i \in Owned(q) : ~free[i]
      BY <1>1, <2>1 DEF ChainInv
    <3>2. req[q].i0 \in Descs /\ req[q].i1 \in Descs
      BY <1>1 DEF DiskType, ReqRecord
    <3>3. ~free[req[q].i0] /\ ~free[req[q].i1]
      BY <3>1 DEF Owned
    <3>4. desc'[req[q].i0] = desc[req[q].i0] /\ desc'[req[q].i1] = desc[req[q].i1]
      BY <1>2, <3>2, <3>3
    <3> QED
      BY <1>2, <3>1, <3>4 DEF ChainOf
  <2> QED
    BY <1>1, <1>2, <1>7, <2>1 DEF ChainInv
<1>9. MutexInv'
  BY <1>1, <1>2, <1>3 DEF MutexInv
<1>10. Submitted' = Submitted /\ Completed' = Completed /\ Heads' = Heads
  BY <1>2, <1>3 DEF Submitted, Completed, Heads
<1>11. RingInv'
  BY <1>1, <1>2, <1>3, <1>10 DEF RingInv
<1>12. ServedInv'
  <2>1. \A q \in Procs : Done(q)' <=> Done(q)
    BY <1>2 DEF Done
  <2> QED
    BY <1>1, <1>2, <1>3, <1>10, <2>1 DEF ServedInv
<1> QED
  BY <1>1, <1>2, <1>4, <1>6, <1>8, <1>9, <1>11, <1>12 DEF DiskInv

\* The handler taking and releasing the lock preserves the invariant.
LEMMA IntrEnterExitStep ==
    ASSUME DiskInv, IntrEnter \/ IntrExit
    PROVE  DiskInv'
<1>1. DiskType /\ RequestInv /\ ChainInv /\ MutexInv /\ RingInv /\ ServedInv /\ faulted = FALSE
      /\ None \notin Procs /\ "intr" \notin Procs
  BY NoneAssumption DEF DiskInv
<1>2. /\ free' = free /\ desc' = desc /\ info' = info /\ avail' = avail /\ used_idx' = used_idx
      /\ used' = used /\ fetched' = fetched /\ inflight' = inflight /\ media' = media
      /\ faulted' = faulted /\ buf' = buf /\ req' = req /\ served' = served /\ pc' = pc
      /\ irq' \in {"off", "on"}
  BY DEF IntrEnter, IntrExit, driver, device
<1>3. MutexInv'
  BY <1>1, <1>2 DEF MutexInv, IntrEnter, IntrExit
<1>4. DiskType' /\ RequestInv' /\ ChainInv' /\ RingInv' /\ ServedInv'
  BY <1>1, <1>2 DEF DiskType, RequestInv, ChainInv, ChainOf, Owned, RingInv, Submitted, Completed, Heads,
                    ServedInv, Done
<1> QED
  BY <1>1, <1>2, <1>3, <1>4 DEF DiskInv

\* alloc_desc returns the first of the free descriptors.
LEMMA AllocPicks ==
    ASSUME NEW F \in SUBSET Descs, F # {}
    PROVE  alloc_desc(F) \in F
<1>1. F \in SUBSET Nat
  BY NumAssumption DEF Descs
<1>2. PICK d \in F : \A e \in F : ~(<<e, d>> \in OpToRel(<, Nat))
  BY <1>1, NatLessThanWellFounded, WFMin
<1>3. ASSUME NEW e \in F PROVE d <= e
  <2>1. <<e, d>> \notin OpToRel(<, Nat)
    BY <1>2
  <2>2. e \in Nat /\ d \in Nat
    BY <1>1
  <2>3. ~(e < d)
    BY <2>1, <2>2 DEF OpToRel
  <2> QED
    BY <2>2, <2>3
<1> QED
  BY <1>3 DEF alloc_desc

\* alloc3_desc gets three different ones.
LEMMA AllocThree ==
    ASSUME NEW F \in SUBSET Descs, Cardinality(F) >= 3
    PROVE  LET i0 == alloc_desc(F)
               i1 == alloc_desc(F \ {i0})
               i2 == alloc_desc(F \ {i0, i1})
           IN  i0 \in F /\ i1 \in F /\ i2 \in F /\ i0 # i1 /\ i0 # i2 /\ i1 # i2
<1> DEFINE i0 == alloc_desc(F)
           i1 == alloc_desc(F \ {i0})
           i2 == alloc_desc(F \ {i0, i1})
<1>1. IsFiniteSet(F)
  <2>1. IsFiniteSet(0 .. (NUM - 1))
    BY NumAssumption, FS_Interval
  <2> QED
    BY <2>1, FS_Subset DEF Descs
<1>2. Cardinality({}) = 0 /\ Cardinality(F) \in Nat
  BY <1>1, FS_EmptySet, FS_CardinalityType
<1>3. i0 \in F
  <2>1. F # {}
    BY <1>2
  <2> QED
    BY <2>1, AllocPicks
<1> HIDE DEF i0
<1>4. IsFiniteSet(F \ {i0}) /\ Cardinality(F \ {i0}) = Cardinality(F) - 1
  BY <1>1, <1>3, FS_RemoveElement
<1>5. i1 \in F \ {i0}
  <2>1. Cardinality(F \ {i0}) # 0
    BY <1>2, <1>4
  <2>2. F \ {i0} # {}
    BY <1>2, <2>1
  <2> QED
    BY <2>2, AllocPicks
<1> HIDE DEF i1
<1>6. Cardinality((F \ {i0}) \ {i1}) = Cardinality(F \ {i0}) - 1
  BY <1>4, <1>5, FS_RemoveElement
<1>7. (F \ {i0}) \ {i1} = F \ {i0, i1}
  OBVIOUS
<1>8. i2 \in F \ {i0, i1}
  <2>1. F \ {i0, i1} # {}
    BY <1>2, <1>4, <1>6, <1>7
  <2> QED
    BY <2>1, AllocPicks
<1> HIDE DEF i2
<1>9. i0 \in F /\ i1 \in F /\ i2 \in F /\ i0 # i1 /\ i0 # i2 /\ i1 # i2
  BY <1>3, <1>5, <1>8
<1> QED
  BY <1>9 DEF i0, i1, i2

\* alloc3_desc, its formatting of the chain included, preserves the invariant.
LEMMA alloc3_descStep ==
    ASSUME DiskInv, NEW p \in Procs, alloc3_desc(p)
    PROVE  DiskInv'
<1>1. DiskType /\ RequestInv /\ ChainInv /\ MutexInv /\ RingInv /\ ServedInv /\ faulted = FALSE
      /\ None \notin Procs /\ None # "intr"
  BY NoneAssumption DEF DiskInv
<1>2. PICK b \in Bufs : b = req[p].b
  BY <1>1 DEF alloc3_desc, RequestInv
<1>3. PICK i0 \in FreeSet, i1 \in FreeSet, i2 \in FreeSet :
        /\ i0 # i1 /\ i0 # i2 /\ i1 # i2
        /\ i0 = alloc_desc(FreeSet) /\ i1 = alloc_desc(FreeSet \ {i0}) /\ i2 = alloc_desc(FreeSet \ {i0, i1})
  <2>1. FreeSet \in SUBSET Descs /\ Cardinality(FreeSet) >= 3
    BY DEF FreeSet, alloc3_desc
  <2> QED
    BY <2>1, AllocThree
<1>4. i0 \in Descs /\ i1 \in Descs /\ i2 \in Descs /\ free[i0] /\ free[i1] /\ free[i2]
  BY DEF FreeSet
<1>5. /\ pc[p] = "alloc" /\ pc'[p] = "publish" /\ \A q \in Procs : q # p => pc'[q] = pc[q]
      /\ pc' \in [Procs -> Labels]
      /\ avail' = avail /\ used_idx' = used_idx /\ used' = used /\ fetched' = fetched
      /\ inflight' = inflight /\ media' = media /\ irq' = irq /\ faulted' = faulted /\ served' = served
      /\ vdisk_lock = None /\ vdisk_lock' = p
  BY <1>1 DEF alloc3_desc, Goto, device, DiskType, Labels
<1>6. /\ free' = [free EXCEPT ![i0] = FALSE, ![i1] = FALSE, ![i2] = FALSE]
      /\ desc' = [desc EXCEPT
                  ![i0] = Header(p, i1),
                  ![i1] = [addr |-> "data", write |-> ~req[p].write, sector |-> None,
                           buf |-> b, more |-> TRUE, next |-> i2],
                  ![i2] = [addr |-> "status", write |-> TRUE, sector |-> None,
                           buf |-> None, more |-> FALSE, next |-> 0]]
      /\ info' = [info EXCEPT ![i0] = [b |-> b, status |-> 255]]
      /\ buf' = [buf EXCEPT ![b].disk = 1]
      /\ req' = [req EXCEPT ![p].i0 = i0, ![p].i1 = i1, ![p].i2 = i2]
  BY <1>2, <1>3 DEF alloc3_desc
<1>7. DiskType'
  <2>1. 0 \in Descs
    BY NumAssumption DEF Descs
  <2>2. req[p] \in ReqRecord /\ buf[b] \in BufRecord
    BY <1>1 DEF DiskType
  <2>3. Header(p, i1) \in DescRecord
    BY <1>4, <2>2 DEF Header, DescRecord, ReqRecord
  <2>4. [addr |-> "data", write |-> ~req[p].write, sector |-> None,
         buf |-> b, more |-> TRUE, next |-> i2] \in DescRecord
    BY <1>4, <2>2 DEF DescRecord, ReqRecord
  <2>5. [addr |-> "status", write |-> TRUE, sector |-> None,
         buf |-> None, more |-> FALSE, next |-> 0] \in DescRecord
    BY <2>1 DEF DescRecord
  <2>6. desc' \in [Descs -> DescRecord]
    BY <1>1, <1>6, <2>3, <2>4, <2>5 DEF DiskType
  <2>7. free' \in [Descs -> BOOLEAN]
    BY <1>1, <1>6 DEF DiskType
  <2>8. info' \in [Descs -> InfoRecord]
    BY <1>1, <1>6 DEF DiskType, InfoRecord
  <2>9. buf' \in [Bufs -> BufRecord]
    BY <1>1, <1>6, <2>2 DEF DiskType, BufRecord
  <2>10. req' \in [Procs -> ReqRecord]
    BY <1>1, <1>4, <1>6, <2>2 DEF DiskType, ReqRecord
  <2> QED
    BY <1>1, <1>5, <2>6, <2>7, <2>8, <2>9, <2>10 DEF DiskType
<1>8. /\ desc'[i0].addr = "header" /\ desc'[i0].write = req[p].write /\ desc'[i0].sector = req[p].sector
      /\ desc'[i0].more = TRUE /\ desc'[i0].next = i1
      /\ desc'[i1].addr = "data" /\ desc'[i1].buf = b /\ desc'[i1].more = TRUE /\ desc'[i1].next = i2
      /\ \A i \in Descs \ {i0, i1, i2} : desc'[i] = desc[i] /\ free'[i] = free[i]
      /\ free'[i0] = FALSE /\ free'[i1] = FALSE /\ free'[i2] = FALSE
      /\ info'[i0].b = b /\ \A i \in Descs : i # i0 => info'[i] = info[i]
  <2>1. /\ desc'[i0].addr = "header" /\ desc'[i0].write = req[p].write /\ desc'[i0].sector = req[p].sector
        /\ desc'[i0].more = TRUE /\ desc'[i0].next = i1
    BY <1>1, <1>3, <1>4, <1>6 DEF DiskType, Header
  <2>2. desc'[i1].addr = "data" /\ desc'[i1].buf = b /\ desc'[i1].more = TRUE /\ desc'[i1].next = i2
    BY <1>1, <1>3, <1>4, <1>6 DEF DiskType
  <2>3. \A i \in Descs \ {i0, i1, i2} : desc'[i] = desc[i] /\ free'[i] = free[i]
    BY <1>1, <1>3, <1>4, <1>6 DEF DiskType
  <2>4. free'[i0] = FALSE /\ free'[i1] = FALSE /\ free'[i2] = FALSE
    BY <1>1, <1>3, <1>4, <1>6 DEF DiskType
  <2>5. info'[i0].b = b /\ \A i \in Descs : i # i0 => info'[i] = info[i]
    BY <1>1, <1>3, <1>4, <1>6 DEF DiskType
  <2> QED
    BY <2>1, <2>2, <2>3, <2>4, <2>5
<1>9. /\ \A c \in Bufs : /\ buf'[c].data = buf[c].data /\ buf'[c].lock = buf[c].lock
                         /\ c # b => buf'[c].disk = buf[c].disk
      /\ req'[p].i0 = i0 /\ req'[p].i1 = i1 /\ req'[p].i2 = i2 /\ req'[p].b = b
      /\ req'[p].write = req[p].write /\ req'[p].sector = req[p].sector /\ req'[p].value = req[p].value
      /\ \A q \in Procs : q # p => req'[q] = req[q]
  BY <1>1, <1>2, <1>6 DEF DiskType, BufRecord, ReqRecord
<1>10. RequestInv'
  <2>1. ASSUME NEW q \in Procs
        PROVE  /\ req'[q].b = req[q].b /\ req'[q].sector = req[q].sector /\ req'[q].write = req[q].write
               /\ req'[q].value = req[q].value /\ (pc'[q] # "idle" <=> pc[q] # "idle")
    BY <1>2, <1>5, <1>9
  <2> QED
    BY <1>1, <1>9, <2>1 DEF RequestInv
<1>11. /\ pc'[p] \in Holding /\ pc[p] \notin Holding /\ Owned(p)' = {i0, i1, i2}
       /\ \A q \in Procs : q # p => (pc'[q] \in Holding <=> pc[q] \in Holding) /\ Owned(q)' = Owned(q)
       /\ \A q \in Procs : pc[q] \in Holding => Owned(q) \subseteq Descs \ {i0, i1, i2}
  <2>1. ASSUME NEW q \in Procs, pc[q] \in Holding PROVE Owned(q) \subseteq Descs \ {i0, i1, i2}
    <3>1. Owned(q) \subseteq Descs
      BY <1>1 DEF DiskType, ReqRecord, Owned
    <3>2. \A i \in Owned(q) : ~free[i]
      BY <1>1, <2>1 DEF ChainInv
    <3> QED
      BY <1>4, <3>1, <3>2
  <2> QED
    BY <1>5, <1>9, <2>1 DEF Holding, Owned
<1>12. ChainInv'
  <2>1. ChainOf(p)' /\ \A i \in Owned(p)' : ~free'[i]
    BY <1>3, <1>8, <1>9, <1>11 DEF ChainOf
  <2>2. ASSUME NEW q \in Procs, q # p, pc[q] \in Holding PROVE ChainOf(q)' /\ \A i \in Owned(q)' : ~free'[i]
    <3>1. ChainOf(q) /\ \A i \in Owned(q) : ~free[i]
      BY <1>1, <2>2 DEF ChainInv
    <3>2. \A i \in Owned(q) : desc'[i] = desc[i] /\ free'[i] = free[i] /\ info'[i] = info[i]
      BY <1>8, <1>11, <2>2
    <3>3. req[q].i0 \in Owned(q) /\ req[q].i1 \in Owned(q)
      BY DEF Owned
    <3> QED
      BY <1>9, <1>11, <2>2, <3>1, <3>2, <3>3 DEF ChainOf
  <2>3. ASSUME NEW q \in Procs, NEW t \in Procs, pc'[q] \in Holding, pc'[t] \in Holding, q # t
        PROVE  Owned(q)' \intersect Owned(t)' = {}
    <3>1. CASE q = p
      BY <1>11, <2>3, <3>1
    <3>2. CASE t = p
      BY <1>11, <2>3, <3>2
    <3>3. CASE q # p /\ t # p
      BY <1>1, <1>11, <2>3, <3>3 DEF ChainInv
    <3> QED
      BY <3>1, <3>2, <3>3
  <2>4. ASSUME NEW i \in Descs, ~free'[i] PROVE \E q \in Procs : pc'[q] \in Holding /\ i \in Owned(q)'
    <3>1. CASE i \in {i0, i1, i2}
      BY <1>11, <3>1
    <3>2. CASE i \notin {i0, i1, i2}
      <4>1. PICK q \in Procs : pc[q] \in Holding /\ i \in Owned(q)
        BY <1>1, <1>8, <2>4, <3>2 DEF ChainInv
      <4> QED
        BY <1>11, <4>1
    <3> QED
      BY <3>1, <3>2
  <2> QED
    BY <1>11, <2>1, <2>2, <2>3, <2>4 DEF ChainInv
<1>13. MutexInv'
  BY <1>1, <1>5 DEF MutexInv
<1>14. Submitted' = Submitted /\ Completed' = Completed /\ Heads' = Heads
  BY <1>5, <1>9 DEF Submitted, Completed, Heads
<1>15. i0 \notin Heads
  <2>1. ASSUME NEW q \in Procs, pc[q] = "sleep_buf" PROVE req[q].i0 # i0
    <3>1. pc[q] \in Holding /\ req[q].i0 \in Owned(q)
      BY <2>1 DEF Holding, Owned
    <3> QED
      BY <1>11, <3>1
  <2> QED
    BY <2>1 DEF Heads
<1>16. RingInv'
  <2>1. \A i \in Completed : info'[i] = info[i]
    BY <1>1, <1>8, <1>15 DEF RingInv, Heads
  <2> QED
    BY <1>1, <1>5, <1>9, <1>14, <2>1 DEF RingInv
<1>17. ServedInv'
  <2>1. ASSUME NEW q \in Procs, pc[q] # "idle", Done(q) PROVE Done(q)'
    BY <1>1, <1>2, <1>5, <1>9, <2>1 DEF Done, RequestInv
  <2>2. ASSUME NEW q \in Procs, pc[q] = "woken" PROVE buf'[req'[q].b].disk = 0
    <3>1. q # p /\ req[q].b \in Bufs /\ req[q].b # b
      BY <1>1, <1>2, <1>5, <2>2 DEF RequestInv
    <3> QED
      BY <1>1, <1>9, <2>2, <3>1 DEF ServedInv
  <2> QED
    BY <1>1, <1>5, <1>9, <1>14, <2>1, <2>2 DEF ServedInv
<1> QED
  BY <1>1, <1>5, <1>7, <1>10, <1>12, <1>13, <1>16, <1>17 DEF DiskInv

\* Publish preserves the invariant.
LEMMA PublishStep ==
    ASSUME DiskInv, NEW p \in Procs, Publish(p)
    PROVE  DiskInv'
<1>1. DiskType /\ RequestInv /\ ChainInv /\ MutexInv /\ RingInv /\ ServedInv /\ faulted = FALSE
  BY DEF DiskInv
<1>2. /\ free' = free /\ desc' = desc /\ info' = info /\ used_idx' = used_idx /\ used' = used
      /\ fetched' = fetched /\ inflight' = inflight /\ media' = media /\ vdisk_lock' = vdisk_lock
      /\ buf' = buf /\ req' = req /\ irq' = irq /\ faulted' = faulted /\ served' = served
      /\ pc[p] = "publish" /\ pc'[p] = "notify" /\ \A q \in Procs : q # p => pc'[q] = pc[q]
      /\ pc' \in [Procs -> Labels]
  BY <1>1 DEF Publish, Goto, device, DiskType, Labels
<1>3. /\ avail.ring \in [Descs -> Descs] /\ avail.idx \in Indices /\ fetched \in Indices
      /\ Dist(fetched, avail.idx) < NUM /\ req[p].i0 \in Descs
  BY <1>1, RingsShort DEF DiskType, ReqRecord
<1>4. avail'.ring = [avail.ring EXCEPT ![avail.idx % NUM] = req[p].i0] /\ avail'.idx = avail.idx
      /\ avail' = [ring |-> avail'.ring, idx |-> avail'.idx]
  BY <1>1 DEF Publish, DiskType, Rings
<1>5. /\ avail'.ring \in [Descs -> Descs] /\ avail'.ring[avail.idx % NUM] = req[p].i0
      /\ Between(avail'.ring, fetched, avail.idx) = Between(avail.ring, fetched, avail.idx)
      /\ NoRepeat(avail'.ring, fetched, avail.idx)
  <2>1. NoRepeat(avail.ring, fetched, avail.idx)
    BY <1>1 DEF RingInv
  <2>2. avail.idx % NUM \in Descs
    <3>1. avail.idx \in Nat
      BY <1>3, IdxAssumption DEF Indices
    <3> QED
      BY <3>1, NumAssumption DEF Descs
  <2>3. PICK s \in [Descs -> Descs] :
           s = avail'.ring /\ s[avail.idx % NUM] = req[p].i0
           /\ \A i \in Descs : i # avail.idx % NUM => s[i] = avail.ring[i]
    BY <1>3, <1>4, <2>2
  <2>4. Between(s, fetched, avail.idx) = Between(avail.ring, fetched, avail.idx) /\ NoRepeat(s, fetched, avail.idx)
    BY <1>3, <2>1, <2>3, RingWrite
  <2> QED
    BY <2>3, <2>4
<1>6. DiskType'
  <2>1. avail' \in Rings
    BY <1>3, <1>4, <1>5 DEF Rings
  <2> QED
    BY <1>1, <1>2, <2>1 DEF DiskType
<1>7. RequestInv' /\ MutexInv'
  BY <1>1, <1>2 DEF RequestInv, MutexInv
<1>8. ChainInv'
  <2>1. \A q \in Procs : (pc'[q] \in Holding <=> pc[q] \in Holding) /\ Owned(q)' = Owned(q)
    BY <1>2 DEF Holding, Owned
  <2> QED
    BY <1>1, <1>2, <2>1 DEF ChainInv, ChainOf
<1>9. Submitted' = Submitted /\ Completed' = Completed /\ Heads' = Heads
  BY <1>2, <1>4, <1>5 DEF Submitted, Completed, Heads
<1>10. RingInv'
  <2>1. \A q \in Procs : pc'[q] = "notify" => q = p
    BY <1>1, <1>2 DEF MutexInv
  <2> QED
    BY <1>1, <1>2, <1>4, <1>5, <1>9, <2>1 DEF RingInv
<1>11. ServedInv'
  <2>1. \A q \in Procs : Done(q)' <=> Done(q)
    BY <1>2 DEF Done
  <2> QED
    BY <1>1, <1>2, <1>9, <2>1 DEF ServedInv
<1> QED
  BY <1>1, <1>2, <1>6, <1>7, <1>8, <1>10, <1>11 DEF DiskInv

\* Notify preserves the invariant.
LEMMA NotifyStep ==
    ASSUME DiskInv, NEW p \in Procs, Notify(p)
    PROVE  DiskInv'
<1>1. DiskType /\ RequestInv /\ ChainInv /\ MutexInv /\ RingInv /\ ServedInv /\ faulted = FALSE
      /\ "intr" \notin Procs
  BY NoneAssumption DEF DiskInv
<1>2. /\ free' = free /\ desc' = desc /\ info' = info /\ used_idx' = used_idx /\ used' = used
      /\ fetched' = fetched /\ inflight' = inflight /\ media' = media
      /\ buf' = buf /\ req' = req /\ irq' = irq /\ faulted' = faulted /\ served' = served
      /\ pc[p] = "notify" /\ pc'[p] = "sleep_buf" /\ \A q \in Procs : q # p => pc'[q] = pc[q]
      /\ pc' \in [Procs -> Labels]
  BY <1>1 DEF Notify, Goto, device, DiskType, Labels
<1>3. /\ avail.ring \in [Descs -> Descs] /\ avail.idx \in Indices /\ fetched \in Indices
      /\ Dist(fetched, avail.idx) < NUM
  BY <1>1, RingsShort
<1>4. PICK x \in Descs : x = req[p].i0
  BY <1>1 DEF DiskType, ReqRecord
<1>5. avail'.ring = avail.ring /\ avail'.idx = NextIdx(avail.idx) /\ avail' = [ring |-> avail'.ring, idx |-> avail'.idx]
  BY <1>1 DEF Notify, DiskType, Rings
<1>6. x \notin Heads /\ Heads' = Heads \union {x}
  <2>1. ASSUME NEW q \in Procs, pc[q] = "sleep_buf" PROVE req[q].i0 # x
    <3>1. pc[q] \in Holding /\ pc[p] \in Holding /\ q # p
      BY <1>2, <2>1 DEF Holding
    <3> QED
      BY <1>1, <1>4, <3>1, HeadsApart DEF Owned
  <2> QED
    BY <1>2, <1>4, <2>1 DEF Heads
<1>7. x \notin Submitted /\ x \notin inflight /\ x \notin Completed
  BY <1>1, <1>6 DEF RingInv
<1>8. /\ NextIdx(avail.idx) \in Indices
      /\ Between(avail.ring, fetched, NextIdx(avail.idx)) = Between(avail.ring, fetched, avail.idx) \union {x}
      /\ NoRepeat(avail.ring, fetched, NextIdx(avail.idx))
  <2>1. NoRepeat(avail.ring, fetched, avail.idx) /\ avail.ring[avail.idx % NUM] = x
    BY <1>1, <1>2, <1>4 DEF RingInv
  <2>2. x \notin Between(avail.ring, fetched, avail.idx)
    BY <1>7 DEF Submitted
  <2> QED
    BY <1>3, <2>1, <2>2, RingPush
<1>9. DiskType'
  <2>1. avail' \in Rings
    BY <1>3, <1>5, <1>8 DEF Rings
  <2> QED
    BY <1>1, <1>2, <2>1 DEF DiskType
<1>10. RequestInv'
  BY <1>1, <1>2 DEF RequestInv
<1>11. MutexInv'
  <2>1. \A q \in Procs : pc'[q] \notin {"publish", "notify"}
    BY <1>1, <1>2 DEF MutexInv
  <2>2. irq # "on"
    BY <1>1, <1>2 DEF MutexInv
  <2> QED
    BY <1>2, <2>1, <2>2 DEF MutexInv
<1>12. ChainInv'
  <2>1. \A q \in Procs : (pc'[q] \in Holding <=> pc[q] \in Holding) /\ Owned(q)' = Owned(q)
    BY <1>2 DEF Holding, Owned
  <2> QED
    BY <1>1, <1>2, <2>1 DEF ChainInv, ChainOf
<1>13. Submitted' = Submitted \union {x} /\ Completed' = Completed
  BY <1>2, <1>5, <1>8 DEF Submitted, Completed
<1>14. RingInv'
  <2>1. \A q \in Procs : pc'[q] # "notify"
    BY <1>1, <1>2 DEF MutexInv
  <2>2. NoRepeat(avail.ring, fetched, avail.idx)' /\ NoRepeat(used.ring, used_idx, used.idx)'
    BY <1>1, <1>2, <1>5, <1>8 DEF RingInv
  <2>3. Submitted' \subseteq Heads' /\ inflight' \subseteq Heads' /\ Completed' \subseteq Heads'
    BY <1>1, <1>2, <1>6, <1>13 DEF RingInv
  <2>4. /\ Submitted' \intersect inflight' = {} /\ Submitted' \intersect Completed' = {}
        /\ inflight' \intersect Completed' = {}
    BY <1>1, <1>2, <1>7, <1>13 DEF RingInv
  <2> QED
    BY <1>1, <1>2, <1>13, <2>1, <2>2, <2>3, <2>4 DEF RingInv
<1>15. ServedInv'
  <2>1. \A q \in Procs : Done(q)' <=> Done(q)
    BY <1>2 DEF Done
  <2> QED
    BY <1>1, <1>2, <1>4, <1>7, <1>13, <2>1 DEF ServedInv
<1> QED
  BY <1>1, <1>2, <1>9, <1>10, <1>11, <1>12, <1>14, <1>15 DEF DiskInv

\* free_chain preserves the invariant.
LEMMA free_chainStep ==
    ASSUME DiskInv, NEW p \in Procs, free_chain(p)
    PROVE  DiskInv'
<1>1. DiskType /\ RequestInv /\ ChainInv /\ MutexInv /\ RingInv /\ ServedInv /\ faulted = FALSE
  BY DEF DiskInv
<1>2. pc[p] = "woken" /\ pc[p] \in Holding /\ req[p] \in ReqRecord
  BY <1>1 DEF free_chain, Holding, DiskType
<1>3. PICK O \in SUBSET Descs : O = Owned(p)
  BY <1>2 DEF Owned, ReqRecord
<1>4. ChainOf(p) /\ \A i \in O : ~free[i]
  BY <1>1, <1>2, <1>3 DEF ChainInv
<1>5. Chain(req[p].i0) = O
  BY <1>3, <1>4 DEF Chain, ChainOf, Owned
<1>6. PICK x \in O : x = req[p].i0
  BY <1>3 DEF Owned
<1>7. /\ avail' = avail /\ used_idx' = used_idx /\ used' = used
      /\ fetched' = fetched /\ inflight' = inflight /\ media' = media /\ vdisk_lock' = vdisk_lock
      /\ buf' = buf /\ req' = req /\ irq' = irq /\ served' = served
      /\ info' = [info EXCEPT ![x].b = None]
      /\ free' = [i \in Descs |-> free[i] \/ i \in O]
      /\ desc' = [i \in Descs |-> IF i \in O THEN NoDesc ELSE desc[i]]
      /\ pc' = [WakeFree(pc) EXCEPT ![p] = "return"] /\ faulted' = faulted
  BY <1>4, <1>5, <1>6 DEF free_chain, device
<1>8. /\ pc' \in [Procs -> Labels] /\ pc'[p] = "return"
      /\ \A q \in Procs : q # p => pc'[q] = pc[q] \/ (pc[q] = "sleep_free" /\ pc'[q] = "alloc")
  BY <1>1, <1>7 DEF WakeFree, DiskType, Labels
<1>9. /\ \A i \in Descs : info'[i].status = info[i].status /\ (i # x => info'[i].b = info[i].b)
      /\ info' \in [Descs -> InfoRecord]
  BY <1>1, <1>7 DEF DiskType, InfoRecord
<1>10. DiskType'
  <2>1. 0 \in Descs
    BY NumAssumption DEF Descs
  <2>2. NoDesc \in DescRecord
    BY <2>1 DEF NoDesc, DescRecord
  <2>3. desc' \in [Descs -> DescRecord]
    BY <1>1, <1>7, <2>2 DEF DiskType
  <2>4. free' \in [Descs -> BOOLEAN]
    BY <1>1, <1>7 DEF DiskType
  <2> QED
    BY <1>1, <1>7, <1>8, <1>9, <2>3, <2>4 DEF DiskType
<1>11. \A q \in Procs : pc'[q] # "idle" <=> pc[q] # "idle"
  BY <1>2, <1>8
<1>12. RequestInv'
  BY <1>1, <1>7, <1>11 DEF RequestInv
<1>13. \A q \in Procs : /\ q # p => (pc'[q] \in Holding <=> pc[q] \in Holding)
                        /\ pc'[p] \notin Holding /\ Owned(q)' = Owned(q)
                        /\ pc'[q] \in Holding => Owned(q) \subseteq Descs \ O
  <2>1. ASSUME NEW q \in Procs, q # p, pc[q] \in Holding PROVE Owned(q) \subseteq Descs \ O
    <3>1. Owned(q) \subseteq Descs
      BY <1>1 DEF DiskType, ReqRecord, Owned
    <3>2. Owned(q) \intersect O = {}
      BY <1>1, <1>2, <1>3, <2>1 DEF ChainInv
    <3> QED
      BY <3>1, <3>2
  <2>2. pc'[p] \notin Holding /\ \A q \in Procs : Owned(q)' = Owned(q)
    BY <1>7, <1>8 DEF Holding, Owned
  <2>3. \A q \in Procs : q # p => (pc'[q] \in Holding <=> pc[q] \in Holding)
    BY <1>8 DEF Holding
  <2> QED
    BY <2>1, <2>2, <2>3
<1>14. ChainInv'
  <2>1. ASSUME NEW q \in Procs, pc'[q] \in Holding PROVE ChainOf(q)' /\ \A i \in Owned(q)' : ~free'[i]
    <3>1. q # p /\ pc[q] \in Holding /\ Owned(q) \subseteq Descs \ O
      BY <1>13, <2>1
    <3>2. ChainOf(q) /\ \A i \in Owned(q) : ~free[i]
      BY <1>1, <3>1 DEF ChainInv
    <3>3. \A i \in Owned(q) : desc'[i] = desc[i] /\ ~free'[i] /\ info'[i].b = info[i].b
      BY <1>7, <1>9, <3>1, <3>2
    <3>4. req[q].i0 \in Owned(q) /\ req[q].i1 \in Owned(q)
      BY DEF Owned
    <3>5. ChainOf(q)'
      <4>1. /\ desc'[req[q].i0] = desc[req[q].i0] /\ desc'[req[q].i1] = desc[req[q].i1]
            /\ info'[req[q].i0].b = info[req[q].i0].b /\ req' = req
        BY <1>7, <3>3, <3>4
      <4> QED
        BY <3>2, <4>1 DEF ChainOf
    <3>6. \A i \in Owned(q)' : ~free'[i]
      BY <1>13, <3>3
    <3> QED
      BY <3>5, <3>6
  <2>2. ASSUME NEW q \in Procs, NEW t \in Procs, pc'[q] \in Holding, pc'[t] \in Holding, q # t
        PROVE  Owned(q)' \intersect Owned(t)' = {}
    BY <1>1, <1>13, <2>2 DEF ChainInv
  <2>3. ASSUME NEW i \in Descs, ~free'[i] PROVE \E q \in Procs : pc'[q] \in Holding /\ i \in Owned(q)'
    <3>1. ~free[i] /\ i \notin O
      BY <1>7, <2>3
    <3>2. PICK q \in Procs : pc[q] \in Holding /\ i \in Owned(q)
      BY <1>1, <3>1 DEF ChainInv
    <3>3. q # p
      BY <1>3, <3>1, <3>2
    <3> QED
      BY <1>13, <3>2, <3>3
  <2> QED
    BY <2>1, <2>2, <2>3 DEF ChainInv
<1>15. MutexInv'
  BY <1>1, <1>7, <1>8 DEF MutexInv
<1>16. Submitted' = Submitted /\ Completed' = Completed /\ Heads' = Heads
  BY <1>2, <1>7, <1>8 DEF Submitted, Completed, Heads
<1>17. RingInv'
  <2>1. \A i \in Completed : info'[i].status = info[i].status
    BY <1>1, <1>9 DEF RingInv, Heads
  <2> QED
    BY <1>1, <1>7, <1>8, <1>16, <2>1 DEF RingInv
<1>18. ServedInv'
  <2>1. \A q \in Procs : Done(q)' <=> Done(q)
    BY <1>7 DEF Done
  <2> QED
    BY <1>1, <1>2, <1>7, <1>8, <1>16, <2>1 DEF ServedInv
<1> QED
  BY <1>1, <1>7, <1>10, <1>12, <1>14, <1>15, <1>17, <1>18 DEF DiskInv

\* Fetch preserves the invariant.
LEMMA FetchStep ==
    ASSUME DiskInv, Fetch
    PROVE  DiskInv'
<1>1. DiskType /\ RequestInv /\ ChainInv /\ MutexInv /\ RingInv /\ ServedInv /\ faulted = FALSE
  BY DEF DiskInv
<1>2. /\ free' = free /\ desc' = desc /\ info' = info /\ used_idx' = used_idx /\ used' = used
      /\ media' = media /\ vdisk_lock' = vdisk_lock /\ buf' = buf /\ pc' = pc /\ req' = req
      /\ irq' = irq /\ faulted' = faulted /\ served' = served
      /\ fetched # avail.idx /\ fetched' = NextIdx(fetched)
      /\ inflight' = inflight \union {avail.ring[fetched % NUM]}
  BY DEF Fetch
<1>3. /\ avail.ring \in [Descs -> Descs] /\ avail.idx \in Indices /\ fetched \in Indices
      /\ Dist(fetched, avail.idx) < NUM /\ NoRepeat(avail.ring, fetched, avail.idx)
  BY <1>1, RingsShort DEF RingInv
<1>4. fetched % NUM \in Descs /\ 0 \in Descs
  <2>1. fetched \in Nat
    BY <1>3, IdxAssumption DEF Indices
  <2> QED
    BY <2>1, NumAssumption DEF Descs
<1>5. avail'.ring = [avail.ring EXCEPT ![fetched % NUM] = 0] /\ avail'.idx = avail.idx
      /\ avail' = [ring |-> avail'.ring, idx |-> avail'.idx]
  BY <1>1 DEF Fetch, DiskType, Rings
<1>6. PICK x \in Descs : x = avail.ring[fetched % NUM]
  BY <1>3, <1>4
<1>7. /\ NextIdx(fetched) \in Indices /\ avail'.ring \in [Descs -> Descs]
      /\ x \in Submitted /\ Submitted' = Submitted \ {x}
      /\ NoRepeat(avail'.ring, fetched', avail'.idx)
      /\ avail'.ring[avail.idx % NUM] = avail.ring[avail.idx % NUM]
  <2>1. PICK s \in [Descs -> Descs] : s = avail'.ring /\ \A i \in Descs : i # fetched % NUM => s[i] = avail.ring[i]
    BY <1>3, <1>4, <1>5
  <2>2. /\ NextIdx(fetched) \in Indices
        /\ x \in Between(avail.ring, fetched, avail.idx)
        /\ Between(s, NextIdx(fetched), avail.idx) = Between(avail.ring, fetched, avail.idx) \ {x}
        /\ NoRepeat(s, NextIdx(fetched), avail.idx)
        /\ s[avail.idx % NUM] = avail.ring[avail.idx % NUM]
    BY <1>2, <1>3, <1>6, <2>1, RingPop
  <2> QED
    BY <1>2, <1>5, <2>1, <2>2 DEF Submitted
<1>8. DiskType'
  <2>1. avail' \in Rings
    BY <1>3, <1>5, <1>7 DEF Rings
  <2>2. inflight' \in SUBSET Descs
    BY <1>1, <1>2, <1>6 DEF DiskType
  <2> QED
    BY <1>1, <1>2, <1>7, <2>1, <2>2 DEF DiskType
<1>9. RequestInv' /\ ChainInv' /\ MutexInv'
  BY <1>1, <1>2 DEF RequestInv, ChainInv, ChainOf, Owned, MutexInv
<1>10. Completed' = Completed /\ Heads' = Heads
  BY <1>2 DEF Completed, Heads
<1>11. RingInv'
  <2>1. NoRepeat(avail.ring, fetched, avail.idx)' /\ NoRepeat(used.ring, used_idx, used.idx)'
    BY <1>1, <1>2, <1>7 DEF RingInv
  <2>2. Submitted' \subseteq Heads' /\ inflight' \subseteq Heads' /\ Completed' \subseteq Heads'
    BY <1>1, <1>2, <1>6, <1>7, <1>10 DEF RingInv
  <2>3. /\ Submitted' \intersect inflight' = {} /\ Submitted' \intersect Completed' = {}
        /\ inflight' \intersect Completed' = {}
    BY <1>1, <1>2, <1>6, <1>7, <1>10 DEF RingInv
  <2>4. \A p \in Procs : pc'[p] = "notify" => avail'.ring[avail'.idx % NUM] = req'[p].i0
    BY <1>1, <1>2, <1>5, <1>7 DEF RingInv
  <2>5. \A i \in Completed' : info'[i].status = 0
    BY <1>1, <1>2, <1>10 DEF RingInv
  <2> QED
    BY <2>1, <2>2, <2>3, <2>4, <2>5 DEF RingInv
<1>12. ServedInv'
  <2>1. \A q \in Procs : Done(q)' <=> Done(q)
    BY <1>2 DEF Done
  <2> QED
    BY <1>1, <1>2, <1>10, <2>1 DEF ServedInv
<1> QED
  BY <1>1, <1>2, <1>8, <1>9, <1>11, <1>12 DEF DiskInv

\* IntrEntry preserves the invariant.
LEMMA IntrEntryStep ==
    ASSUME DiskInv, IntrEntry
    PROVE  DiskInv'
<1>1. DiskType /\ RequestInv /\ ChainInv /\ MutexInv /\ RingInv /\ ServedInv /\ faulted = FALSE
      /\ None \notin Bufs
  BY NoneAssumption DEF DiskInv
<1>2. /\ used.ring \in [Descs -> Descs] /\ used.idx \in Indices /\ used_idx \in Indices
      /\ Dist(used_idx, used.idx) < NUM /\ NoRepeat(used.ring, used_idx, used.idx) /\ used_idx # used.idx
  BY <1>1, RingsShort DEF RingInv, IntrEntry
<1>3. used_idx % NUM \in Descs /\ 0 \in Descs
  <2>1. used_idx \in Nat
    BY <1>2, IdxAssumption DEF Indices
  <2> QED
    BY <2>1, NumAssumption DEF Descs
<1>4. PICK x \in Descs : x = used.ring[used_idx % NUM]
  BY <1>2, <1>3
<1> DEFINE s == [used.ring EXCEPT ![used_idx % NUM] = 0]
<1>5. /\ NextIdx(used_idx) \in Indices /\ s \in [Descs -> Descs]
      /\ x \in Completed /\ Between(s, NextIdx(used_idx), used.idx) = Completed \ {x}
      /\ NoRepeat(s, NextIdx(used_idx), used.idx)
  <2>1. s \in [Descs -> Descs] /\ \A i \in Descs : i # used_idx % NUM => s[i] = used.ring[i]
    BY <1>2, <1>3
  <2> HIDE DEF s
  <2>2. /\ NextIdx(used_idx) \in Indices
        /\ x \in Between(used.ring, used_idx, used.idx)
        /\ Between(s, NextIdx(used_idx), used.idx) = Between(used.ring, used_idx, used.idx) \ {x}
        /\ NoRepeat(s, NextIdx(used_idx), used.idx)
    BY <1>2, <1>4, <2>1, RingPop
  <2> QED
    BY <2>1, <2>2 DEF Completed
<1> HIDE DEF s
<1>6. PICK p \in Procs : pc[p] = "sleep_buf" /\ req[p].i0 = x
  BY <1>1, <1>5 DEF RingInv, Heads
<1>7. info[x].status = 0
  BY <1>1, <1>5 DEF RingInv
<1>8. PICK b \in Bufs : b = req[p].b /\ b = info[x].b
  BY <1>1, <1>6 DEF RequestInv, ChainInv, ChainOf, Holding
<1>9. /\ free' = free /\ desc' = desc /\ info' = info /\ avail' = avail /\ fetched' = fetched
      /\ inflight' = inflight /\ media' = media /\ vdisk_lock' = vdisk_lock /\ req' = req
      /\ irq' = irq /\ served' = served /\ faulted' = faulted
      /\ buf' = [buf EXCEPT ![b].disk = 0] /\ pc' = WakeBuf(pc, b)
      /\ used' = [used EXCEPT !.ring[used_idx % NUM] = 0] /\ used_idx' = NextIdx(used_idx)
  <2>1. UsedEntry = x /\ info[x].b = b /\ b # None
    BY <1>1, <1>4, <1>8 DEF UsedEntry
  <2> QED
    BY <1>7, <2>1 DEF IntrEntry
<1>10. used'.ring = s /\ used'.idx = used.idx /\ used' = [ring |-> used'.ring, idx |-> used'.idx]
  BY <1>1, <1>9 DEF DiskType, Rings, s
<1>11. /\ pc'[p] = "woken" /\ pc' \in [Procs -> Labels] /\ \A q \in Procs : q # p => pc'[q] = pc[q]
  <2>1. \A q \in Procs : q # p /\ pc[q] = "sleep_buf" => req[q].b # b
    BY <1>1, <1>6, <1>8, BuffersApart
  <2> QED
    BY <1>1, <1>6, <1>8, <1>9, <2>1 DEF WakeBuf, DiskType, Labels
<1>12. \A c \in Bufs : /\ buf'[c].data = buf[c].data /\ buf'[c].lock = buf[c].lock
                       /\ c # b => buf'[c].disk = buf[c].disk
                       /\ c = b => buf'[c].disk = 0
  BY <1>1, <1>9 DEF DiskType, BufRecord
<1>13. DiskType'
  <2>1. used' \in Rings
    BY <1>2, <1>5, <1>10 DEF Rings
  <2>2. buf' \in [Bufs -> BufRecord]
    BY <1>1, <1>9 DEF DiskType, BufRecord
  <2> QED
    BY <1>1, <1>5, <1>9, <1>11, <2>1, <2>2 DEF DiskType
<1>14. RequestInv'
  <2>1. \A q \in Procs : pc'[q] # "idle" <=> pc[q] # "idle"
    BY <1>6, <1>11
  <2> QED
    BY <1>1, <1>9, <1>12, <2>1 DEF RequestInv
<1>15. ChainInv'
  <2>1. \A q \in Procs : (pc'[q] \in Holding <=> pc[q] \in Holding) /\ Owned(q)' = Owned(q)
    BY <1>6, <1>9, <1>11 DEF Holding, Owned
  <2> QED
    BY <1>1, <1>9, <2>1 DEF ChainInv, ChainOf
<1>16. MutexInv'
  BY <1>1, <1>6, <1>9, <1>11 DEF MutexInv
<1>17. Submitted' = Submitted /\ Completed' = Completed \ {x}
  BY <1>5, <1>9, <1>10 DEF Submitted, Completed
<1>18. Heads' = Heads \ {x}
  <2>1. ASSUME NEW q \in Procs, q # p, pc[q] = "sleep_buf" PROVE req[q].i0 # x
    <3>1. pc[q] \in Holding /\ pc[p] \in Holding
      BY <1>6, <2>1 DEF Holding
    <3> QED
      BY <1>1, <1>6, <2>1, <3>1, HeadsApart DEF Owned
  <2> QED
    BY <1>6, <1>9, <1>11, <2>1 DEF Heads
<1>19. RingInv'
  <2>1. NoRepeat(avail.ring, fetched, avail.idx)' /\ NoRepeat(used.ring, used_idx, used.idx)'
    BY <1>1, <1>5, <1>9, <1>10 DEF RingInv
  <2>2. x \notin Submitted /\ x \notin inflight
    BY <1>1, <1>5 DEF RingInv
  <2>3. Submitted' \subseteq Heads' /\ inflight' \subseteq Heads' /\ Completed' \subseteq Heads'
    BY <1>1, <1>9, <1>17, <1>18, <2>2 DEF RingInv
  <2>4. /\ Submitted' \intersect inflight' = {} /\ Submitted' \intersect Completed' = {}
        /\ inflight' \intersect Completed' = {}
    BY <1>1, <1>9, <1>17 DEF RingInv
  <2>5. \A q \in Procs : pc'[q] = "notify" => avail'.ring[avail'.idx % NUM] = req'[q].i0
    BY <1>1, <1>9, <1>11 DEF RingInv
  <2>6. \A i \in Completed' : info'[i].status = 0
    BY <1>1, <1>9, <1>17 DEF RingInv
  <2> QED
    BY <2>1, <2>3, <2>4, <2>5, <2>6 DEF RingInv
<1>20. ServedInv'
  <2>1. ASSUME NEW q \in Procs, pc[q] # "idle" PROVE Done(q)' <=> Done(q)
    BY <1>1, <1>9, <1>12, <2>1 DEF Done, RequestInv
  <2>2. ASSUME NEW q \in Procs, q # p, pc[q] = "sleep_buf" PROVE req[q].i0 \in Completed' <=> req[q].i0 \in Completed
    <3>1. pc[q] \in Holding /\ pc[p] \in Holding
      BY <1>6, <2>2 DEF Holding
    <3>2. req[q].i0 # x
      BY <1>1, <1>6, <2>2, <3>1, HeadsApart DEF Owned
    <3> QED
      BY <1>17, <3>2
  <2>3. Done(p)'
    BY <1>1, <1>5, <1>6, <2>1 DEF ServedInv
  <2>4. ASSUME NEW q \in Procs, pc'[q] = "woken" PROVE buf'[req'[q].b].disk = 0
    <3>1. CASE q = p
      BY <1>8, <1>9, <1>12, <3>1
    <3>2. CASE q # p
      <4>1. pc[q] = "woken" /\ req[q].b \in Bufs /\ buf[req[q].b].disk = 0
        BY <1>1, <1>11, <2>4, <3>2 DEF ServedInv, RequestInv
      <4> QED
        BY <1>9, <1>12, <4>1
    <3> QED
      BY <3>1, <3>2
  <2>5. ASSUME NEW q \in Procs, q # p
        PROVE  /\ pc'[q] \in {"alloc", "sleep_free", "publish", "notify"} => served'[q] = 0
               /\ pc'[q] = "sleep_buf" => IF req'[q].i0 \in Completed' THEN Done(q)' ELSE served'[q] = 0
               /\ pc'[q] \in {"woken", "return"} => Done(q)'
    BY <1>1, <1>9, <1>11, <2>1, <2>2, <2>5 DEF ServedInv
  <2> QED
    BY <1>11, <2>3, <2>4, <2>5 DEF ServedInv
<1> QED
  BY <1>1, <1>9, <1>13, <1>14, <1>15, <1>16, <1>19, <1>20 DEF DiskInv

\* Execute preserves the invariant.
LEMMA ExecuteStep ==
    ASSUME DiskInv, Execute
    PROVE  DiskInv'
<1>1. DiskType /\ RequestInv /\ ChainInv /\ MutexInv /\ RingInv /\ ServedInv /\ faulted = FALSE
  BY DEF DiskInv
<1>2. PICK i \in inflight :
        LET j == desc[i].next
            b == desc[j].buf
            s == desc[i].sector
        IN  IF desc[i].addr # "header" \/ desc[j].addr # "data"
            THEN /\ faulted' = TRUE
                 /\ UNCHANGED <<buf, media, info, used, pending, inflight, served>>
            ELSE /\ media' = IF desc[i].write THEN [media EXCEPT ![s] = buf[b].data] ELSE media
                 /\ buf' = IF desc[i].write THEN buf ELSE [buf EXCEPT ![b].data = media[s]]
                 /\ info' = [info EXCEPT ![i].status = 0]
                 /\ used' = [ring |-> [used.ring EXCEPT ![used.idx % NUM] = i],
                             idx |-> NextIdx(used.idx)]
                 /\ pending' = TRUE
                 /\ inflight' = inflight \ {i}
                 /\ served' = [q \in Procs |-> IF buf[b].lock = q THEN served[q] + 1 ELSE served[q]]
                 /\ UNCHANGED faulted
  BY DEF Execute
<1>3. PICK p \in Procs : pc[p] = "sleep_buf" /\ req[p].i0 = i /\ i \in Descs
  BY <1>1 DEF RingInv, Heads
<1>4. pc[p] \in Holding /\ ChainOf(p)
  BY <1>1, <1>3 DEF ChainInv, Holding
<1>5. PICK b \in Bufs, s \in Sectors : b = req[p].b /\ s = req[p].sector
  BY <1>1, <1>3 DEF RequestInv
<1>6. /\ desc[i].addr = "header" /\ desc[desc[i].next].addr = "data" /\ desc[desc[i].next].buf = b
      /\ desc[i].sector = s /\ desc[i].write = req[p].write /\ req[p].write \in BOOLEAN
  BY <1>1, <1>3, <1>4, <1>5 DEF ChainOf, DiskType, ReqRecord
<1>7. /\ media' = IF req[p].write THEN [media EXCEPT ![s] = buf[b].data] ELSE media
      /\ buf' = IF req[p].write THEN buf ELSE [buf EXCEPT ![b].data = media[s]]
      /\ info' = [info EXCEPT ![i].status = 0]
      /\ used' = [ring |-> [used.ring EXCEPT ![used.idx % NUM] = i], idx |-> NextIdx(used.idx)]
      /\ inflight' = inflight \ {i}
      /\ served' = [q \in Procs |-> IF buf[b].lock = q THEN served[q] + 1 ELSE served[q]]
      /\ faulted' = faulted
  BY <1>2, <1>6
<1>8. /\ free' = free /\ desc' = desc /\ avail' = avail /\ used_idx' = used_idx /\ fetched' = fetched
      /\ vdisk_lock' = vdisk_lock /\ pc' = pc /\ req' = req /\ irq' = irq
  BY DEF Execute
<1>9. /\ buf[b].lock = p /\ (req[p].write => req[p].value \in Values /\ buf[b].data = req[p].value)
      /\ media[s] \in Values /\ \A q \in Procs : q # p /\ pc[q] # "idle" => req[q].b # b /\ req[q].sector # s
  BY <1>1, <1>3, <1>5 DEF RequestInv, DiskType
<1>10. served[p] = 0 /\ i \notin Completed
  BY <1>1, <1>3 DEF ServedInv, RingInv
<1>11. /\ served'[p] = 1 /\ \A q \in Procs : q # p => served'[q] = served[q]
       /\ served' \in [Procs -> Nat]
  BY <1>1, <1>7, <1>9, <1>10 DEF DiskType
<1>12. /\ \A c \in Bufs : /\ buf'[c].lock = buf[c].lock /\ buf'[c].disk = buf[c].disk
                          /\ c # b => buf'[c].data = buf[c].data
       /\ buf'[b].data = IF req[p].write THEN buf[b].data ELSE media[s]
       /\ buf' \in [Bufs -> BufRecord]
  <2>1. CASE req[p].write
    BY <1>1, <1>7, <2>1 DEF DiskType
  <2>2. CASE ~req[p].write
    BY <1>1, <1>7, <1>9, <2>2 DEF DiskType, BufRecord
  <2> QED
    BY <2>1, <2>2
<1>13. /\ media' \in [Sectors -> Values] /\ \A t \in Sectors : t # s => media'[t] = media[t]
       /\ media'[s] = IF req[p].write THEN req[p].value ELSE media[s]
  BY <1>1, <1>7, <1>9 DEF DiskType
<1>14. /\ \A k \in Descs : info'[k].b = info[k].b /\ (k # i => info'[k].status = info[k].status)
       /\ info'[i].status = 0 /\ info' \in [Descs -> InfoRecord]
  BY <1>1, <1>3, <1>7 DEF DiskType, InfoRecord
<1>15. /\ used'.ring \in [Descs -> Descs] /\ used'.idx \in Indices
       /\ Completed' = Completed \union {i} /\ NoRepeat(used'.ring, used_idx, used'.idx)
  <2>1. /\ used.ring \in [Descs -> Descs] /\ used.idx \in Indices /\ used_idx \in Indices
        /\ Dist(used_idx, used.idx) < NUM /\ NoRepeat(used.ring, used_idx, used.idx)
    BY <1>1, RingsShort DEF RingInv
  <2>2. used.idx % NUM \in Descs
    <3>1. used.idx \in Nat
      BY <2>1, IdxAssumption DEF Indices
    <3> QED
      BY <3>1, NumAssumption DEF Descs
  <2>3. used'.ring = [used.ring EXCEPT ![used.idx % NUM] = i] /\ used'.idx = NextIdx(used.idx)
    BY <1>7
  <2>4. PICK r \in [Descs -> Descs] : /\ r = used'.ring /\ r[used.idx % NUM] = i
                                      /\ \A k \in Descs : k # used.idx % NUM => r[k] = used.ring[k]
    BY <1>3, <2>1, <2>2, <2>3
  <2>5. Between(r, used_idx, used.idx) = Completed /\ NoRepeat(r, used_idx, used.idx)
    BY <1>3, <2>1, <2>4, RingWrite DEF Completed
  <2>6. /\ NextIdx(used.idx) \in Indices
        /\ Between(r, used_idx, NextIdx(used.idx)) = Between(r, used_idx, used.idx) \union {i}
        /\ NoRepeat(r, used_idx, NextIdx(used.idx))
    BY <1>3, <1>10, <2>1, <2>4, <2>5, RingPush
  <2> QED
    BY <1>8, <2>3, <2>4, <2>5, <2>6 DEF Completed
<1>16. DiskType'
  <2>1. used' \in Rings
    BY <1>7, <1>15 DEF Rings
  <2>2. inflight' \in SUBSET Descs
    BY <1>1, <1>7 DEF DiskType
  <2> QED
    BY <1>1, <1>8, <1>11, <1>12, <1>13, <1>14, <2>1, <2>2 DEF DiskType
<1>17. RequestInv'
  <2>1. ASSUME NEW q \in Procs, pc[q] # "idle"
        PROVE  /\ req[q].b \in Bufs /\ req[q].sector \in Sectors /\ buf'[req[q].b].lock = q
               /\ req[q].write => req[q].value \in Values /\ buf'[req[q].b].data = req[q].value
    <3>1. /\ req[q].b \in Bufs /\ req[q].sector \in Sectors /\ buf[req[q].b].lock = q
          /\ req[q].write => req[q].value \in Values /\ buf[req[q].b].data = req[q].value
      BY <1>1, <2>1 DEF RequestInv
    <3>2. CASE q = p
      BY <1>5, <1>9, <1>12, <3>1, <3>2
    <3>3. CASE q # p
      BY <1>9, <1>12, <2>1, <3>1, <3>3
    <3> QED
      BY <3>2, <3>3
  <2> QED
    BY <1>1, <1>8, <2>1 DEF RequestInv
<1>18. ChainInv'
  <2>1. \A q \in Procs : Owned(q)' = Owned(q)
    BY <1>8 DEF Owned
  <2>2. ASSUME NEW q \in Procs, ChainOf(q) PROVE ChainOf(q)'
    <3>1. req[q].i0 \in Descs
      BY <1>1 DEF DiskType, ReqRecord
    <3> QED
      BY <1>8, <1>14, <2>2, <3>1 DEF ChainOf
  <2> QED
    BY <1>1, <1>8, <2>1, <2>2 DEF ChainInv
<1>19. MutexInv'
  BY <1>1, <1>8 DEF MutexInv
<1>20. Submitted' = Submitted /\ Heads' = Heads
  BY <1>8 DEF Submitted, Heads
<1>21. RingInv'
  <2>1. NoRepeat(avail.ring, fetched, avail.idx)' /\ NoRepeat(used.ring, used_idx, used.idx)'
    BY <1>1, <1>8, <1>15 DEF RingInv
  <2>2. i \in Heads /\ i \notin Submitted
    BY <1>1 DEF RingInv
  <2>3. Submitted' \subseteq Heads' /\ inflight' \subseteq Heads' /\ Completed' \subseteq Heads'
    BY <1>1, <1>7, <1>15, <1>20, <2>2 DEF RingInv
  <2>4. /\ Submitted' \intersect inflight' = {} /\ Submitted' \intersect Completed' = {}
        /\ inflight' \intersect Completed' = {}
    BY <1>1, <1>7, <1>15, <1>20, <2>2 DEF RingInv
  <2>5. \A q \in Procs : pc'[q] = "notify" => avail'.ring[avail'.idx % NUM] = req'[q].i0
    BY <1>1, <1>8 DEF RingInv
  <2>6. \A k \in Completed' : info'[k].status = 0
    BY <1>1, <1>14, <1>15 DEF RingInv, Heads
  <2> QED
    BY <2>1, <2>3, <2>4, <2>5, <2>6 DEF RingInv
<1>22. ServedInv'
  <2>1. Done(p)'
    BY <1>5, <1>8, <1>9, <1>11, <1>12, <1>13 DEF Done
  <2>2. ASSUME NEW q \in Procs, q # p, pc[q] # "idle" PROVE Done(q)' <=> Done(q)
    <3>1. req[q].b \in Bufs /\ req[q].sector \in Sectors /\ req[q].b # b /\ req[q].sector # s
      BY <1>1, <1>9, <2>2 DEF RequestInv
    <3> QED
      BY <1>8, <1>11, <1>12, <1>13, <2>2, <3>1 DEF Done
  <2>3. ASSUME NEW q \in Procs, q # p, pc[q] = "sleep_buf" PROVE req[q].i0 \in Completed' <=> req[q].i0 \in Completed
    <3>1. pc[q] \in Holding
      BY <2>3 DEF Holding
    <3>2. req[q].i0 # i
      BY <1>1, <1>3, <1>4, <2>3, <3>1, HeadsApart DEF Owned
    <3> QED
      BY <1>15, <3>2
  <2>4. ASSUME NEW q \in Procs, q # p
        PROVE  /\ pc'[q] \in {"alloc", "sleep_free", "publish", "notify"} => served'[q] = 0
               /\ pc'[q] = "sleep_buf" => IF req'[q].i0 \in Completed' THEN Done(q)' ELSE served'[q] = 0
               /\ pc'[q] \in {"woken", "return"} => Done(q)'
    BY <1>1, <1>8, <1>11, <2>2, <2>3, <2>4 DEF ServedInv
  <2>5. ASSUME NEW q \in Procs, pc'[q] = "woken" PROVE buf'[req'[q].b].disk = 0
    BY <1>1, <1>8, <1>12, <2>5 DEF ServedInv, RequestInv
  <2>6. pc'[p] = "sleep_buf" /\ req'[p].i0 \in Completed'
    BY <1>3, <1>8, <1>15
  <2> QED
    BY <2>1, <2>4, <2>5, <2>6 DEF ServedInv
<1> QED
  BY <1>1, <1>7, <1>8, <1>16, <1>17, <1>18, <1>19, <1>21, <1>22 DEF DiskInv

-----------------------------------------------------------------------------
(* The disk: the theorems.                                                   *)

\* Every step of the driver and the device preserves the invariant.
LEMMA DiskNextKeeps == DiskInv /\ [Next]_vars => DiskInv'
<1> SUFFICES ASSUME DiskInv, [Next]_vars PROVE DiskInv'
  OBVIOUS
<1>1. CASE UNCHANGED vars
  BY <1>1 DEF vars, driver, device, DiskInv, DiskType, RequestInv, ChainInv, ChainOf, Owned, MutexInv,
              RingInv, Submitted, Completed, Heads, ServedInv, Done
<1>2. ASSUME NEW p \in Procs, Begin(p) \/ Run(p) PROVE DiskInv'
  BY <1>2, BeginStep, EndStep, AllocFailsStep, alloc3_descStep, PublishStep, NotifyStep, free_chainStep
     DEF Run, virtio_disk_rw
<1>3. CASE virtio_disk_intr
  BY <1>3, IntrEnterExitStep, IntrEntryStep DEF virtio_disk_intr
<1>4. CASE Device
  BY <1>4, FetchStep, ExecuteStep DEF Device
<1> QED
  BY <1>1, <1>2, <1>3, <1>4 DEF Next

\* DiskInv is an invariant of the driver, the device and the interrupt handler.
THEOREM DiskInvariant == Spec => []DiskInv
<1>1. Init => DiskInv
  BY DiskInitHolds
<1> QED
  BY <1>1, DiskNextKeeps, PTL DEF Spec

\* virtio_disk_rw and virtio_disk_intr never panic and never follow a stale
\* chain, and the descriptors in use are exactly those of the requests.
THEOREM DescriptorsNeverLost == Spec => []DescriptorsAccounted
<1>1. DiskInv => DescriptorsAccounted
  <2> SUFFICES ASSUME DiskInv PROVE DescriptorsAccounted
    OBVIOUS
  <2>1. DiskType /\ ChainInv /\ faulted = FALSE
    BY DEF DiskInv
  <2>2. ASSUME NEW p \in Procs PROVE Owned(p) \subseteq Descs
    BY <2>1 DEF DiskType, ReqRecord, Owned
  <2>3. {i \in Descs : ~free[i]} = UNION {Owned(p) : p \in {q \in Procs : pc[q] \in Holding}}
    BY <2>1, <2>2 DEF ChainInv
  <2> QED
    BY <2>1, <2>3 DEF DescriptorsAccounted, ChainInv
<1> QED
  BY <1>1, DiskInvariant, PTL

\* What virtio_disk_rw returns has been executed once, with its data in place.
THEOREM TransferredOnce == Spec => []Transferred
<1>1. DiskInv => Transferred
  BY DEF DiskInv, ServedInv, Done, Transferred
<1> QED
  BY <1>1, DiskInvariant, PTL

\* Without kill, sleep in virtio_disk_rw returns only for a finished request.
THEOREM WokenWhenFinished == Spec => []WokenFinished
<1>1. DiskInv => WokenFinished
  BY DEF DiskInv, ServedInv, WokenFinished
<1> QED
  BY <1>1, DiskInvariant, PTL

-----------------------------------------------------------------------------
(* The pipe: the inductive invariant.                                        *)

PipeIndices == 0 .. (PipeMod - 1)
PipeSlots == 0 .. (PIPESIZE - 1)
PipeLabels == {"user", "read", "read_wait", "read_sleep", "copy", "write", "write_wait", "write_sleep",
               "close_r", "close_w"}

PipeType ==
    /\ data \in [PipeSlots -> Bytes] /\ taken \in Bytes
    /\ nread \in PipeIndices /\ nwrite \in PipeIndices
    /\ readopen \in BOOLEAN /\ writeopen \in BOOLEAN
    /\ plock \in PipeProcs \union {NoProc}
    /\ end \in [PipeProcs -> {"r", "w", "none"}] /\ ppc \in [PipeProcs -> PipeLabels]
    /\ left \in [PipeProcs -> Nat] /\ pkilled \in [PipeProcs -> BOOLEAN]
    /\ silent \in BOOLEAN

\* The ring holds at most PIPESIZE bytes.
InPipe == (nwrite + PipeMod - nread) % PipeMod

\* A process is in a call of the end it has open, and an end that nobody has
\* open is closed in the pipe or by exactly one process.
EndInv ==
    /\ \A p \in PipeProcs :
          /\ ppc[p] \in {"read", "read_wait", "read_sleep", "copy"} => end[p] = "r"
          /\ ppc[p] \in {"write", "write_wait", "write_sleep"} => end[p] = "w"
          /\ ppc[p] \in {"close_r", "close_w"} => end[p] = "none"
    /\ readopen <=> \E p \in PipeProcs : end[p] = "r" \/ ppc[p] = "close_r"
    /\ writeopen <=> \E p \in PipeProcs : end[p] = "w" \/ ppc[p] = "close_w"
    /\ \A p, q \in PipeProcs : ppc[p] = "close_r" => end[q] # "r" /\ (ppc[q] = "close_r" => p = q)
    /\ \A p, q \in PipeProcs : ppc[p] = "close_w" => end[q] # "w" /\ (ppc[q] = "close_w" => p = q)
    /\ freed = IF readopen \/ writeopen THEN 0 ELSE 1

\* The lock is held between the rounds of a loop and on the way to sleep only.
LockInv ==
    /\ plock # NoProc => ppc[plock] \in {"write", "copy", "read_wait", "write_wait"}
    /\ \A p \in PipeProcs : ppc[p] \in {"copy", "read_wait", "write_wait"} => plock = p

\* What a sleeper waits for has not happened, or whoever made it happen still
\* holds the lock and will wake the sleepers, or was killed.
SleepInv ==
    \A p \in PipeProcs :
        /\ ppc[p] = "read_wait" => writeopen /\ Empty
        /\ ppc[p] = "write_wait" => readopen /\ Full
        /\ ppc[p] = "read_sleep" =>
              /\ writeopen
              /\ Empty \/ silent \/ (plock # NoProc /\ ppc[plock] = "write")
        /\ ppc[p] = "write_sleep" =>
              /\ readopen
              /\ Full \/ (plock # NoProc /\ ppc[plock] = "copy")

PipeInv == PipeType /\ InPipe <= PIPESIZE /\ EndInv /\ LockInv /\ SleepInv

-----------------------------------------------------------------------------
(* A ring of n bytes whose indices count modulo a multiple m of n.           *)

Gap(m, a, c) == (c + m - a) % m
Succ(m, a) == (a + 1) % m
Content(d, n, a, k) == [i \in 1 .. k |-> d[(a + i - 1) % n]]
Appended(t, s, x) == t = Append(s, x)
FirstTaken(t, s, x) == s # <<>> /\ x = Head(s) /\ t = Tail(s)

\* How far apart two indices are.
LEMMA GapIs ==
    ASSUME NEW m \in Nat, NEW a \in 0 .. (m - 1), NEW c \in 0 .. (m - 1)
    PROVE  Gap(m, a, c) = (IF a <= c THEN c - a ELSE c + m - a) /\ Gap(m, a, c) \in 0 .. (m - 1)
<1>1. m > 0 /\ a \in Nat /\ c \in Nat /\ a < m /\ c < m
  OBVIOUS
<1>2. CASE a <= c
  <2>1. PICK d \in 0 .. (m - 1) : d = c - a
    BY <1>1, <1>2
  <2>2. c + m - a = m * 1 + d
    BY <1>1, <2>1
  <2>3. (m * 1 + d) % m = d
    BY <1>1, <2>1
  <2> QED
    BY <1>2, <2>1, <2>2, <2>3 DEF Gap
<1>3. CASE ~(a <= c)
  <2>1. c + m - a \in 0 .. (m - 1)
    BY <1>1, <1>3
  <2>2. (c + m - a) % m = c + m - a
    BY <1>1, <2>1
  <2> QED
    BY <1>3, <2>1, <2>2 DEF Gap
<1> QED
  BY <1>2, <1>3

\* The next index.
LEMMA SuccIs ==
    ASSUME NEW m \in Nat, NEW a \in 0 .. (m - 1)
    PROVE  Succ(m, a) = (IF a = m - 1 THEN 0 ELSE a + 1) /\ Succ(m, a) \in 0 .. (m - 1)
<1>1. m > 0 /\ a \in Nat /\ a < m
  OBVIOUS
<1>2. CASE a = m - 1
  <2>1. a + 1 = m /\ m % m = 0
    BY <1>1, <1>2
  <2> QED
    BY <1>1, <1>2, <2>1 DEF Succ
<1>3. CASE a # m - 1
  <2>1. a + 1 < m /\ a + 1 \in Nat
    BY <1>1, <1>3
  <2>2. (a + 1) % m = a + 1
    BY <1>1, <2>1
  <2> QED
    BY <1>1, <1>3, <2>1, <2>2 DEF Succ
<1> QED
  BY <1>2, <1>3

\* Moving one of the indices on.
LEMMA GapMoves ==
    ASSUME NEW m \in Nat, NEW a \in 0 .. (m - 1), NEW c \in 0 .. (m - 1)
    PROVE  /\ Gap(m, a, c) = 0 <=> a = c
           /\ Gap(m, a, c) + 1 < m => Gap(m, a, Succ(m, c)) = Gap(m, a, c) + 1
           /\ a # c => Gap(m, Succ(m, a), c) = Gap(m, a, c) - 1
<1>1. Gap(m, a, c) = IF a <= c THEN c - a ELSE c + m - a
  BY GapIs
<1>2. Succ(m, a) = (IF a = m - 1 THEN 0 ELSE a + 1) /\ Succ(m, a) \in 0 .. (m - 1)
  BY SuccIs
<1>3. Succ(m, c) = (IF c = m - 1 THEN 0 ELSE c + 1) /\ Succ(m, c) \in 0 .. (m - 1)
  BY SuccIs
<1>4. Gap(m, a, Succ(m, c)) = IF a <= Succ(m, c) THEN Succ(m, c) - a ELSE Succ(m, c) + m - a
  BY <1>3, GapIs
<1>5. Gap(m, Succ(m, a), c) = IF Succ(m, a) <= c THEN c - Succ(m, a) ELSE c + m - Succ(m, a)
  BY <1>2, GapIs
<1>6. Gap(m, a, c) = 0 <=> a = c
  BY <1>1
<1>7. Gap(m, a, c) + 1 < m => Gap(m, a, Succ(m, c)) = Gap(m, a, c) + 1
  BY <1>1, <1>3, <1>4
<1>8. a # c => Gap(m, Succ(m, a), c) = Gap(m, a, c) - 1
  BY <1>1, <1>2, <1>5
<1> QED
  BY <1>6, <1>7, <1>8

\* The test for a full ring.
LEMMA FullGap ==
    ASSUME NEW m \in Nat, NEW n \in Nat, n < m, NEW a \in 0 .. (m - 1), NEW c \in 0 .. (m - 1)
    PROVE  c = (a + n) % m <=> Gap(m, a, c) = n
<1>1. Gap(m, a, c) = IF a <= c THEN c - a ELSE c + m - a
  BY GapIs
<1>2. (a + n) % m = IF a + n < m THEN a + n ELSE a + n - m
  <2>1. CASE a + n < m
    BY <2>1
  <2>2. CASE ~(a + n < m)
    <3>1. PICK d \in 0 .. (m - 1) : d = a + n - m
      BY <2>2
    <3>2. a + n = m * 1 + d
      BY <3>1
    <3>3. (m * 1 + d) % m = d
      BY <3>1
    <3> QED
      BY <2>2, <3>1, <3>2, <3>3
  <2> QED
    BY <2>1, <2>2
<1> QED
  BY <1>1, <1>2

\* An index that wraps keeps the slots that follow it.
LEMMA SlotsKept ==
    ASSUME NEW n \in Nat, n > 0, NEW m \in Nat, m % n = 0, NEW a \in 0 .. (m - 1), NEW i \in Nat \ {0}
    PROVE  (Succ(m, a) + i - 1) % n = (a + (i + 1) - 1) % n
<1>1. Succ(m, a) = IF a = m - 1 THEN 0 ELSE a + 1
  BY SuccIs
<1>2. CASE a = m - 1
  <2>1. Succ(m, a) + i - 1 = i - 1 /\ a + (i + 1) - 1 = m + (i - 1) /\ i - 1 \in Nat
    BY <1>1, <1>2
  <2>2. (m + (i - 1)) % n = (i - 1) % n
    BY <2>1, ModWrap
  <2> QED
    BY <2>1, <2>2
<1>3. CASE a # m - 1
  BY <1>1, <1>3
<1> QED
  BY <1>2, <1>3

\* The content has as many bytes as the indices say.
LEMMA ContentLen ==
    ASSUME NEW d, NEW n, NEW a, NEW k \in Nat
    PROVE  Len(Content(d, n, a, k)) = k
  BY DEF Content

\* A byte that is written behind the last one is appended to the content.
LEMMA ContentPut ==
    ASSUME NEW n \in Nat, n > 0, NEW a \in Nat, NEW k \in Nat, k < n, NEW c \in Nat, c % n = (a + k) % n,
           NEW d, NEW e, \A i \in 0 .. (n - 1) : i # c % n => e[i] = d[i]
    PROVE  Appended(Content(e, n, a, k + 1), Content(d, n, a, k), e[c % n])
<1> DEFINE x == e[c % n]
           B == {d[i] : i \in 0 .. (n - 1)} \union {e[i] : i \in 0 .. (n - 1)}
<1>1. ASSUME NEW i \in Nat \ {0} PROVE (a + i - 1) % n \in 0 .. (n - 1)
  <2>1. PICK z \in Nat : z = a + i - 1
    OBVIOUS
  <2>2. z % n \in 0 .. (n - 1)
    BY IndexDivMod
  <2> QED
    BY <2>1, <2>2
<1>2. Content(d, n, a, k) \in Seq(B) /\ Len(Content(d, n, a, k)) = k
  <2>1. ASSUME NEW i \in 1 .. k PROVE d[(a + i - 1) % n] \in B
    BY <1>1
  <2> QED
    BY <2>1 DEF Content
<1>3. Content(e, n, a, k + 1) \in Seq(B) /\ Len(Content(e, n, a, k + 1)) = k + 1
  <2>1. PICK k1 \in Nat : k1 = k + 1
    OBVIOUS
  <2>2. ASSUME NEW i \in 1 .. k1 PROVE e[(a + i - 1) % n] \in B
    BY <1>1
  <2>3. Content(e, n, a, k1) \in Seq(B) /\ Len(Content(e, n, a, k1)) = k1
    BY <2>2 DEF Content
  <2> QED
    BY <2>1, <2>3
<1>4. ASSUME NEW i \in 1 .. k PROVE Content(e, n, a, k + 1)[i] = Content(d, n, a, k)[i]
  <2>1. PICK j \in 0 .. (n - 1) : j = i - 1 /\ j # k /\ a + i - 1 = a + j
    BY <1>4
  <2>2. (a + j) % n # (a + k) % n
    <3>1. k \in 0 .. (n - 1)
      OBVIOUS
    <3> QED
      BY <2>1, <3>1, ModDistinct
  <2>3. e[(a + i - 1) % n] = d[(a + i - 1) % n]
    BY <1>1, <2>1, <2>2
  <2> QED
    BY <2>3 DEF Content
<1>5. Content(e, n, a, k + 1)[k + 1] = x
  <2>1. a + (k + 1) - 1 = a + k /\ k + 1 \in 1 .. (k + 1)
    OBVIOUS
  <2>2. Content(e, n, a, k + 1)[k + 1] = e[(a + (k + 1) - 1) % n]
    BY <2>1 DEF Content
  <2>3. (a + (k + 1) - 1) % n = c % n
    BY <2>1
  <2> QED
    BY <2>2, <2>3
<1> HIDE DEF Content
<1>6. PICK u \in Seq(B), v \in Seq(B) : u = Content(d, n, a, k) /\ v = Content(e, n, a, k + 1)
  BY <1>2, <1>3
<1>7. v = Append(u, x)
  <2>1. Append(u, x) \in Seq(B) /\ Len(Append(u, x)) = k + 1 /\ Len(v) = k + 1 /\ Len(u) = k
    BY <1>2, <1>3, <1>6
  <2>2. ASSUME NEW i \in 1 .. Len(v) PROVE v[i] = Append(u, x)[i]
    <3>1. CASE i = k + 1
      BY <1>5, <1>6, <2>1, <3>1
    <3>2. CASE i # k + 1
      BY <1>4, <1>6, <2>1, <3>2
    <3> QED
      BY <3>1, <3>2
  <2> QED
    BY <2>1, <2>2, SeqEqual
<1> QED
  BY <1>2, <1>6, <1>7 DEF Appended

\* Moving the first index on takes the first byte out.
LEMMA ContentGet ==
    ASSUME NEW n \in Nat, n > 0, NEW m \in Nat, m % n = 0, NEW a \in 0 .. (m - 1), NEW k \in Nat \ {0}, k <= n,
           NEW d, NEW e, \A i \in 0 .. (n - 1) : i # a % n => e[i] = d[i]
    PROVE  FirstTaken(Content(e, n, Succ(m, a), k - 1), Content(d, n, a, k), d[a % n])
<1> DEFINE B == {d[i] : i \in 0 .. (n - 1)} \union {e[i] : i \in 0 .. (n - 1)}
<1>1. ASSUME NEW b \in Nat, NEW i \in Nat \ {0} PROVE (b + i - 1) % n \in 0 .. (n - 1)
  <2>1. PICK z \in Nat : z = b + i - 1
    OBVIOUS
  <2>2. z % n \in 0 .. (n - 1)
    BY IndexDivMod
  <2> QED
    BY <2>1, <2>2
<1>2. Content(d, n, a, k) \in Seq(B) /\ Len(Content(d, n, a, k)) = k
  <2>1. a \in Nat
    OBVIOUS
  <2> QED
    <3>1. ASSUME NEW i \in 1 .. k PROVE d[(a + i - 1) % n] \in B
      BY <1>1, <2>1
    <3> QED
      BY <3>1 DEF Content
<1>3. Content(e, n, Succ(m, a), k - 1) \in Seq(B) /\ Len(Content(e, n, Succ(m, a), k - 1)) = k - 1
  <2>1. Succ(m, a) \in 0 .. (m - 1)
    BY SuccIs
  <2>2. Succ(m, a) \in Nat /\ k - 1 \in Nat
    BY <2>1
  <2> QED
    <3>1. ASSUME NEW i \in 1 .. (k - 1) PROVE e[(Succ(m, a) + i - 1) % n] \in B
      BY <1>1, <2>2
    <3> QED
      BY <2>2, <3>1 DEF Content
<1>4. ASSUME NEW i \in 1 .. (k - 1) PROVE Content(e, n, Succ(m, a), k - 1)[i] = Content(d, n, a, k)[i + 1]
  <2>1. (Succ(m, a) + i - 1) % n = (a + (i + 1) - 1) % n
    <3>1. i \in Nat \ {0}
      OBVIOUS
    <3> HIDE DEF B
    <3> QED
      BY <3>1, SlotsKept
  <2>2. i + 1 \in 1 .. k /\ a + (i + 1) - 1 = a + i /\ a \in Nat
    OBVIOUS
  <2>3. e[(a + i) % n] = d[(a + i) % n]
    <3>1. PICK z \in 0 .. (n - 1) : z = 0
      OBVIOUS
    <3>2. i \in 0 .. (n - 1) /\ i # z
      BY <3>1
    <3>3. (a + i) % n # (a + z) % n
      BY <2>2, <3>2, ModDistinct
    <3>4. (a + z) = a
      BY <3>1
    <3>5. (a + i) % n \in 0 .. (n - 1)
      BY IndexDivMod
    <3> QED
      BY <3>3, <3>4, <3>5
  <2>4. Content(e, n, Succ(m, a), k - 1)[i] = e[(Succ(m, a) + i - 1) % n]
    BY DEF Content
  <2>5. Content(d, n, a, k)[i + 1] = d[(a + (i + 1) - 1) % n]
    BY <2>2 DEF Content
  <2> QED
    BY <2>1, <2>2, <2>3, <2>4, <2>5
<1>5. Content(d, n, a, k)[1] = d[a % n]
  <2>1. a + 1 - 1 = a /\ 1 \in 1 .. k
    OBVIOUS
  <2> QED
    BY <2>1 DEF Content
<1> HIDE DEF Content
<1>6. PICK u \in Seq(B), v \in Seq(B) : u = Content(d, n, a, k) /\ v = Content(e, n, Succ(m, a), k - 1)
  BY <1>2, <1>3
<1>7. u # <<>> /\ Head(u) = u[1] /\ Tail(u) \in Seq(B) /\ Len(Tail(u)) = k - 1
  BY <1>2, <1>6
<1>8. v = Tail(u)
  <2>1. ASSUME NEW i \in 1 .. Len(v) PROVE v[i] = Tail(u)[i]
    BY <1>2, <1>3, <1>4, <1>6, <1>7
  <2> QED
    BY <1>3, <1>6, <1>7, <2>1, SeqEqual
<1> QED
  BY <1>5, <1>6, <1>7, <1>8 DEF FirstTaken

-----------------------------------------------------------------------------
(* The pipe: every step preserves the invariant.                             *)

\* The indices of the pipe and what they say of the ring.
LEMMA PipeConstants ==
    /\ PIPESIZE \in Nat /\ PIPESIZE > 0 /\ PipeMod \in Nat /\ PipeMod > PIPESIZE /\ PipeMod % PIPESIZE = 0
    /\ NoProc \notin PipeProcs /\ Requests \subseteq Nat
  BY PipeAssumption

\* The byte count of the pipe is the gap between its counters.
LEMMA PipeGap ==
    ASSUME PipeType
    PROVE  /\ InPipe = Gap(PipeMod, nread, nwrite) /\ InPipe \in 0 .. (PipeMod - 1)
           /\ Empty <=> InPipe = 0
           /\ Full <=> InPipe = PIPESIZE
<1>1. nread \in 0 .. (PipeMod - 1) /\ nwrite \in 0 .. (PipeMod - 1)
  BY DEF PipeType, PipeIndices
<1>2. InPipe = Gap(PipeMod, nread, nwrite)
  BY DEF InPipe, Gap
<1>3. InPipe \in 0 .. (PipeMod - 1)
  BY <1>1, <1>2, PipeConstants, GapIs
<1>4. Empty <=> InPipe = 0
  BY <1>1, <1>2, PipeConstants, GapMoves DEF Empty
<1>5. Full <=> InPipe = PIPESIZE
  BY <1>1, <1>2, PipeConstants, FullGap DEF Full
<1> QED
  BY <1>2, <1>3, <1>4, <1>5

\* A new pipe satisfies the invariant.
LEMMA PipeInitHolds == PipeInit => PipeInv
<1> SUFFICES ASSUME PipeInit PROVE PipeInv
  OBVIOUS
<1>1. (CHOOSE c \in Bytes : TRUE) \in Bytes
  BY PipeAssumption
<1>2. PipeType
  <2>1. 0 \in PipeIndices
    BY PipeConstants DEF PipeIndices
  <2>2. end \in [PipeProcs -> {"r", "w", "none"}]
    BY PipeAssumption DEF PipeInit
  <2>3. data \in [PipeSlots -> Bytes] /\ taken \in Bytes
    BY <1>1 DEF PipeInit, PipeSlots
  <2> QED
    BY <2>1, <2>2, <2>3 DEF PipeInit, PipeType, PipeLabels
<1>3. InPipe <= PIPESIZE /\ Empty
  <2>1. Empty
    BY DEF PipeInit, Empty
  <2>2. InPipe = 0
    BY <1>2, <2>1, PipeGap
  <2> QED
    BY <2>1, <2>2, PipeConstants
<1>4. EndInv
  <2>1. PICK e \in Ends : e = end /\ {e[p] : p \in PipeProcs} = {"r", "w"}
    BY PipeAssumption DEF PipeInit
  <2>2. (\E p \in PipeProcs : end[p] = "r") /\ (\E p \in PipeProcs : end[p] = "w")
    <3>1. "r" \in {e[p] : p \in PipeProcs} /\ "w" \in {e[p] : p \in PipeProcs}
      BY <2>1
    <3> QED
      BY <2>1, <3>1
  <2>3. \A p \in PipeProcs : ppc[p] = "user"
    BY DEF PipeInit
  <2> QED
    BY <2>2, <2>3 DEF EndInv, PipeInit
<1>5. LockInv /\ SleepInv
  BY DEF PipeInit, LockInv, SleepInv
<1> QED
  BY <1>2, <1>3, <1>4, <1>5 DEF PipeInv

\* PipeCall preserves the invariant.
LEMMA PipeCallStep ==
    ASSUME PipeInv, NEW p \in PipeProcs, NEW n \in Requests, PipeCall(p, n)
    PROVE  PipeInv'
<1>1. PipeType /\ InPipe <= PIPESIZE /\ EndInv /\ LockInv /\ SleepInv
  BY DEF PipeInv
<1>2. /\ ppc[p] = "user" /\ end[p] # "none"
      /\ ppc'[p] = (IF end[p] = "r" THEN "read" ELSE "write")
      /\ \A q \in PipeProcs : q # p => ppc'[q] = ppc[q]
      /\ ppc' \in [PipeProcs -> PipeLabels]
      /\ left' \in [PipeProcs -> Nat]
      /\ UNCHANGED <<data, nread, nwrite, taken>>
      /\ UNCHANGED <<readopen, writeopen, freed, end>>
      /\ UNCHANGED <<plock, pkilled, silent>>
  BY <1>1, PipeConstants DEF PipeCall, ringVars, PipeType, PipeLabels
<1>3. PipeType'
  BY <1>1, <1>2, PipeConstants DEF PipeType, PipeLabels
<1>4. (InPipe <= PIPESIZE)'
  BY <1>1, <1>2 DEF InPipe, ringVars
<1>5. EndInv'
  BY <1>1, <1>2 DEF EndInv, PipeType
<1>6. LockInv'
  BY <1>1, <1>2, PipeConstants DEF LockInv, PipeType
<1>7. SleepInv'
  BY <1>1, <1>2, PipeConstants DEF SleepInv, LockInv, EndInv, PipeType, Empty, Full, ringVars
<1> QED
  BY <1>3, <1>4, <1>5, <1>6, <1>7 DEF PipeInv

\* WriteDone preserves the invariant.
LEMMA WriteDoneStep ==
    ASSUME PipeInv, NEW p \in PipeProcs, WriteDone(p)
    PROVE  PipeInv'
<1>1. PipeType /\ InPipe <= PIPESIZE /\ EndInv /\ LockInv /\ SleepInv
  BY DEF PipeInv
<1>2. /\ ppc[p] = "write" /\ plock \in {NoProc, p} /\ ppc'[p] = "user" /\ plock' = NoProc
      /\ \A q \in PipeProcs : q # p => ppc'[q] = (IF ppc[q] = "read_sleep" THEN "read" ELSE ppc[q])
      /\ ppc' \in [PipeProcs -> PipeLabels]
      /\ left' \in [PipeProcs -> Nat]
      /\ UNCHANGED <<data, nread, nwrite, taken>>
      /\ UNCHANGED <<readopen, writeopen, freed, end>>
      /\ UNCHANGED pkilled /\ silent' = FALSE
  BY <1>1, PipeConstants DEF WriteDone, WakeReaders, MayRun, ringVars, PipeType, PipeLabels
<1>3. PipeType'
  BY <1>1, <1>2, PipeConstants DEF PipeType, PipeLabels
<1>4. (InPipe <= PIPESIZE)'
  BY <1>1, <1>2 DEF InPipe, ringVars
<1>5. EndInv'
  BY <1>1, <1>2 DEF EndInv
<1>6. LockInv'
  BY <1>1, <1>2, PipeConstants DEF LockInv, PipeType
<1>7. SleepInv'
  BY <1>1, <1>2, PipeConstants DEF SleepInv, LockInv, EndInv, PipeType, Empty, Full, ringVars
<1> QED
  BY <1>3, <1>4, <1>5, <1>6, <1>7 DEF PipeInv

\* WriteFails preserves the invariant.
LEMMA WriteFailsStep ==
    ASSUME PipeInv, NEW p \in PipeProcs, WriteFails(p)
    PROVE  PipeInv'
<1>1. PipeType /\ InPipe <= PIPESIZE /\ EndInv /\ LockInv /\ SleepInv
  BY DEF PipeInv
<1>2. /\ ppc[p] = "write" /\ plock \in {NoProc, p} /\ ppc'[p] = "user" /\ plock' = NoProc
      /\ ~readopen \/ pkilled[p]
      /\ \A q \in PipeProcs : q # p => ppc'[q] = ppc[q]
      /\ ppc' \in [PipeProcs -> PipeLabels]
      /\ left' \in [PipeProcs -> Nat]
      /\ UNCHANGED <<data, nread, nwrite, taken>>
      /\ UNCHANGED <<readopen, writeopen, freed, end>>
      /\ UNCHANGED pkilled /\ silent' \in BOOLEAN /\ (silent' <=> silent \/ pkilled[p])
  BY <1>1, PipeConstants DEF WriteFails, MayRun, ringVars, PipeType, PipeLabels
<1>3. PipeType'
  BY <1>1, <1>2, PipeConstants DEF PipeType, PipeLabels
<1>4. (InPipe <= PIPESIZE)'
  BY <1>1, <1>2 DEF InPipe, ringVars
<1>5. EndInv'
  BY <1>1, <1>2 DEF EndInv
<1>6. LockInv'
  BY <1>1, <1>2, PipeConstants DEF LockInv, PipeType
<1>7. SleepInv'
  BY <1>1, <1>2, PipeConstants DEF SleepInv, LockInv, EndInv, PipeType, Empty, Full, ringVars
<1> QED
  BY <1>3, <1>4, <1>5, <1>6, <1>7 DEF PipeInv

\* WriteWaits preserves the invariant.
LEMMA WriteWaitsStep ==
    ASSUME PipeInv, NEW p \in PipeProcs, WriteWaits(p)
    PROVE  PipeInv'
<1>1. PipeType /\ InPipe <= PIPESIZE /\ EndInv /\ LockInv /\ SleepInv
  BY DEF PipeInv
<1>2. /\ ppc[p] = "write" /\ plock \in {NoProc, p} /\ ppc'[p] = "write_wait" /\ plock' = p
      /\ readopen /\ ~pkilled[p] /\ Full
      /\ \A q \in PipeProcs : q # p => ppc'[q] = (IF ppc[q] = "read_sleep" THEN "read" ELSE ppc[q])
      /\ ppc' \in [PipeProcs -> PipeLabels]
      /\ UNCHANGED <<data, nread, nwrite, taken>>
      /\ UNCHANGED <<readopen, writeopen, freed, end>>
      /\ UNCHANGED <<pkilled, left>> /\ silent' = FALSE
  BY <1>1, PipeConstants DEF WriteWaits, WakeReaders, MayRun, ringVars, PipeType, PipeLabels
<1>3. PipeType'
  BY <1>1, <1>2, PipeConstants DEF PipeType, PipeLabels
<1>4. (InPipe <= PIPESIZE)'
  BY <1>1, <1>2 DEF InPipe, ringVars
<1>5. EndInv'
  BY <1>1, <1>2 DEF EndInv
<1>6. LockInv'
  BY <1>1, <1>2, PipeConstants DEF LockInv, PipeType
<1>7. SleepInv'
  BY <1>1, <1>2, PipeConstants DEF SleepInv, LockInv, EndInv, PipeType, Empty, Full, ringVars
<1> QED
  BY <1>3, <1>4, <1>5, <1>6, <1>7 DEF PipeInv

\* WriteByte preserves the invariant.
LEMMA WriteByteStep ==
    ASSUME PipeInv, NEW p \in PipeProcs, NEW c \in Bytes, WriteByte(p, c)
    PROVE  PipeInv'
<1>1. PipeType /\ InPipe <= PIPESIZE /\ EndInv /\ LockInv /\ SleepInv
  BY DEF PipeInv
<1>2. /\ ppc[p] = "write" /\ plock \in {NoProc, p} /\ plock' = p /\ ~Full
      /\ nwrite' = Succ(PipeMod, nwrite) /\ data' \in [PipeSlots -> Bytes]
      /\ left' \in [PipeProcs -> Nat]
      /\ UNCHANGED <<readopen, writeopen, freed, end>>
      /\ UNCHANGED <<pkilled, ppc, nread, taken, silent>>
  <2>1. left[p] \in Nat /\ left[p] > 0 /\ left' = [left EXCEPT ![p] = left[p] - 1] /\ left \in [PipeProcs -> Nat]
    BY <1>1 DEF WriteByte, PipeType
  <2>2. left' \in [PipeProcs -> Nat]
    BY <2>1
  <2>3. data' = [data EXCEPT ![nwrite % PIPESIZE] = c] /\ data \in [PipeSlots -> Bytes]
    BY <1>1 DEF WriteByte, PipeType
  <2>4. data' \in [PipeSlots -> Bytes]
    BY <2>3
  <2> QED
    BY <1>1, <2>2, <2>4 DEF WriteByte, MayRun, Succ
<1>e. Gap(PipeMod, nread, Succ(PipeMod, nwrite)) = InPipe + 1 /\ InPipe < PIPESIZE
      /\ Succ(PipeMod, nwrite) \in PipeIndices
  <2>1. InPipe < PIPESIZE /\ InPipe = Gap(PipeMod, nread, nwrite) /\ InPipe \in Nat
    BY <1>1, <1>2, PipeGap, PipeConstants
  <2>2. nread \in 0 .. (PipeMod - 1) /\ nwrite \in 0 .. (PipeMod - 1)
    BY <1>1 DEF PipeType, PipeIndices
  <2> QED
    BY <2>1, <2>2, PipeConstants, GapMoves, SuccIs DEF PipeIndices
<1>3. PipeType'
  BY <1>1, <1>2, <1>e DEF PipeType
<1>4. (InPipe <= PIPESIZE)'
  <2>1. InPipe' = Gap(PipeMod, nread, Succ(PipeMod, nwrite))
    BY <1>2 DEF InPipe, Gap
  <2> QED
    BY <1>1, <1>e, <2>1, PipeGap, PipeConstants
<1>5. EndInv'
  BY <1>1, <1>2 DEF EndInv
<1>6. LockInv'
  BY <1>1, <1>2, PipeConstants DEF LockInv, PipeType
<1>7. SleepInv'
  <2>1. ASSUME NEW q \in PipeProcs, ppc'[q] = "read_sleep" PROVE writeopen'
    BY <1>1, <1>2, <2>1 DEF SleepInv
  <2>2. plock' # NoProc /\ ppc'[plock'] = "write"
    BY <1>1, <1>2, PipeConstants
  <2>3. ASSUME NEW q \in PipeProcs PROVE ppc'[q] \notin {"read_wait", "write_wait", "write_sleep"}
    BY <1>1, <1>2, PipeConstants DEF SleepInv, LockInv, PipeType
  <2> QED
    BY <2>1, <2>2, <2>3 DEF SleepInv
<1> QED
  BY <1>3, <1>4, <1>5, <1>6, <1>7 DEF PipeInv

\* ReadWaits preserves the invariant.
LEMMA ReadWaitsStep ==
    ASSUME PipeInv, NEW p \in PipeProcs, ReadWaits(p)
    PROVE  PipeInv'
<1>1. PipeType /\ InPipe <= PIPESIZE /\ EndInv /\ LockInv /\ SleepInv
  BY DEF PipeInv
<1>2. /\ ppc[p] = "read" /\ plock \in {NoProc, p} /\ ppc'[p] = "read_wait" /\ plock' = p
      /\ writeopen /\ ~pkilled[p] /\ Empty
      /\ \A q \in PipeProcs : q # p => ppc'[q] = ppc[q]
      /\ ppc' \in [PipeProcs -> PipeLabels]
      /\ UNCHANGED <<data, nread, nwrite, taken>>
      /\ UNCHANGED <<readopen, writeopen, freed, end>>
      /\ UNCHANGED <<pkilled, left, silent>>
  BY <1>1, PipeConstants DEF ReadWaits, MayRun, ringVars, PipeType, PipeLabels
<1>3. PipeType'
  BY <1>1, <1>2, PipeConstants DEF PipeType, PipeLabels
<1>4. (InPipe <= PIPESIZE)'
  BY <1>1, <1>2 DEF InPipe, ringVars
<1>5. EndInv'
  BY <1>1, <1>2 DEF EndInv
<1>6. LockInv'
  BY <1>1, <1>2, PipeConstants DEF LockInv, PipeType
<1>7. SleepInv'
  BY <1>1, <1>2, PipeConstants DEF SleepInv, LockInv, EndInv, PipeType, Empty, Full, ringVars
<1> QED
  BY <1>3, <1>4, <1>5, <1>6, <1>7 DEF PipeInv

\* ReadFails preserves the invariant.
LEMMA ReadFailsStep ==
    ASSUME PipeInv, NEW p \in PipeProcs, ReadFails(p)
    PROVE  PipeInv'
<1>1. PipeType /\ InPipe <= PIPESIZE /\ EndInv /\ LockInv /\ SleepInv
  BY DEF PipeInv
<1>2. /\ ppc[p] = "read" /\ plock \in {NoProc, p} /\ ppc'[p] = "user" /\ plock' = NoProc /\ pkilled[p]
      /\ \A q \in PipeProcs : q # p => ppc'[q] = ppc[q]
      /\ ppc' \in [PipeProcs -> PipeLabels]
      /\ left' \in [PipeProcs -> Nat]
      /\ UNCHANGED <<data, nread, nwrite, taken>>
      /\ UNCHANGED <<readopen, writeopen, freed, end>>
      /\ UNCHANGED <<pkilled, silent>>
  BY <1>1, PipeConstants DEF ReadFails, MayRun, ringVars, PipeType, PipeLabels
<1>3. PipeType'
  BY <1>1, <1>2, PipeConstants DEF PipeType, PipeLabels
<1>4. (InPipe <= PIPESIZE)'
  BY <1>1, <1>2 DEF InPipe, ringVars
<1>5. EndInv'
  BY <1>1, <1>2 DEF EndInv
<1>6. LockInv'
  BY <1>1, <1>2, PipeConstants DEF LockInv, PipeType
<1>7. SleepInv'
  BY <1>1, <1>2, PipeConstants DEF SleepInv, LockInv, EndInv, PipeType, Empty, Full, ringVars
<1> QED
  BY <1>3, <1>4, <1>5, <1>6, <1>7 DEF PipeInv

\* ReadStarts preserves the invariant.
LEMMA ReadStartsStep ==
    ASSUME PipeInv, NEW p \in PipeProcs, ReadStarts(p)
    PROVE  PipeInv'
<1>1. PipeType /\ InPipe <= PIPESIZE /\ EndInv /\ LockInv /\ SleepInv
  BY DEF PipeInv
<1>2. /\ ppc[p] = "read" /\ plock \in {NoProc, p} /\ ppc'[p] = "copy" /\ plock' = p
      /\ \A q \in PipeProcs : q # p => ppc'[q] = ppc[q]
      /\ ppc' \in [PipeProcs -> PipeLabels]
      /\ UNCHANGED <<data, nread, nwrite, taken>>
      /\ UNCHANGED <<readopen, writeopen, freed, end>>
      /\ UNCHANGED <<pkilled, left, silent>>
  BY <1>1, PipeConstants DEF ReadStarts, MayRun, ringVars, PipeType, PipeLabels
<1>3. PipeType'
  BY <1>1, <1>2, PipeConstants DEF PipeType, PipeLabels
<1>4. (InPipe <= PIPESIZE)'
  BY <1>1, <1>2 DEF InPipe, ringVars
<1>5. EndInv'
  BY <1>1, <1>2 DEF EndInv
<1>6. LockInv'
  BY <1>1, <1>2, PipeConstants DEF LockInv, PipeType
<1>7. SleepInv'
  BY <1>1, <1>2, PipeConstants DEF SleepInv, LockInv, EndInv, PipeType, Empty, Full, ringVars
<1> QED
  BY <1>3, <1>4, <1>5, <1>6, <1>7 DEF PipeInv

\* ReadByte preserves the invariant.
LEMMA ReadByteStep ==
    ASSUME PipeInv, NEW p \in PipeProcs, ReadByte(p)
    PROVE  PipeInv'
<1>1. PipeType /\ InPipe <= PIPESIZE /\ EndInv /\ LockInv /\ SleepInv
  BY DEF PipeInv
<1>2. /\ ppc[p] = "copy" /\ ~Empty
      /\ nread' = Succ(PipeMod, nread) /\ taken' = data[nread % PIPESIZE] /\ UNCHANGED <<data, nwrite>>
      /\ \/ ppc' = ppc /\ plock' = plock
         \/ ppc'[p] = "user" /\ plock' = NoProc /\ \A q \in PipeProcs : q # p => ppc'[q] = (IF ppc[q] = "write_sleep" THEN "write" ELSE ppc[q])
      /\ ppc' \in [PipeProcs -> PipeLabels]
      /\ left' \in [PipeProcs -> Nat]
      /\ UNCHANGED <<readopen, writeopen, freed, end>>
      /\ UNCHANGED <<pkilled, silent>>
  BY <1>1, PipeConstants DEF ReadByte, WakeWriters, Succ, PipeType, PipeLabels
<1>e. Gap(PipeMod, Succ(PipeMod, nread), nwrite) = InPipe - 1 /\ InPipe \in Nat
      /\ Succ(PipeMod, nread) \in PipeIndices /\ nread % PIPESIZE \in PipeSlots
  <2>1. InPipe # 0 /\ InPipe = Gap(PipeMod, nread, nwrite) /\ InPipe \in Nat
    BY <1>1, <1>2, PipeGap, PipeConstants
  <2>2. nread \in 0 .. (PipeMod - 1) /\ nwrite \in 0 .. (PipeMod - 1) /\ nread \in Nat
    BY <1>1 DEF PipeType, PipeIndices
  <2>3. nread % PIPESIZE \in PipeSlots
    BY <2>2, PipeConstants, IndexDivMod DEF PipeSlots
  <2>4. nread # nwrite
    BY <1>2 DEF Empty
  <2> QED
    BY <2>1, <2>2, <2>3, <2>4, PipeConstants, GapMoves, SuccIs DEF PipeIndices
<1>3. PipeType'
  BY <1>1, <1>2, <1>e, PipeConstants DEF PipeType
<1>4. (InPipe <= PIPESIZE)'
  <2>1. InPipe' = Gap(PipeMod, Succ(PipeMod, nread), nwrite)
    BY <1>2 DEF InPipe, Gap
  <2> QED
    BY <1>1, <1>e, <2>1, PipeConstants
<1>5. EndInv'
  BY <1>1, <1>2 DEF EndInv
<1>6. LockInv'
  BY <1>1, <1>2, PipeConstants DEF LockInv, PipeType
<1>7. SleepInv'
  <2>1. ASSUME NEW q \in PipeProcs, ppc'[q] = "read_sleep"
        PROVE  writeopen' /\ silent'
    BY <1>1, <1>2, <2>1, PipeConstants DEF SleepInv, LockInv
  <2>2. ASSUME NEW q \in PipeProcs, ppc'[q] = "write_sleep"
        PROVE  readopen' /\ plock' # NoProc /\ ppc'[plock'] = "copy"
    BY <1>1, <1>2, <2>2, PipeConstants DEF SleepInv, LockInv
  <2>3. ASSUME NEW q \in PipeProcs PROVE ppc'[q] \notin {"read_wait", "write_wait"}
    BY <1>1, <1>2, PipeConstants DEF LockInv, PipeType
  <2> QED
    BY <2>1, <2>2, <2>3 DEF SleepInv
<1> QED
  BY <1>3, <1>4, <1>5, <1>6, <1>7 DEF PipeInv

\* ReadDone preserves the invariant.
LEMMA ReadDoneStep ==
    ASSUME PipeInv, NEW p \in PipeProcs, ReadDone(p)
    PROVE  PipeInv'
<1>1. PipeType /\ InPipe <= PIPESIZE /\ EndInv /\ LockInv /\ SleepInv
  BY DEF PipeInv
<1>2. /\ ppc[p] = "copy" /\ ppc'[p] = "user" /\ plock' = NoProc
      /\ \A q \in PipeProcs : q # p => ppc'[q] = (IF ppc[q] = "write_sleep" THEN "write" ELSE ppc[q])
      /\ ppc' \in [PipeProcs -> PipeLabels]
      /\ left' \in [PipeProcs -> Nat]
      /\ UNCHANGED <<data, nread, nwrite, taken>>
      /\ UNCHANGED <<readopen, writeopen, freed, end>>
      /\ UNCHANGED <<pkilled, silent>>
  BY <1>1, PipeConstants DEF ReadDone, WakeWriters, ringVars, PipeType, PipeLabels
<1>3. PipeType'
  BY <1>1, <1>2, PipeConstants DEF PipeType, PipeLabels
<1>4. (InPipe <= PIPESIZE)'
  BY <1>1, <1>2 DEF InPipe, ringVars
<1>5. EndInv'
  BY <1>1, <1>2 DEF EndInv
<1>6. LockInv'
  BY <1>1, <1>2, PipeConstants DEF LockInv, PipeType
<1>7. SleepInv'
  BY <1>1, <1>2, PipeConstants DEF SleepInv, LockInv, EndInv, PipeType, Empty, Full, ringVars
<1> QED
  BY <1>3, <1>4, <1>5, <1>6, <1>7 DEF PipeInv

\* Going to sleep keeps the wait honest: nobody changed the ring since the test.
LEMMA PipeSleepStep ==
    ASSUME PipeInv, NEW p \in PipeProcs, PipeSleep(p)
    PROVE  PipeInv'
<1>1. PipeType /\ InPipe <= PIPESIZE /\ EndInv /\ LockInv /\ SleepInv
  BY DEF PipeInv
<1>2. /\ plock = p /\ plock' = NoProc
      /\ \/ ppc[p] = "read_wait" /\ ppc'[p] = "read_sleep"
         \/ ppc[p] = "write_wait" /\ ppc'[p] = "write_sleep"
      /\ \A q \in PipeProcs : q # p => ppc'[q] = ppc[q]
      /\ ppc' \in [PipeProcs -> PipeLabels]
      /\ UNCHANGED <<data, nread, nwrite, taken>>
      /\ UNCHANGED <<readopen, writeopen, freed, end>>
      /\ UNCHANGED <<pkilled, left, silent>>
  BY <1>1, PipeConstants DEF PipeSleep, LockInv, ringVars, PipeType, PipeLabels
<1>3. PipeType'
  BY <1>1, <1>2, PipeConstants DEF PipeType, PipeLabels
<1>4. (InPipe <= PIPESIZE)'
  BY <1>1, <1>2 DEF InPipe, ringVars
<1>5. EndInv'
  BY <1>1, <1>2 DEF EndInv
<1>6. LockInv'
  BY <1>1, <1>2, PipeConstants DEF LockInv, PipeType
<1>7. SleepInv'
  BY <1>1, <1>2, PipeConstants DEF SleepInv, LockInv, EndInv, PipeType, Empty, Full, ringVars
<1> QED
  BY <1>3, <1>4, <1>5, <1>6, <1>7 DEF PipeInv

\* Closing one end keeps the other end's wait honest and the page accounted.
LEMMA CloseEndStep ==
    ASSUME PipeInv, NEW p \in PipeProcs, CloseEnd(p)
    PROVE  PipeInv'
<1>1. PipeType /\ InPipe <= PIPESIZE /\ EndInv /\ LockInv /\ SleepInv
  BY DEF PipeInv
<1>2. /\ ppc[p] = "user" /\ end[p] # "none" /\ end'[p] = "none"
      /\ \A q \in PipeProcs : q # p => end'[q] = end[q]
      /\ ppc'[p] = (IF \E q \in PipeProcs \ {p} : end[q] = end[p] THEN "user" ELSE IF end[p] = "r" THEN "close_r" ELSE "close_w")
      /\ \A q \in PipeProcs : q # p => ppc'[q] = ppc[q]
      /\ ppc' \in [PipeProcs -> PipeLabels]
      /\ end' \in [PipeProcs -> {"r", "w", "none"}]
      /\ UNCHANGED <<data, nread, nwrite, taken>>
      /\ UNCHANGED <<readopen, writeopen, freed, plock, left, pkilled, silent>>
  <2>1. ppc[p] = "user" /\ end[p] # "none" /\ end[p] \in {"r", "w", "none"}
    BY <1>1 DEF CloseEnd, PipeType
  <2>2. PICK x \in {"user", "close_r", "close_w"} :
          /\ ppc' = [ppc EXCEPT ![p] = x]
          /\ x = IF \E q \in PipeProcs \ {p} : end[q] = end[p] THEN "user"
                 ELSE IF end[p] = "r" THEN "close_r" ELSE "close_w"
    BY DEF CloseEnd
  <2>3. end' = [end EXCEPT ![p] = "none"] /\ UNCHANGED <<ringVars, readopen, writeopen, freed, plock, left, pkilled, silent>>
    BY DEF CloseEnd
  <2>4. ppc \in [PipeProcs -> PipeLabels] /\ end \in [PipeProcs -> {"r", "w", "none"}] /\ x \in PipeLabels
    BY <1>1, <2>2 DEF PipeType, PipeLabels
  <2> QED
    BY <2>1, <2>2, <2>3, <2>4 DEF ringVars
<1>3. PipeType'
  BY <1>1, <1>2, PipeConstants DEF PipeType, PipeLabels
<1>4. (InPipe <= PIPESIZE)'
  BY <1>1, <1>2 DEF InPipe, ringVars
<1>5. EndInv'
  <2>1. end[p] \in {"r", "w"} /\ \A q \in PipeProcs : end[q] \in {"r", "w", "none"}
    BY <1>1, <1>2 DEF PipeType
  <2>2. \A q \in PipeProcs : (ppc'[q] = "close_r" <=> ppc[q] = "close_r" \/ (q = p /\ ppc'[p] = "close_r"))
    BY <1>2
  <2>3. CASE \E q \in PipeProcs \ {p} : end[q] = end[p]
    BY <1>1, <1>2, <2>1, <2>3 DEF EndInv
  <2>4. CASE (\A q \in PipeProcs \ {p} : end[q] # end[p]) /\ end[p] = "r"
    BY <1>1, <1>2, <2>1, <2>4 DEF EndInv
  <2>5. CASE (\A q \in PipeProcs \ {p} : end[q] # end[p]) /\ end[p] = "w"
    BY <1>1, <1>2, <2>1, <2>5 DEF EndInv
  <2> QED
    BY <2>1, <2>3, <2>4, <2>5
<1>6. LockInv'
  BY <1>1, <1>2, PipeConstants DEF LockInv, PipeType
<1>7. SleepInv'
  BY <1>1, <1>2, PipeConstants DEF SleepInv, LockInv, EndInv, PipeType, Empty, Full, ringVars
<1> QED
  BY <1>3, <1>4, <1>5, <1>6, <1>7 DEF PipeInv

\* PipeClose preserves the invariant.
LEMMA PipeCloseStep ==
    ASSUME PipeInv, NEW p \in PipeProcs, PipeClose(p)
    PROVE  PipeInv'
<1>1. PipeType /\ InPipe <= PIPESIZE /\ EndInv /\ LockInv /\ SleepInv
  BY DEF PipeInv
<1>2. /\ ppc[p] \in {"close_r", "close_w"} /\ plock = NoProc /\ ppc'[p] = "user"
      /\ writeopen' = (writeopen /\ ppc[p] # "close_w") /\ readopen' = (readopen /\ ppc[p] # "close_r")
      /\ \A q \in PipeProcs : q # p => ppc'[q] = IF ppc[p] = "close_w" THEN (IF ppc[q] = "read_sleep" THEN "read" ELSE ppc[q])
                                                       ELSE (IF ppc[q] = "write_sleep" THEN "write" ELSE ppc[q])
      /\ freed' = IF readopen' \/ writeopen' THEN freed ELSE freed + 1
      /\ ppc' \in [PipeProcs -> PipeLabels]
      /\ UNCHANGED <<data, nread, nwrite, taken>>
      /\ UNCHANGED <<plock, end, left, pkilled>>
      /\ silent' \in BOOLEAN /\ (silent' <=> silent /\ ppc[p] # "close_w")
  BY <1>1, PipeConstants DEF PipeClose, WakeReaders, WakeWriters, ringVars, PipeType, PipeLabels
<1>3. PipeType'
  BY <1>1, <1>2, PipeConstants DEF PipeType, PipeLabels
<1>4. (InPipe <= PIPESIZE)'
  BY <1>1, <1>2 DEF InPipe, ringVars
<1>5. EndInv'
  <2>1. CASE ppc[p] = "close_r"
    <3>1. /\ readopen = TRUE /\ readopen' = FALSE /\ writeopen' = writeopen /\ freed = 0
          /\ freed' = IF writeopen' THEN 0 ELSE 1
      <4>1. readopen \in BOOLEAN /\ writeopen \in BOOLEAN
        BY <1>1 DEF PipeType
      <4>2. readopen
        BY <1>1, <2>1 DEF EndInv
      <4>3. ppc[p] # "close_w"
        BY <2>1
      <4>4. readopen' = FALSE /\ writeopen' = writeopen
        BY <1>2, <2>1, <4>1, <4>3
      <4>5. freed = 0
        BY <1>1, <4>2 DEF EndInv
      <4> QED
        BY <1>2, <4>1, <4>2, <4>4, <4>5
    <3>2. /\ \A q \in PipeProcs : end'[q] # "r" /\ ppc'[q] # "close_r"
          /\ \A q \in PipeProcs : ppc'[q] = "close_w" <=> ppc[q] = "close_w"
      BY <1>1, <1>2, <2>1 DEF EndInv
    <3>3. \A q \in PipeProcs :
            /\ ppc'[q] \in {"read", "read_wait", "read_sleep", "copy"} => end'[q] = "r"
            /\ ppc'[q] \in {"write", "write_wait", "write_sleep"} => end'[q] = "w"
            /\ ppc'[q] \in {"close_r", "close_w"} => end'[q] = "none"
      BY <1>1, <1>2, <2>1 DEF EndInv
    <3> QED
      BY <1>1, <1>2, <3>1, <3>2, <3>3 DEF EndInv
  <2>2. CASE ppc[p] = "close_w"
    <3>1. /\ writeopen = TRUE /\ writeopen' = FALSE /\ readopen' = readopen /\ freed = 0
          /\ freed' = IF readopen' THEN 0 ELSE 1
      <4>1. readopen \in BOOLEAN /\ writeopen \in BOOLEAN
        BY <1>1 DEF PipeType
      <4>2. writeopen
        BY <1>1, <2>2 DEF EndInv
      <4>3. ppc[p] # "close_r"
        BY <2>2
      <4>4. writeopen' = FALSE /\ readopen' = readopen
        BY <1>2, <2>2, <4>1, <4>3
      <4>5. freed = 0
        BY <1>1, <4>2 DEF EndInv
      <4> QED
        BY <1>2, <4>1, <4>2, <4>4, <4>5
    <3>2. /\ \A q \in PipeProcs : end'[q] # "w" /\ ppc'[q] # "close_w"
          /\ \A q \in PipeProcs : ppc'[q] = "close_r" <=> ppc[q] = "close_r"
      BY <1>1, <1>2, <2>2 DEF EndInv
    <3>3. \A q \in PipeProcs :
            /\ ppc'[q] \in {"read", "read_wait", "read_sleep", "copy"} => end'[q] = "r"
            /\ ppc'[q] \in {"write", "write_wait", "write_sleep"} => end'[q] = "w"
            /\ ppc'[q] \in {"close_r", "close_w"} => end'[q] = "none"
      BY <1>1, <1>2, <2>2 DEF EndInv
    <3> QED
      BY <1>1, <1>2, <3>1, <3>2, <3>3 DEF EndInv
  <2> QED
    BY <1>2, <2>1, <2>2
<1>6. LockInv'
  BY <1>1, <1>2, PipeConstants DEF LockInv, PipeType
<1>7. SleepInv'
  BY <1>1, <1>2, PipeConstants DEF SleepInv, LockInv, EndInv, PipeType, Empty, Full, ringVars
<1> QED
  BY <1>3, <1>4, <1>5, <1>6, <1>7 DEF PipeInv

\* KillProc preserves the invariant.
LEMMA KillProcStep ==
    ASSUME PipeInv, NEW p \in PipeProcs, KillProc(p)
    PROVE  PipeInv'
<1>1. PipeType /\ InPipe <= PIPESIZE /\ EndInv /\ LockInv /\ SleepInv
  BY DEF PipeInv
<1>2. /\ pkilled' \in [PipeProcs -> BOOLEAN] /\ pkilled'[p] = TRUE
      /\ \A q \in PipeProcs : q # p => pkilled'[q] = pkilled[q]
      /\ ppc'[p] = (IF ppc[p] = "read_sleep" THEN "read" ELSE IF ppc[p] = "write_sleep" THEN "write" ELSE ppc[p])
      /\ \A q \in PipeProcs : q # p => ppc'[q] = ppc[q]
      /\ ppc' \in [PipeProcs -> PipeLabels]
      /\ UNCHANGED <<data, nread, nwrite, taken>>
      /\ UNCHANGED <<readopen, writeopen, freed, end>>
      /\ UNCHANGED <<plock, left, silent>>
  BY <1>1, PipeConstants DEF KillProc, ringVars, PipeType, PipeLabels
<1>3. PipeType'
  BY <1>1, <1>2, PipeConstants DEF PipeType, PipeLabels
<1>4. (InPipe <= PIPESIZE)'
  BY <1>1, <1>2 DEF InPipe, ringVars
<1>5. EndInv'
  BY <1>1, <1>2 DEF EndInv
<1>6. LockInv'
  BY <1>1, <1>2, PipeConstants DEF LockInv, PipeType
<1>7. SleepInv'
  BY <1>1, <1>2, PipeConstants DEF SleepInv, LockInv, EndInv, PipeType, Empty, Full, ringVars
<1> QED
  BY <1>3, <1>4, <1>5, <1>6, <1>7 DEF PipeInv

\* Every step of the pipe preserves the invariant.
LEMMA PipeNextKeeps == PipeInv /\ [PipeNext]_pipeVars => PipeInv'
<1> SUFFICES ASSUME PipeInv, [PipeNext]_pipeVars PROVE PipeInv'
  OBVIOUS
<1>1. CASE PipeNext
  <2>1. ASSUME NEW p \in PipeProcs, NEW n \in Requests, PipeCall(p, n) PROVE PipeInv'
    BY <2>1, PipeCallStep
  <2>2. ASSUME NEW p \in PipeProcs, PipeStep(p) PROVE PipeInv'
    <3>1. ASSUME NEW c \in Bytes, WriteByte(p, c) PROVE PipeInv'
      BY <3>1, WriteByteStep
    <3> QED
      BY <2>2, <3>1, WriteDoneStep, WriteFailsStep, WriteWaitsStep, ReadWaitsStep, ReadFailsStep, ReadStartsStep,
         ReadByteStep, ReadDoneStep, PipeSleepStep, CloseEndStep, PipeCloseStep DEF PipeStep
  <2>3. ASSUME NEW p \in PipeProcs, KillProc(p) PROVE PipeInv'
    BY <2>3, KillProcStep
  <2> QED
    BY <1>1, <2>1, <2>2, <2>3 DEF PipeNext
<1>2. CASE UNCHANGED pipeVars
  BY <1>2 DEF PipeInv, PipeType, InPipe, EndInv, LockInv, SleepInv, Empty, Full, pipeVars, ringVars
<1> QED
  BY <1>1, <1>2

\* The invariant holds in every state of a pipe.
THEOREM PipeInvariant == PipeSpec => []PipeInv
<1>1. PipeInit => PipeInv
  BY PipeInitHolds
<1>2. PipeInv /\ [PipeNext]_pipeVars => PipeInv'
  BY PipeNextKeeps
<1> QED
  BY <1>1, <1>2, PTL DEF PipeSpec

\* Nobody sleeps at a pipe with something to do, but for the readers of what a
\* killed writer left (the wakeups of pipewrite, piperead and pipeclose), for
\* any number of readers and writers and a kill at any point.
THEOREM PipeSleepersWoken == PipeSpec => []NoIdleSleeper
<1>1. PipeInv => NoIdleSleeper
  BY DEF PipeInv, SleepInv, NoIdleSleeper
<1> QED
  BY <1>1, PipeInvariant, PTL

\* The page of a pipe is freed once, by the last close (pipeclose).
THEOREM PipePageFreedOnce == PipeSpec => []PipeFreedOnce
<1>1. PipeInv => PipeFreedOnce
  <2> SUFFICES ASSUME PipeInv PROVE PipeFreedOnce
    OBVIOUS
  <2>1. EndInv /\ PipeType
    BY DEF PipeInv
  <2>2. freed <= 1
    BY <2>1 DEF EndInv
  <2>3. freed = 1 => \A p \in PipeProcs : end[p] = "none" /\ ppc[p] = "user"
    BY <2>1 DEF EndInv, PipeType, PipeLabels
  <2>4. (\A p \in PipeProcs : end[p] = "none" /\ ppc[p] = "user") => freed = 1
    BY <2>1 DEF EndInv
  <2> QED
    BY <2>2, <2>3, <2>4 DEF PipeFreedOnce
<1> QED
  BY <1>1, PipeInvariant, PTL

-----------------------------------------------------------------------------
(* The pipe is a queue.                                                      *)

\* The bytes between the indices.
LEMMA QueuedIs == Queued = Content(data, PIPESIZE, nread, InPipe)
  BY DEF Queued, Content, InPipe

\* A byte written by pipewrite goes to the end of the queue.
LEMMA WriteByteQueues ==
    ASSUME PipeInv, NEW p \in PipeProcs, NEW c \in Bytes, WriteByte(p, c)
    PROVE  PipeQueue!Put(c)
<1>1. /\ PipeType /\ InPipe \in Nat /\ InPipe < PIPESIZE
      /\ nwrite' = Succ(PipeMod, nwrite) /\ nread' = nread /\ taken' = taken
      /\ data' = [data EXCEPT ![nwrite % PIPESIZE] = c]
  BY PipeGap, PipeConstants DEF PipeInv, WriteByte, Succ
<1>2. /\ nread \in 0 .. (PipeMod - 1) /\ nwrite \in 0 .. (PipeMod - 1) /\ nread \in Nat /\ nwrite \in Nat
      /\ data \in [0 .. (PIPESIZE - 1) -> Bytes] /\ InPipe = Gap(PipeMod, nread, nwrite)
  BY <1>1, PipeGap DEF PipeType, PipeIndices, PipeSlots
<1>3. nwrite % PIPESIZE \in 0 .. (PIPESIZE - 1)
  BY <1>2, PipeConstants, IndexDivMod
<1>4. nwrite % PIPESIZE = (nread + InPipe) % PIPESIZE
  <2>1. InPipe = IF nread <= nwrite THEN nwrite - nread ELSE nwrite + PipeMod - nread
    BY <1>2, PipeConstants, GapIs
  <2>2. CASE nread <= nwrite
    <3>1. nread + InPipe = nwrite
      BY <1>2, <2>1, <2>2, PipeConstants
    <3> QED
      BY <3>1
  <2>3. CASE ~(nread <= nwrite)
    <3>1. nread + InPipe = PipeMod + nwrite
      BY <1>2, <2>1, <2>3, PipeConstants
    <3>2. (PipeMod + nwrite) % PIPESIZE = nwrite % PIPESIZE
      BY <1>2, PipeConstants, ModWrap
    <3> QED
      BY <3>1, <3>2
  <2> QED
    BY <2>2, <2>3
<1>5. InPipe' = InPipe + 1
  <2>1. InPipe + 1 < PipeMod
    BY <1>1, PipeConstants
  <2>2. Gap(PipeMod, nread, Succ(PipeMod, nwrite)) = Gap(PipeMod, nread, nwrite) + 1
    BY <1>2, <2>1, PipeConstants, GapMoves
  <2>3. InPipe' = Gap(PipeMod, nread, Succ(PipeMod, nwrite))
    BY <1>1 DEF InPipe, Gap
  <2> QED
    BY <1>2, <2>2, <2>3
<1>6. PICK e \in [0 .. (PIPESIZE - 1) -> Bytes] :
        /\ e = data' /\ e[nwrite % PIPESIZE] = c
        /\ \A i \in 0 .. (PIPESIZE - 1) : i # nwrite % PIPESIZE => e[i] = data[i]
  BY <1>1, <1>2, <1>3
<1>7. Appended(Content(e, PIPESIZE, nread, InPipe + 1), Content(data, PIPESIZE, nread, InPipe), c)
  <2>1. /\ PIPESIZE \in Nat /\ PIPESIZE > 0 /\ nread \in Nat /\ InPipe \in Nat /\ InPipe < PIPESIZE
        /\ nwrite \in Nat /\ nwrite % PIPESIZE = (nread + InPipe) % PIPESIZE
    BY <1>1, <1>2, <1>4, PipeConstants
  <2> QED
    BY <1>6, <2>1, ContentPut
<1>9. Len(Content(data, PIPESIZE, nread, InPipe)) = InPipe
  BY <1>1, ContentLen
<1>8. Queued = Content(data, PIPESIZE, nread, InPipe) /\ Queued' = Content(e, PIPESIZE, nread, InPipe + 1)
  <2>1. Queued' = Content(data', PIPESIZE, nread', InPipe')
    BY DEF Queued, Content, InPipe
  <2> QED
    BY <1>1, <1>5, <1>6, <2>1, QueuedIs
<1> QED
  BY <1>1, <1>7, <1>8, <1>9 DEF PipeQueue!Put, Appended

\* A byte taken by piperead is the first of the queue.
LEMMA ReadByteDequeues ==
    ASSUME PipeInv, NEW p \in PipeProcs, ReadByte(p)
    PROVE  PipeQueue!Get
<1>1. /\ PipeType /\ InPipe \in Nat \ {0} /\ nread # nwrite
      /\ nread' = Succ(PipeMod, nread) /\ nwrite' = nwrite /\ data' = data
      /\ taken' = data[nread % PIPESIZE]
  BY PipeGap, PipeConstants DEF PipeInv, ReadByte, Succ, Empty
<1>2. /\ nread \in 0 .. (PipeMod - 1) /\ nwrite \in 0 .. (PipeMod - 1)
      /\ data \in [0 .. (PIPESIZE - 1) -> Bytes] /\ InPipe = Gap(PipeMod, nread, nwrite)
  BY <1>1, PipeGap DEF PipeType, PipeIndices, PipeSlots
<1>3. InPipe' = InPipe - 1
  <2>1. Gap(PipeMod, Succ(PipeMod, nread), nwrite) = Gap(PipeMod, nread, nwrite) - 1
    BY <1>1, <1>2, PipeConstants, GapMoves
  <2>2. InPipe' = Gap(PipeMod, Succ(PipeMod, nread), nwrite)
    BY <1>1 DEF InPipe, Gap
  <2> QED
    BY <1>2, <2>1, <2>2
<1>4. FirstTaken(Content(data, PIPESIZE, Succ(PipeMod, nread), InPipe - 1), Content(data, PIPESIZE, nread, InPipe),
                 data[nread % PIPESIZE])
  <2>1. /\ PIPESIZE \in Nat /\ PIPESIZE > 0 /\ PipeMod \in Nat /\ PipeMod % PIPESIZE = 0
        /\ nread \in 0 .. (PipeMod - 1) /\ InPipe \in Nat \ {0} /\ InPipe <= PIPESIZE
    BY <1>1, <1>2, PipeConstants DEF PipeInv
  <2> QED
    BY <2>1, ContentGet
<1>5. /\ Queued = Content(data, PIPESIZE, nread, InPipe)
      /\ Queued' = Content(data, PIPESIZE, Succ(PipeMod, nread), InPipe - 1)
  <2>1. Queued' = Content(data', PIPESIZE, nread', InPipe')
    BY DEF Queued, Content, InPipe
  <2> QED
    BY <1>1, <1>3, <2>1, QueuedIs
<1> QED
  BY <1>1, <1>4, <1>5 DEF PipeQueue!Get, FirstTaken

\* Every other step leaves the ring alone.
LEMMA OtherPipeSteps ==
    ASSUME PipeNext, ~\E p \in PipeProcs : ReadByte(p) \/ \E c \in Bytes : WriteByte(p, c)
    PROVE  UNCHANGED <<data, nread, nwrite, taken>>
<1>1. ASSUME NEW p \in PipeProcs, PipeStep(p) PROVE UNCHANGED <<data, nread, nwrite, taken>>
  BY <1>1 DEF PipeStep, WriteDone, WriteFails, WriteWaits, ReadWaits, ReadFails, ReadStarts, ReadDone,
              PipeSleep, CloseEnd, PipeClose, ringVars
<1>2. ASSUME NEW p \in PipeProcs, KillProc(p) PROVE UNCHANGED <<data, nread, nwrite, taken>>
  BY <1>2 DEF KillProc, ringVars
<1>3. ASSUME NEW p \in PipeProcs, NEW n \in Requests, PipeCall(p, n) PROVE UNCHANGED <<data, nread, nwrite, taken>>
  BY <1>3 DEF PipeCall, ringVars
<1> QED
  BY <1>1, <1>2, <1>3 DEF PipeNext

\* A pipe is a first-in first-out queue of at most PIPESIZE bytes, for any
\* number of readers and writers and wherever nread and nwrite wrap.
THEOREM PipeIsAQueue == PipeSpec => PipeIsQueue
<1>1. PipeInit => PipeQueue!QueueInit
  <2> SUFFICES ASSUME PipeInit PROVE PipeQueue!QueueInit
    OBVIOUS
  <2>1. PipeInv
    BY PipeInitHolds
  <2>2. PipeType /\ InPipe = 0 /\ taken \in Bytes
    <3>1. Empty
      BY DEF PipeInit, Empty
    <3> QED
      BY <2>1, <3>1, PipeGap DEF PipeInv, PipeType
  <2>3. Queued = [i \in 1 .. 0 |-> data[(nread + i - 1) % PIPESIZE]]
    BY <2>2, QueuedIs DEF Content
  <2>4. Queued = <<>>
    BY <2>3
  <2> QED
    BY <2>2, <2>4 DEF PipeQueue!QueueInit
<1>2. PipeInv /\ [PipeNext]_pipeVars => [PipeQueue!QueueNext]_<<Queued, taken>>
  <2> SUFFICES ASSUME PipeInv, [PipeNext]_pipeVars PROVE [PipeQueue!QueueNext]_<<Queued, taken>>
    OBVIOUS
  <2>1. ASSUME NEW p \in PipeProcs, NEW c \in Bytes, WriteByte(p, c) PROVE PipeQueue!QueueNext
    BY <2>1, WriteByteQueues DEF PipeQueue!QueueNext
  <2>2. ASSUME NEW p \in PipeProcs, ReadByte(p) PROVE PipeQueue!QueueNext
    BY <2>2, ReadByteDequeues DEF PipeQueue!QueueNext
  <2>3. ASSUME UNCHANGED <<data, nread, nwrite, taken>> PROVE UNCHANGED <<Queued, taken>>
    BY <2>3 DEF Queued
  <2>4. CASE UNCHANGED pipeVars
    BY <2>3, <2>4 DEF pipeVars, ringVars
  <2>5. CASE PipeNext /\ ~\E p \in PipeProcs : ReadByte(p) \/ \E c \in Bytes : WriteByte(p, c)
    BY <2>3, <2>5, OtherPipeSteps
  <2> QED
    BY <2>1, <2>2, <2>4, <2>5
<1>3. PipeSpec => []PipeInv
  BY PipeInvariant
<1> QED
  BY <1>1, <1>2, <1>3, PTL DEF PipeSpec, PipeIsQueue, PipeQueue!QueueSpec

-----------------------------------------------------------------------------
(* The console: sleepers and the transmitter.                                *)

ConsIndices == 0 .. (ConsMod - 1)
ConsRecord == [buf : [0 .. (INPUT_BUF_SIZE - 1) -> LineChars], r : ConsIndices, w : ConsIndices, e : ConsIndices]
TxRecord == [buf : [0 .. (UART_TX_BUF_SIZE - 1) -> OutChars], r : ConsIndices, w : ConsIndices]

ConsType ==
    /\ cons \in ConsRecord /\ got \in LineChars /\ rpc \in [Readers -> {"user", "read", "asleep"}]
    /\ tx \in TxRecord /\ sent \in OutChars /\ wpc \in [Writers -> {"user", "put", "asleep"}]
    /\ rx \in Keys \union {NoChar} /\ thr \in BOOLEAN /\ intr \in BOOLEAN

\* The ended lines and the line that is typed fit the buffer together, and the
\* line that is typed has no end.
ReadyLen == Gap(ConsMod, cons.r, cons.w)
LineLen == Gap(ConsMod, cons.w, cons.e)
LineInv ==
    /\ ReadyLen + LineLen <= INPUT_BUF_SIZE
    /\ \A i \in 0 .. (LineLen - 1) : cons.buf[(cons.w + i) % INPUT_BUF_SIZE] # "nl"

WaitingLen == Gap(ConsMod, tx.r, tx.w)

ConsInv == ConsType /\ LineInv /\ WaitingLen <= UART_TX_BUF_SIZE /\ NoForgottenWork

\* The slots of an index, counted from another one.
LEMMA SlotShift ==
    ASSUME NEW n \in Nat, n > 0, NEW m \in Nat, m % n = 0, NEW a \in 0 .. (m - 1), NEW c \in 0 .. (m - 1), NEW j \in Nat
    PROVE  (c + j) % n = (a + (Gap(m, a, c) + j)) % n
<1>1. Gap(m, a, c) = IF a <= c THEN c - a ELSE c + m - a
  BY GapIs
<1>2. CASE a <= c
  <2>1. a + (Gap(m, a, c) + j) = c + j
    BY <1>1, <1>2
  <2> QED
    BY <2>1
<1>3. CASE ~(a <= c)
  <2>1. a + (Gap(m, a, c) + j) = m + (c + j) /\ c + j \in Nat
    BY <1>1, <1>3
  <2>2. (m + (c + j)) % n = (c + j) % n
    BY <2>1, ModWrap
  <2> QED
    BY <2>1, <2>2
<1> QED
  BY <1>2, <1>3

\* Distances add up.
LEMMA GapAdd ==
    ASSUME NEW m \in Nat, NEW a \in 0 .. (m - 1), NEW b \in 0 .. (m - 1), NEW c \in 0 .. (m - 1),
           Gap(m, a, b) + Gap(m, b, c) < m
    PROVE  Gap(m, a, c) = Gap(m, a, b) + Gap(m, b, c)
<1>1. Gap(m, a, b) = IF a <= b THEN b - a ELSE b + m - a
  BY GapIs
<1>2. Gap(m, b, c) = IF b <= c THEN c - b ELSE c + m - b
  BY GapIs
<1>3. Gap(m, a, c) = IF a <= c THEN c - a ELSE c + m - a
  BY GapIs
<1> QED
  BY <1>1, <1>2, <1>3

\* Going back k places from an index.
LEMMA GapBack ==
    ASSUME NEW m \in Nat, NEW a \in 0 .. (m - 1), NEW c \in 0 .. (m - 1), NEW k \in 0 .. Gap(m, a, c)
    PROVE  Gap(m, k, c) \in 0 .. (m - 1) /\ Gap(m, a, Gap(m, k, c)) = Gap(m, a, c) - k
<1>1. Gap(m, a, c) = (IF a <= c THEN c - a ELSE c + m - a) /\ Gap(m, a, c) \in 0 .. (m - 1)
  BY GapIs
<1>2. k \in 0 .. (m - 1)
  BY <1>1
<1>3. Gap(m, k, c) = (IF k <= c THEN c - k ELSE c + m - k) /\ Gap(m, k, c) \in 0 .. (m - 1)
  BY <1>2, GapIs
<1>4. PICK x \in 0 .. (m - 1) : x = Gap(m, k, c)
  BY <1>3
<1>5. Gap(m, a, x) = IF a <= x THEN x - a ELSE x + m - a
  BY GapIs
<1>6. Gap(m, a, x) = Gap(m, a, c) - k
  BY <1>1, <1>2, <1>3, <1>4, <1>5
<1> QED
  BY <1>3, <1>4, <1>6

\* Wrapping an index at a multiple of n first does not change its slot.
LEMMA ModMod ==
    ASSUME NEW n \in Nat, n > 0, NEW m \in Nat, m > 0, m % n = 0, NEW x \in Nat
    PROVE  (x % m) % n = x % n
<1>1. PICK q \in Nat : m = n * q
  <2>1. m \div n \in Nat /\ m = n * (m \div n) + (m % n)
    BY IndexDivMod
  <2> QED
    BY <2>1
<1>2. PICK p \in Nat, t \in Nat : x = m * p + t /\ t = x % m
  <2>1. x \div m \in Nat /\ x % m \in 0 .. (m - 1) /\ x = m * (x \div m) + (x % m)
    BY IndexDivMod
  <2>2. PICK p \in Nat, t \in Nat : p = x \div m /\ t = x % m
    BY <2>1
  <2>3. x = m * p + t
    BY <2>1, <2>2
  <2> QED
    BY <2>2, <2>3
<1>3. PICK y \in Nat : y = q * p
  OBVIOUS
<1>4. x = n * y + t
  <2>1. n * (q * p) = (n * q) * p
    OBVIOUS
  <2> QED
    BY <1>1, <1>2, <1>3, <2>1
<1>5. (n * y) % n = 0
  OBVIOUS
<1>6. PICK z \in Nat : z = n * y /\ z % n = 0
  BY <1>5
<1>7. (z + t) % n = t % n
  BY <1>6, ModWrap
<1> QED
  BY <1>2, <1>4, <1>6, <1>7

\* What is written elsewhere does not change the content.
Agree(d, e, n, a, k) == \A j \in 0 .. (k - 1) : e[(a + j) % n] = d[(a + j) % n]

\* A ring's content depends only on the slots between its counters.
LEMMA ContentKept ==
    ASSUME NEW n \in Nat, n > 0, NEW a \in Nat, NEW k \in Nat, NEW d, NEW e, Agree(d, e, n, a, k)
    PROVE  Content(e, n, a, k) = Content(d, n, a, k)
<1>1. ASSUME NEW i \in 1 .. k PROVE e[(a + i - 1) % n] = d[(a + i - 1) % n]
  <2>1. PICK j \in 0 .. (k - 1) : j = i - 1 /\ a + i - 1 = a + j
    OBVIOUS
  <2> QED
    BY <2>1 DEF Agree
<1> QED
  BY <1>1 DEF Content

\* The numbers behind the console.
LEMMA ConsConstants ==
    /\ INPUT_BUF_SIZE \in Nat /\ INPUT_BUF_SIZE > 0 /\ UART_TX_BUF_SIZE \in Nat /\ UART_TX_BUF_SIZE > 0
    /\ ConsMod \in Nat /\ ConsMod > INPUT_BUF_SIZE /\ ConsMod > UART_TX_BUF_SIZE /\ ConsMod > 0
    /\ ConsMod % INPUT_BUF_SIZE = 0 /\ ConsMod % UART_TX_BUF_SIZE = 0
    /\ ConsStart \in ConsIndices /\ 0 \in ConsIndices
  BY ConsoleAssumption DEF ConsIndices

\* The two ways to write a distance.
LEMMA MinusIsGap ==
    ASSUME NEW a, NEW b
    PROVE  Minus(a, b) = Gap(ConsMod, b, a) /\ Plus1(a) = Succ(ConsMod, a)
  BY DEF Minus, Gap, Plus1, Succ

\* What waits in a ring of the console.
ConsRing(d, n, a, k) == [i \in 1 .. k |-> d[((a + i - 1) % ConsMod) % n]]

\* The console's view of its ring is the generic content of a ring.
LEMMA ConsContent ==
    ASSUME NEW n \in Nat, n > 0, ConsMod % n = 0, NEW d, NEW a \in ConsIndices, NEW k \in Nat
    PROVE  ConsRing(d, n, a, k) = Content(d, n, a, k)
<1>1. ASSUME NEW i \in 1 .. k PROVE ((a + i - 1) % ConsMod) % n = (a + i - 1) % n
  <2>1. PICK x \in Nat : x = a + i - 1
    BY DEF ConsIndices
  <2>2. (x % ConsMod) % n = x % n
    BY ConsConstants, ModMod
  <2> QED
    BY <2>1, <2>2
<1> QED
  BY <1>1 DEF Content, ConsRing

\* What is inside the two rings of the console.
LEMMA ConsStored ==
    ASSUME ConsType
    PROVE  /\ ReadyLen \in Nat /\ LineLen \in Nat /\ WaitingLen \in Nat
           /\ Stored(cons.r, cons.w) = Content(cons.buf, INPUT_BUF_SIZE, cons.r, ReadyLen)
           /\ Stored(cons.w, cons.e) = Content(cons.buf, INPUT_BUF_SIZE, cons.w, LineLen)
           /\ Waiting = Content(tx.buf, UART_TX_BUF_SIZE, tx.r, WaitingLen)
<1>1. /\ cons.r \in ConsIndices /\ cons.w \in ConsIndices /\ cons.e \in ConsIndices
      /\ tx.r \in ConsIndices /\ tx.w \in ConsIndices
  BY DEF ConsType, ConsRecord, TxRecord
<1>2. ASSUME NEW a \in ConsIndices, NEW c \in ConsIndices PROVE Gap(ConsMod, a, c) \in Nat
  <2>1. Gap(ConsMod, a, c) \in 0 .. (ConsMod - 1)
    BY ConsConstants, GapIs DEF ConsIndices
  <2> QED
    BY <2>1
<1>3. ASSUME NEW a \in ConsIndices, NEW c \in ConsIndices
      PROVE  Stored(a, c) = Content(cons.buf, INPUT_BUF_SIZE, a, Gap(ConsMod, a, c))
  <2>1. PICK k \in Nat : k = Gap(ConsMod, a, c)
    BY <1>2
  <2>2. ConsRing(cons.buf, INPUT_BUF_SIZE, a, k) = Content(cons.buf, INPUT_BUF_SIZE, a, k)
    BY ConsConstants, ConsContent
  <2> QED
    BY <2>1, <2>2, MinusIsGap DEF Stored, ConsRing
<1>4. Waiting = Content(tx.buf, UART_TX_BUF_SIZE, tx.r, WaitingLen)
  <2>1. PICK k \in Nat : k = WaitingLen
    BY <1>1, <1>2 DEF WaitingLen
  <2>2. ConsRing(tx.buf, UART_TX_BUF_SIZE, tx.r, k) = Content(tx.buf, UART_TX_BUF_SIZE, tx.r, k)
    BY <1>1, ConsConstants, ConsContent
  <2> QED
    BY <2>1, <2>2, MinusIsGap DEF Waiting, WaitingLen, ConsRing
<1> QED
  BY <1>1, <1>2, <1>3, <1>4 DEF ReadyLen, LineLen, WaitingLen

\* The console starts in the invariant.
LEMMA ConsInitHolds == ConsInit => ConsInv
<1> SUFFICES ASSUME ConsInit PROVE ConsInv
  OBVIOUS
<1>1. cons \in ConsRecord /\ tx \in TxRecord
  BY ConsConstants DEF ConsInit, ConsRecord, TxRecord, DeadChar, DeadOut, LineChars, OutChars
<1>2. ConsType
  BY <1>1 DEF ConsInit, ConsType, LineChars, OutChars, NoChar
<1>3. ReadyLen = 0 /\ LineLen = 0 /\ WaitingLen = 0
  BY ConsConstants, GapMoves DEF ConsInit, ReadyLen, LineLen, WaitingLen, ConsIndices
<1>4. LineInv /\ WaitingLen <= UART_TX_BUF_SIZE
  BY <1>3, ConsConstants DEF LineInv
<1>5. NoForgottenWork
  BY DEF ConsInit, NoForgottenWork, TxEmpty
<1> QED
  BY <1>2, <1>4, <1>5 DEF ConsInv

-----------------------------------------------------------------------------
(* The console: the ring of input characters.                                *)

\* The slots of the ended lines and of the line that is typed are different.
LEMMA LinesApart ==
    ASSUME ConsType, LineInv, NEW i \in 0 .. (ReadyLen - 1), NEW j \in 0 .. (INPUT_BUF_SIZE - ReadyLen - 1)
    PROVE  (cons.r + i) % INPUT_BUF_SIZE # (cons.w + j) % INPUT_BUF_SIZE
<1>1. cons.r \in 0 .. (ConsMod - 1) /\ cons.w \in 0 .. (ConsMod - 1) /\ ReadyLen \in Nat
  BY ConsStored DEF ConsType, ConsRecord, ConsIndices
<1>2. (cons.w + j) % INPUT_BUF_SIZE = (cons.r + (ReadyLen + j)) % INPUT_BUF_SIZE
  <2>1. j \in Nat /\ ReadyLen = Gap(ConsMod, cons.r, cons.w)
    BY DEF ReadyLen
  <2>2. PICK a \in 0 .. (ConsMod - 1), c \in 0 .. (ConsMod - 1) : a = cons.r /\ c = cons.w
    BY <1>1
  <2>3. (c + j) % INPUT_BUF_SIZE = (a + (Gap(ConsMod, a, c) + j)) % INPUT_BUF_SIZE
    BY <2>1, ConsConstants, SlotShift
  <2> QED
    BY <2>1, <2>2, <2>3
<1>3. PICK k \in 0 .. (INPUT_BUF_SIZE - 1) : k = ReadyLen + j /\ k # i
  BY <1>1, ConsConstants
<1>4. i \in 0 .. (INPUT_BUF_SIZE - 1) /\ cons.r \in Nat
  BY <1>1, ConsConstants
<1>5. (cons.r + i) % INPUT_BUF_SIZE # (cons.r + k) % INPUT_BUF_SIZE
  BY <1>3, <1>4, ConsConstants, ModDistinct
<1> QED
  BY <1>2, <1>3, <1>5

\* The j-th last character of the line.
LEMMA LineSlots ==
    ASSUME ConsType, NEW j \in 0 .. LineLen
    PROVE  /\ Minus(cons.e, j) \in ConsIndices /\ Gap(ConsMod, cons.w, Minus(cons.e, j)) = LineLen - j
           /\ Minus(cons.e, j) % INPUT_BUF_SIZE = (cons.w + (LineLen - j)) % INPUT_BUF_SIZE
<1>1. PICK c \in 0 .. (ConsMod - 1), a \in 0 .. (ConsMod - 1) : c = cons.e /\ a = cons.w
  BY DEF ConsType, ConsRecord, ConsIndices
<1>2. LineLen = Gap(ConsMod, a, c) /\ Minus(cons.e, j) = Gap(ConsMod, j, c) /\ LineLen \in Nat
  BY <1>1, MinusIsGap, ConsStored DEF LineLen
<1>3. Gap(ConsMod, j, c) \in 0 .. (ConsMod - 1) /\ Gap(ConsMod, a, Gap(ConsMod, j, c)) = LineLen - j
  BY <1>2, ConsConstants, GapBack
<1>4. PICK b \in 0 .. (ConsMod - 1) : b = Gap(ConsMod, j, c)
  BY <1>3
<1>5. PICK z \in Nat : z = 0
  OBVIOUS
<1>6. (b + z) % INPUT_BUF_SIZE = (a + (Gap(ConsMod, a, b) + z)) % INPUT_BUF_SIZE
  BY ConsConstants, SlotShift
<1>7. b + z = b /\ Gap(ConsMod, a, b) + z = LineLen - j
  BY <1>2, <1>3, <1>4, <1>5
<1> QED
  BY <1>1, <1>2, <1>3, <1>4, <1>6, <1>7 DEF ConsIndices

\* What erasing k characters leaves of the record.
LEMMA ErasedIs ==
    ASSUME ConsType, NEW k \in 0 .. LineLen
    PROVE  /\ Erased(k) \in ConsRecord /\ Erased(k).r = cons.r /\ Erased(k).w = cons.w
           /\ Erased(k).e = Minus(cons.e, k)
           /\ \A i \in 0 .. (INPUT_BUF_SIZE - 1) :
                 (\A j \in 1 .. k : i # Minus(cons.e, j) % INPUT_BUF_SIZE) => Erased(k).buf[i] = cons.buf[i]
<1>1. PICK b \in [0 .. (INPUT_BUF_SIZE - 1) -> LineChars] :
         /\ b = [i \in DOMAIN cons.buf |->
                   IF \E j \in 1 .. k : i = Minus(cons.e, j) % INPUT_BUF_SIZE THEN DeadChar ELSE cons.buf[i]]
         /\ \A i \in 0 .. (INPUT_BUF_SIZE - 1) :
               (\A j \in 1 .. k : i # Minus(cons.e, j) % INPUT_BUF_SIZE) => b[i] = cons.buf[i]
  <2>1. cons.buf \in [0 .. (INPUT_BUF_SIZE - 1) -> LineChars] /\ DeadChar \in LineChars
    BY DEF ConsType, ConsRecord, DeadChar, LineChars
  <2> DEFINE b == [i \in DOMAIN cons.buf |->
                     IF \E j \in 1 .. k : i = Minus(cons.e, j) % INPUT_BUF_SIZE THEN DeadChar ELSE cons.buf[i]]
  <2>2. DOMAIN cons.buf = 0 .. (INPUT_BUF_SIZE - 1) /\ \A i \in 0 .. (INPUT_BUF_SIZE - 1) : cons.buf[i] \in LineChars
    BY <2>1
  <2>3. b \in [0 .. (INPUT_BUF_SIZE - 1) -> LineChars]
    BY <2>1, <2>2
  <2>4. \A i \in 0 .. (INPUT_BUF_SIZE - 1) :
          (\A j \in 1 .. k : i # Minus(cons.e, j) % INPUT_BUF_SIZE) => b[i] = cons.buf[i]
    BY <2>2
  <2> QED
    BY <2>3, <2>4
<1>2. PICK x \in ConsIndices : x = Minus(cons.e, k)
  BY LineSlots
<1>3. Erased(k) = [cons EXCEPT !.e = x, !.buf = b]
  BY <1>1, <1>2 DEF Erased
<1>4. cons \in ConsRecord
  BY DEF ConsType
<1> QED
  BY <1>1, <1>2, <1>3, <1>4 DEF ConsRecord

\* Erasing leaves the ended lines and the rest of the line alone.
LEMMA ErasedKeeps ==
    ASSUME ConsType, LineInv, NEW k \in 0 .. LineLen
    PROVE  /\ Gap(ConsMod, cons.w, Erased(k).e) = LineLen - k
           /\ \A i \in 0 .. (ReadyLen - 1) :
                 Erased(k).buf[(cons.r + i) % INPUT_BUF_SIZE] = cons.buf[(cons.r + i) % INPUT_BUF_SIZE]
           /\ \A i \in 0 .. (LineLen - k - 1) :
                 Erased(k).buf[(cons.w + i) % INPUT_BUF_SIZE] = cons.buf[(cons.w + i) % INPUT_BUF_SIZE]
<1>1. /\ LineLen \in Nat /\ ReadyLen \in Nat /\ ReadyLen + LineLen <= INPUT_BUF_SIZE
      /\ cons.r \in Nat /\ cons.w \in Nat
  BY ConsStored DEF LineInv, ConsType, ConsRecord, ConsIndices
<1>2. Gap(ConsMod, cons.w, Erased(k).e) = LineLen - k
  BY ErasedIs, LineSlots
<1>3. ASSUME NEW x \in Nat PROVE x % INPUT_BUF_SIZE \in 0 .. (INPUT_BUF_SIZE - 1)
  BY ConsConstants, IndexDivMod
<1>4. ASSUME NEW j \in 1 .. k
      PROVE  Minus(cons.e, j) % INPUT_BUF_SIZE = (cons.w + (LineLen - j)) % INPUT_BUF_SIZE
  <2>1. j \in 0 .. LineLen
    BY <1>1
  <2> QED
    BY <2>1, LineSlots
<1>5. ASSUME NEW i \in 0 .. (ReadyLen - 1)
      PROVE  Erased(k).buf[(cons.r + i) % INPUT_BUF_SIZE] = cons.buf[(cons.r + i) % INPUT_BUF_SIZE]
  <2>1. ASSUME NEW j \in 1 .. k PROVE (cons.r + i) % INPUT_BUF_SIZE # Minus(cons.e, j) % INPUT_BUF_SIZE
    <3>1. PICK y \in 0 .. (INPUT_BUF_SIZE - ReadyLen - 1) : y = LineLen - j
      BY <1>1, ConsConstants
    <3>2. (cons.r + i) % INPUT_BUF_SIZE # (cons.w + y) % INPUT_BUF_SIZE
      BY LinesApart
    <3> QED
      BY <1>4, <3>1, <3>2
  <2>2. PICK y \in 0 .. (INPUT_BUF_SIZE - 1) : y = (cons.r + i) % INPUT_BUF_SIZE
    BY <1>1, <1>3
  <2> QED
    BY <2>1, <2>2, ErasedIs
<1>6. ASSUME NEW i \in 0 .. (LineLen - k - 1)
      PROVE  Erased(k).buf[(cons.w + i) % INPUT_BUF_SIZE] = cons.buf[(cons.w + i) % INPUT_BUF_SIZE]
  <2>1. ASSUME NEW j \in 1 .. k PROVE (cons.w + i) % INPUT_BUF_SIZE # Minus(cons.e, j) % INPUT_BUF_SIZE
    <3>1. PICK y \in 0 .. (INPUT_BUF_SIZE - 1) : y = LineLen - j /\ y # i
      BY <1>1, ConsConstants
    <3>2. i \in 0 .. (INPUT_BUF_SIZE - 1)
      BY <1>1, ConsConstants
    <3>3. (cons.w + i) % INPUT_BUF_SIZE # (cons.w + y) % INPUT_BUF_SIZE
      BY <1>1, <3>1, <3>2, ConsConstants, ModDistinct
    <3> QED
      BY <1>4, <3>1, <3>3
  <2>2. PICK y \in 0 .. (INPUT_BUF_SIZE - 1) : y = (cons.w + i) % INPUT_BUF_SIZE
    BY <1>1, <1>3
  <2> QED
    BY <2>1, <2>2, ErasedIs
<1> QED
  BY <1>2, <1>5, <1>6

\* Control-U erases the whole line: there is no newline in it.
LEMMA KillFromIs ==
    ASSUME ConsType, LineInv
    PROVE  KillFrom = LineLen
<1> DEFINE at(i) == cons.buf[Minus(cons.e, i) % INPUT_BUF_SIZE]
           P(k) == /\ \A i \in 1 .. k : at(i) # "nl"
                   /\ k = LineLen \/ at(k + 1) = "nl"
<1>1. LineLen \in Nat /\ Minus(cons.e, cons.w) = LineLen
  BY ConsStored, MinusIsGap DEF LineLen
<1>2. ASSUME NEW i \in 1 .. LineLen PROVE at(i) # "nl"
  <2>1. i \in 0 .. LineLen
    BY <1>1
  <2>2. PICK y \in 0 .. (LineLen - 1) : y = LineLen - i
    BY <1>1
  <2>3. at(i) = cons.buf[(cons.w + y) % INPUT_BUF_SIZE]
    BY <2>1, <2>2, LineSlots
  <2> QED
    BY <2>3 DEF LineInv
<1>3. KillFrom = CHOOSE k \in 0 .. LineLen : P(k)
  BY <1>1 DEF KillFrom
<1>4. LineLen \in 0 .. LineLen /\ P(LineLen)
  BY <1>1, <1>2
<1>5. ASSUME NEW k \in 0 .. LineLen, P(k) PROVE k = LineLen
  <2>1. CASE k # LineLen
    <3>1. k + 1 \in 1 .. LineLen
      BY <1>1, <2>1
    <3> QED
      BY <1>2, <1>5, <2>1, <3>1
  <2> QED
    BY <2>1
<1> HIDE DEF P
<1> QED
  BY <1>3, <1>4, <1>5

\* What storing a character makes of the record.
LEMMA StoreIs ==
    ASSUME ConsType, LineInv, HasRoom, NEW c \in LineChars
    PROVE  /\ Store(c) \in ConsRecord /\ Store(c).r = cons.r /\ Store(c).e = Succ(ConsMod, cons.e)
           /\ Store(c).w = IF c \in {"nl", "D"} \/ ReadyLen + LineLen + 1 = INPUT_BUF_SIZE
                           THEN Succ(ConsMod, cons.e) ELSE cons.w
           /\ Store(c).buf[cons.e % INPUT_BUF_SIZE] = c
           /\ \A i \in 0 .. (INPUT_BUF_SIZE - 1) : i # cons.e % INPUT_BUF_SIZE => Store(c).buf[i] = cons.buf[i]
           /\ ReadyLen + LineLen < INPUT_BUF_SIZE
           /\ Gap(ConsMod, cons.r, Succ(ConsMod, cons.e)) = ReadyLen + LineLen + 1
           /\ Gap(ConsMod, cons.w, Succ(ConsMod, cons.e)) = LineLen + 1
           /\ cons.e % INPUT_BUF_SIZE = (cons.w + LineLen) % INPUT_BUF_SIZE
<1>1. PICK r \in 0 .. (ConsMod - 1), w \in 0 .. (ConsMod - 1), e \in 0 .. (ConsMod - 1),
           b \in [0 .. (INPUT_BUF_SIZE - 1) -> LineChars] :
         r = cons.r /\ w = cons.w /\ e = cons.e /\ b = cons.buf
  BY DEF ConsType, ConsRecord, ConsIndices
<1>2. /\ ReadyLen = Gap(ConsMod, r, w) /\ LineLen = Gap(ConsMod, w, e) /\ ReadyLen \in Nat /\ LineLen \in Nat
      /\ ReadyLen + LineLen <= INPUT_BUF_SIZE
  BY <1>1, ConsStored DEF ReadyLen, LineLen, LineInv
<1>3. Gap(ConsMod, r, e) = ReadyLen + LineLen
  <2>1. Gap(ConsMod, r, w) + Gap(ConsMod, w, e) < ConsMod
    BY <1>2, ConsConstants
  <2> QED
    BY <1>2, <2>1, ConsConstants, GapAdd
<1>4. ReadyLen + LineLen < INPUT_BUF_SIZE
  BY <1>1, <1>2, <1>3, MinusIsGap, ConsConstants DEF HasRoom
<1>5. PICK f \in 0 .. (ConsMod - 1) : f = Succ(ConsMod, e)
  BY ConsConstants, SuccIs
<1>6. Gap(ConsMod, r, f) = ReadyLen + LineLen + 1 /\ Gap(ConsMod, w, f) = LineLen + 1
  <2>1. Gap(ConsMod, r, e) + 1 < ConsMod /\ Gap(ConsMod, w, e) + 1 < ConsMod
    <3>1. PICK x \in Nat, y \in Nat : x = ReadyLen /\ y = LineLen
      BY <1>2
    <3>2. INPUT_BUF_SIZE \in Nat /\ ConsMod \in Nat /\ INPUT_BUF_SIZE < ConsMod
      BY ConsConstants
    <3>3. x + y < INPUT_BUF_SIZE /\ Gap(ConsMod, r, e) = x + y /\ Gap(ConsMod, w, e) = y
      BY <1>2, <1>3, <1>4, <3>1
    <3> QED
      BY <3>2, <3>3
  <2>2. Gap(ConsMod, r, f) = Gap(ConsMod, r, e) + 1
    BY <1>5, <2>1, ConsConstants, GapMoves
  <2>3. Gap(ConsMod, w, f) = Gap(ConsMod, w, e) + 1
    BY <1>5, <2>1, ConsConstants, GapMoves
  <2> QED
    BY <1>2, <1>3, <2>2, <2>3
<1>7. PICK s \in 0 .. (INPUT_BUF_SIZE - 1) : s = e % INPUT_BUF_SIZE
  BY ConsConstants, IndexDivMod
<1>8. PICK d \in [0 .. (INPUT_BUF_SIZE - 1) -> LineChars] :
         d = [b EXCEPT ![s] = c] /\ d[s] = c /\ \A i \in 0 .. (INPUT_BUF_SIZE - 1) : i # s => d[i] = b[i]
  <2>1. /\ [b EXCEPT ![s] = c] \in [0 .. (INPUT_BUF_SIZE - 1) -> LineChars] /\ [b EXCEPT ![s] = c][s] = c
        /\ \A i \in 0 .. (INPUT_BUF_SIZE - 1) : i # s => [b EXCEPT ![s] = c][i] = b[i]
    OBVIOUS
  <2> QED
    BY <2>1
<1>9. PICK next \in ConsRecord : next = [cons EXCEPT !.buf[cons.e % INPUT_BUF_SIZE] = c, !.e = Plus1(@)]
  <2>1. [cons EXCEPT !.buf[cons.e % INPUT_BUF_SIZE] = c, !.e = Plus1(@)] = [cons EXCEPT !.buf = d, !.e = f]
    BY <1>1, <1>5, <1>7, <1>8, MinusIsGap
  <2>2. cons \in ConsRecord
    BY DEF ConsType
  <2> QED
    BY <1>5, <1>8, <2>1, <2>2 DEF ConsRecord, ConsIndices
<1>10. next.r = r /\ next.w = w /\ next.e = f /\ next.buf = d
  <2>1. cons \in ConsRecord
    BY DEF ConsType
  <2> QED
    BY <1>1, <1>5, <1>7, <1>8, <1>9, <2>1, MinusIsGap DEF ConsRecord
<1>11. Store(c) = IF c \in {"nl", "D"} \/ ReadyLen + LineLen + 1 = INPUT_BUF_SIZE
                  THEN [next EXCEPT !.w = f] ELSE next
  <2>1. Minus(next.e, next.r) = ReadyLen + LineLen + 1
    BY <1>6, <1>10, MinusIsGap
  <2>2. Store(c) = IF c \in {"nl", "D"} \/ Minus(next.e, next.r) = INPUT_BUF_SIZE
                   THEN [next EXCEPT !.w = next.e] ELSE next
    BY <1>9 DEF Store
  <2> QED
    BY <1>10, <2>1, <2>2
<1>12. /\ Store(c) \in ConsRecord /\ Store(c).r = r /\ Store(c).e = f /\ Store(c).buf = d
       /\ Store(c).w = IF c \in {"nl", "D"} \/ ReadyLen + LineLen + 1 = INPUT_BUF_SIZE THEN f ELSE w
  <2>1. [next EXCEPT !.w = f] \in ConsRecord /\ [next EXCEPT !.w = f].r = r /\ [next EXCEPT !.w = f].e = f
        /\ [next EXCEPT !.w = f].buf = d /\ [next EXCEPT !.w = f].w = f
    BY <1>5, <1>9, <1>10 DEF ConsRecord, ConsIndices
  <2>2. CASE c \in {"nl", "D"} \/ ReadyLen + LineLen + 1 = INPUT_BUF_SIZE
    BY <1>11, <2>1, <2>2
  <2>3. CASE ~(c \in {"nl", "D"} \/ ReadyLen + LineLen + 1 = INPUT_BUF_SIZE)
    BY <1>10, <1>11, <2>3
  <2> QED
    BY <2>2, <2>3
<1>13. e % INPUT_BUF_SIZE = (w + LineLen) % INPUT_BUF_SIZE
  <2>1. PICK z \in Nat : z = 0
    OBVIOUS
  <2>2. (e + z) % INPUT_BUF_SIZE = (w + (Gap(ConsMod, w, e) + z)) % INPUT_BUF_SIZE
    BY ConsConstants, SlotShift
  <2>3. e + z = e /\ Gap(ConsMod, w, e) + z = LineLen
    BY <1>2, <2>1
  <2> QED
    BY <2>2, <2>3
<1> QED
  BY <1>1, <1>4, <1>5, <1>6, <1>7, <1>8, <1>12, <1>13

\* Two adjacent pieces of a ring.
Joined(t, s, u) == t = s \o u

\* Two adjacent stretches of a ring concatenate to the whole stretch.
LEMMA ContentJoin ==
    ASSUME NEW n \in Nat, n > 0, NEW m \in Nat, m % n = 0, NEW a \in 0 .. (m - 1), NEW c \in 0 .. (m - 1),
           NEW k \in Nat, NEW d
    PROVE  Joined(Content(d, n, a, Gap(m, a, c) + k), Content(d, n, a, Gap(m, a, c)), Content(d, n, c, k))
<1> DEFINE B == {d[i] : i \in 0 .. (n - 1)}
<1>1. PICK g \in Nat : g = Gap(m, a, c)
  BY GapIs
<1>2. ASSUME NEW b \in Nat, NEW i \in Nat \ {0} PROVE d[(b + i - 1) % n] \in B
  <2>1. PICK z \in Nat : z = b + i - 1
    OBVIOUS
  <2>2. z % n \in 0 .. (n - 1)
    BY IndexDivMod
  <2> QED
    BY <2>1, <2>2
<1>3. ASSUME NEW b \in Nat, NEW j \in Nat PROVE Content(d, n, b, j) \in Seq(B) /\ Len(Content(d, n, b, j)) = j
  <2>1. ASSUME NEW i \in 1 .. j PROVE d[(b + i - 1) % n] \in B
    BY <1>2
  <2> QED
    BY <2>1 DEF Content
<1>4. PICK t \in Seq(B), s \in Seq(B), u \in Seq(B) :
        /\ t = Content(d, n, a, g + k) /\ s = Content(d, n, a, g) /\ u = Content(d, n, c, k)
        /\ Len(t) = g + k /\ Len(s) = g /\ Len(u) = k
  <2>1. a \in Nat /\ c \in Nat /\ g + k \in Nat
    OBVIOUS
  <2>2. Content(d, n, a, g + k) \in Seq(B) /\ Len(Content(d, n, a, g + k)) = g + k
    BY <1>3, <2>1
  <2>3. Content(d, n, a, g) \in Seq(B) /\ Len(Content(d, n, a, g)) = g
    BY <1>3, <2>1
  <2>4. Content(d, n, c, k) \in Seq(B) /\ Len(Content(d, n, c, k)) = k
    BY <1>3, <2>1
  <2> HIDE DEF B
  <2> QED
    BY <2>2, <2>3, <2>4
<1>5. ASSUME NEW i \in 1 .. g PROVE t[i] = s[i]
  BY <1>4, <1>5 DEF Content
<1>6. ASSUME NEW i \in 1 .. k PROVE t[g + i] = u[i]
  <2>1. PICK j \in Nat : j = i - 1
    OBVIOUS
  <2>2. (c + j) % n = (a + (Gap(m, a, c) + j)) % n
    BY SlotShift
  <2>3. c + i - 1 = c + j /\ a + (g + i) - 1 = a + (g + j) /\ g + i \in 1 .. (g + k)
    BY <2>1
  <2>4. t[g + i] = d[(a + (g + i) - 1) % n]
    BY <1>4, <2>3 DEF Content
  <2>5. u[i] = d[(c + i - 1) % n]
    BY <1>4 DEF Content
  <2> QED
    BY <1>1, <2>2, <2>3, <2>4, <2>5
<1> HIDE DEF B
<1>7. t = s \o u
  <2>1. s \o u \in Seq(B) /\ Len(s \o u) = g + k
    <3>1. s \in Seq(B) /\ u \in Seq(B) /\ Len(s) = g /\ Len(u) = k
      BY <1>4
    <3> QED
      BY <3>1, ConcatProperties
  <2>2. ASSUME NEW i \in 1 .. Len(t) PROVE t[i] = (s \o u)[i]
    <3>1. CASE i <= g
      BY <1>4, <1>5, <3>1
    <3>2. CASE ~(i <= g)
      <4>1. PICK j \in 1 .. k : i = g + j
        BY <1>4, <3>2
      <4>2. (s \o u)[i] = u[j]
        BY <1>4, <4>1
      <4> QED
        BY <1>6, <4>1, <4>2
    <3> QED
      BY <3>1, <3>2
  <2>3. PICK v \in Seq(B) : v = s \o u
    BY <2>1
  <2>4. Len(t) = Len(v) /\ \A i \in 1 .. Len(t) : t[i] = v[i]
    BY <1>4, <2>1, <2>2, <2>3
  <2>5. t = v
    BY <2>4, SeqEqual
  <2> QED
    BY <2>3, <2>5
<1> QED
  BY <1>1, <1>4, <1>7 DEF Joined

\* What is stored after a step.
LEMMA StoredAfter ==
    ASSUME NEW x \in ConsRecord, cons' = x
    PROVE  /\ Stored(cons.r, cons.w)' = Content(x.buf, INPUT_BUF_SIZE, x.r, Gap(ConsMod, x.r, x.w))
           /\ Stored(cons.w, cons.e)' = Content(x.buf, INPUT_BUF_SIZE, x.w, Gap(ConsMod, x.w, x.e))
           /\ ReadyLen' = Gap(ConsMod, x.r, x.w) /\ LineLen' = Gap(ConsMod, x.w, x.e)
<1>1. x.r \in ConsIndices /\ x.w \in ConsIndices /\ x.e \in ConsIndices
  BY DEF ConsRecord
<1>2. ASSUME NEW a \in ConsIndices, NEW c \in ConsIndices
      PROVE  ConsRing(x.buf, INPUT_BUF_SIZE, a, Gap(ConsMod, a, c)) = Content(x.buf, INPUT_BUF_SIZE, a, Gap(ConsMod, a, c))
  <2>1. PICK k \in Nat : k = Gap(ConsMod, a, c)
    <3>1. Gap(ConsMod, a, c) \in 0 .. (ConsMod - 1)
      BY ConsConstants, GapIs DEF ConsIndices
    <3> QED
      BY <3>1
  <2>2. ConsRing(x.buf, INPUT_BUF_SIZE, a, k) = Content(x.buf, INPUT_BUF_SIZE, a, k)
    BY ConsConstants, ConsContent
  <2> QED
    BY <2>1, <2>2
<1>3. Stored(cons.r, cons.w)' = ConsRing(x.buf, INPUT_BUF_SIZE, x.r, Gap(ConsMod, x.r, x.w))
  BY DEF Stored, ConsRing, Minus, Gap
<1>4. Stored(cons.w, cons.e)' = ConsRing(x.buf, INPUT_BUF_SIZE, x.w, Gap(ConsMod, x.w, x.e))
  BY DEF Stored, ConsRing, Minus, Gap
<1> QED
  BY <1>1, <1>2, <1>3, <1>4 DEF ReadyLen, LineLen

\* Control-U.
LEMMA EraseLineMoves ==
    ASSUME ConsType, LineInv, cons' = Erased(LineLen), got' = got
    PROVE  cons' \in ConsRecord /\ LineInv' /\ cons'.w = cons.w /\ cons'.r = cons.r /\ ConsoleInput!EraseLine
<1>1. LineLen \in 0 .. LineLen /\ LineLen \in Nat /\ ReadyLen \in Nat /\ ReadyLen <= INPUT_BUF_SIZE
  BY ConsStored, ConsConstants DEF LineInv
<1>2. PICK x \in ConsRecord : x = cons' /\ x = Erased(LineLen)
  BY <1>1, ErasedIs
<1>3. x.r = cons.r /\ x.w = cons.w /\ Gap(ConsMod, x.w, x.e) = 0
  BY <1>1, <1>2, ErasedIs, ErasedKeeps
<1>4. Content(x.buf, INPUT_BUF_SIZE, x.r, ReadyLen) = Content(cons.buf, INPUT_BUF_SIZE, cons.r, ReadyLen)
  <2>1. \A i \in 0 .. (ReadyLen - 1) : x.buf[(cons.r + i) % INPUT_BUF_SIZE] = cons.buf[(cons.r + i) % INPUT_BUF_SIZE]
    BY <1>1, <1>2, ErasedKeeps
  <2>2. cons.r \in Nat
    BY DEF ConsType, ConsRecord, ConsIndices
  <2>3. PICK r \in Nat, k \in Nat : r = cons.r /\ k = ReadyLen
    BY <1>1, <2>2
  <2>4. PICK d, e : d = cons.buf /\ e = x.buf
    OBVIOUS
  <2>5. Content(e, INPUT_BUF_SIZE, r, k) = Content(d, INPUT_BUF_SIZE, r, k)
    <3>1. Agree(d, e, INPUT_BUF_SIZE, r, k)
      BY <2>1, <2>3, <2>4 DEF Agree
    <3> QED
      BY <3>1, ConsConstants, ContentKept
  <2> QED
    BY <1>3, <2>3, <2>4, <2>5
<1>5. /\ Stored(cons.r, cons.w)' = Stored(cons.r, cons.w)
      /\ Stored(cons.w, cons.e)' = Content(x.buf, INPUT_BUF_SIZE, x.w, 0)
      /\ ReadyLen' = ReadyLen /\ LineLen' = 0
  BY <1>2, <1>3, <1>4, StoredAfter, ConsStored DEF ReadyLen
<1>6. Content(x.buf, INPUT_BUF_SIZE, x.w, 0) = <<>>
  BY DEF Content
<1>7. LineInv'
  BY <1>1, <1>5 DEF LineInv
<1> QED
  BY <1>2, <1>3, <1>5, <1>6, <1>7 DEF ConsoleInput!EraseLine

\* Backspace.
LEMMA EraseMoves ==
    ASSUME ConsType, LineInv, LineLen > 0, cons' = Erased(1), got' = got
    PROVE  cons' \in ConsRecord /\ LineInv' /\ cons'.w = cons.w /\ cons'.r = cons.r /\ ConsoleInput!Erase
<1>1. /\ 1 \in 0 .. LineLen /\ LineLen \in Nat /\ ReadyLen \in Nat /\ ReadyLen + LineLen <= INPUT_BUF_SIZE
      /\ cons.r \in Nat /\ cons.w \in Nat /\ LineLen - 1 \in Nat
  BY ConsStored, ConsConstants DEF LineInv, ConsType, ConsRecord, ConsIndices
<1>2. PICK x \in ConsRecord : x = cons' /\ x = Erased(1)
  BY <1>1, ErasedIs
<1>3. x.r = cons.r /\ x.w = cons.w /\ Gap(ConsMod, x.w, x.e) = LineLen - 1
  BY <1>1, <1>2, ErasedIs, ErasedKeeps
<1>a. /\ \A i \in 0 .. (ReadyLen - 1) : x.buf[(cons.r + i) % INPUT_BUF_SIZE] = cons.buf[(cons.r + i) % INPUT_BUF_SIZE]
      /\ \A i \in 0 .. (LineLen - 1 - 1) : x.buf[(cons.w + i) % INPUT_BUF_SIZE] = cons.buf[(cons.w + i) % INPUT_BUF_SIZE]
  BY <1>1, <1>2, ErasedKeeps
<1>4. Content(x.buf, INPUT_BUF_SIZE, x.r, ReadyLen) = Content(cons.buf, INPUT_BUF_SIZE, cons.r, ReadyLen)
  <2>1. PICK r \in Nat, k \in Nat : r = cons.r /\ k = ReadyLen
    BY <1>1
  <2>2. PICK d, e : d = cons.buf /\ e = x.buf
    OBVIOUS
  <2>3. Content(e, INPUT_BUF_SIZE, r, k) = Content(d, INPUT_BUF_SIZE, r, k)
    <3>1. Agree(d, e, INPUT_BUF_SIZE, r, k)
      BY <1>a, <2>1, <2>2 DEF Agree
    <3> QED
      BY <3>1, ConsConstants, ContentKept
  <2> QED
    BY <1>3, <2>1, <2>2, <2>3
<1>5. Content(x.buf, INPUT_BUF_SIZE, x.w, LineLen - 1) = Content(cons.buf, INPUT_BUF_SIZE, cons.w, LineLen - 1)
  <2>1. PICK w \in Nat, k \in Nat : w = cons.w /\ k = LineLen - 1
    BY <1>1
  <2>2. PICK d, e : d = cons.buf /\ e = x.buf
    OBVIOUS
  <2>3. Content(e, INPUT_BUF_SIZE, w, k) = Content(d, INPUT_BUF_SIZE, w, k)
    <3>1. Agree(d, e, INPUT_BUF_SIZE, w, k)
      BY <1>a, <2>1, <2>2 DEF Agree
    <3> QED
      BY <3>1, ConsConstants, ContentKept
  <2> QED
    BY <1>3, <2>1, <2>2, <2>3
<1>6. /\ Stored(cons.r, cons.w)' = Stored(cons.r, cons.w)
      /\ Stored(cons.w, cons.e)' = Content(cons.buf, INPUT_BUF_SIZE, cons.w, LineLen - 1)
      /\ Stored(cons.w, cons.e) = Content(cons.buf, INPUT_BUF_SIZE, cons.w, LineLen)
      /\ ReadyLen' = ReadyLen /\ LineLen' = LineLen - 1
  BY <1>2, <1>3, <1>4, <1>5, StoredAfter, ConsStored DEF ReadyLen
<1>7. LineInv'
  <2>1. ASSUME NEW i \in 0 .. (LineLen - 1 - 1) PROVE x.buf[(x.w + i) % INPUT_BUF_SIZE] # "nl"
    <3>1. i \in 0 .. (LineLen - 1)
      BY <1>1
    <3> QED
      BY <1>3, <1>a, <3>1 DEF LineInv
  <2>2. ReadyLen' + LineLen' <= INPUT_BUF_SIZE
    BY <1>1, <1>6, ConsConstants
  <2>3. \A i \in 0 .. (LineLen' - 1) : cons'.buf[(cons'.w + i) % INPUT_BUF_SIZE] # "nl"
    BY <1>2, <1>6, <2>1
  <2> QED
    BY <2>2, <2>3 DEF LineInv
<1>8. PICK k \in Nat \ {0} : k = LineLen
  BY <1>1
<1>b. PICK d, n, w : d = cons.buf /\ n = INPUT_BUF_SIZE /\ w = cons.w
  OBVIOUS
<1>9. Content(d, n, w, k) # <<>> /\ Content(d, n, w, k - 1) = SubSeq(Content(d, n, w, k), 1, Len(Content(d, n, w, k)) - 1)
  BY DEF Content
<1> QED
  BY <1>2, <1>3, <1>6, <1>7, <1>8, <1>b, <1>9 DEF ConsoleInput!Erase, ConsoleInput!Front

\* An ordinary character or the end of a line.
LEMMA TypeMoves ==
    ASSUME ConsType, LineInv, HasRoom, NEW c \in LineChars, cons' = Store(c), got' = got
    PROVE  cons' \in ConsRecord /\ LineInv' /\ cons'.r = cons.r /\ ConsoleInput!Type(c)
<1>1. PICK r \in 0 .. (ConsMod - 1), w \in 0 .. (ConsMod - 1), e \in 0 .. (ConsMod - 1), f \in 0 .. (ConsMod - 1) :
         r = cons.r /\ w = cons.w /\ e = cons.e /\ f = Succ(ConsMod, cons.e)
  <2>1. cons.r \in 0 .. (ConsMod - 1) /\ cons.w \in 0 .. (ConsMod - 1) /\ cons.e \in 0 .. (ConsMod - 1)
    BY DEF ConsType, ConsRecord, ConsIndices
  <2> QED
    BY <2>1, ConsConstants, SuccIs
<1>2. PICK g \in Nat, h \in Nat : g = ReadyLen /\ h = LineLen /\ g = Gap(ConsMod, r, w) /\ h = Gap(ConsMod, w, e)
  BY <1>1, ConsStored DEF ReadyLen, LineLen
<1>3. PICK b, d : b = cons.buf /\ d = cons'.buf
  OBVIOUS
<1>4. PICK x \in ConsRecord : x = cons'
  BY StoreIs
<1>5. /\ x.r = r /\ x.e = f /\ x.buf = d /\ g + h < INPUT_BUF_SIZE
      /\ x.w = IF c \in {"nl", "D"} \/ g + h + 1 = INPUT_BUF_SIZE THEN f ELSE w
      /\ d[e % INPUT_BUF_SIZE] = c
      /\ \A i \in 0 .. (INPUT_BUF_SIZE - 1) : i # e % INPUT_BUF_SIZE => d[i] = b[i]
      /\ Gap(ConsMod, r, f) = g + h + 1 /\ Gap(ConsMod, w, f) = h + 1
      /\ e % INPUT_BUF_SIZE = (w + h) % INPUT_BUF_SIZE
  BY <1>1, <1>2, <1>3, <1>4, StoreIs
<1>6. Appended(Content(d, INPUT_BUF_SIZE, w, h + 1), Content(b, INPUT_BUF_SIZE, w, h), c)
  <2>1. w \in Nat /\ e \in Nat /\ h < INPUT_BUF_SIZE
    BY <1>5, ConsConstants
  <2> QED
    BY <1>5, <2>1, ConsConstants, ContentPut
<1>7. Content(d, INPUT_BUF_SIZE, r, g) = Content(b, INPUT_BUF_SIZE, r, g)
  <2>1. ASSUME NEW j \in 0 .. (g - 1) PROVE d[(r + j) % INPUT_BUF_SIZE] = b[(r + j) % INPUT_BUF_SIZE]
    <3>1. h \in 0 .. (INPUT_BUF_SIZE - g - 1)
      BY <1>5, ConsConstants
    <3>2. (r + j) % INPUT_BUF_SIZE # (w + h) % INPUT_BUF_SIZE
      BY <1>1, <1>2, <3>1, LinesApart
    <3>3. (r + j) % INPUT_BUF_SIZE \in 0 .. (INPUT_BUF_SIZE - 1)
      <4>1. r + j \in Nat
        OBVIOUS
      <4> QED
        BY <4>1, ConsConstants, IndexDivMod
    <3> QED
      BY <1>5, <3>2, <3>3
  <2>2. Agree(b, d, INPUT_BUF_SIZE, r, g) /\ r \in Nat
    BY <2>1 DEF Agree
  <2> QED
    BY <2>2, ConsConstants, ContentKept
<1>8. /\ Stored(cons.r, cons.w) = Content(b, INPUT_BUF_SIZE, r, g)
      /\ Stored(cons.w, cons.e) = Content(b, INPUT_BUF_SIZE, w, h)
      /\ Stored(cons.r, cons.w)' = Content(d, INPUT_BUF_SIZE, r, Gap(ConsMod, r, x.w))
      /\ Stored(cons.w, cons.e)' = Content(d, INPUT_BUF_SIZE, x.w, Gap(ConsMod, x.w, f))
      /\ ReadyLen' = Gap(ConsMod, r, x.w) /\ LineLen' = Gap(ConsMod, x.w, f)
  BY <1>1, <1>2, <1>3, <1>4, <1>5, ConsStored, StoredAfter
<1>9. Len(Content(b, INPUT_BUF_SIZE, r, g)) = g /\ Len(Content(b, INPUT_BUF_SIZE, w, h)) = h
      /\ Len(Content(d, INPUT_BUF_SIZE, w, h + 1)) = h + 1
  BY ContentLen
<1>10. CASE c \in {"nl", "D"} \/ g + h + 1 = INPUT_BUF_SIZE
  <2>1. x.w = f
    BY <1>5, <1>10
  <2>2. Gap(ConsMod, f, f) = 0
    BY ConsConstants, GapMoves
  <2>3. Content(d, INPUT_BUF_SIZE, f, 0) = <<>>
    BY DEF Content
  <2>4. Joined(Content(d, INPUT_BUF_SIZE, r, g + (h + 1)), Content(d, INPUT_BUF_SIZE, r, g), Content(d, INPUT_BUF_SIZE, w, h + 1))
    <3>1. Joined(Content(d, INPUT_BUF_SIZE, r, Gap(ConsMod, r, w) + (h + 1)), Content(d, INPUT_BUF_SIZE, r, Gap(ConsMod, r, w)),
                 Content(d, INPUT_BUF_SIZE, w, h + 1))
      BY ConsConstants, ContentJoin
    <3> QED
      BY <1>2, <3>1
  <2>5. g + h + 1 = g + (h + 1)
    OBVIOUS
  <2>6. /\ Stored(cons.r, cons.w)' = Content(b, INPUT_BUF_SIZE, r, g) \o Append(Content(b, INPUT_BUF_SIZE, w, h), c)
        /\ Stored(cons.w, cons.e)' = <<>>
    BY <1>5, <1>6, <1>7, <1>8, <2>1, <2>2, <2>3, <2>4, <2>5 DEF Joined, Appended
  <2>7. LineInv'
    <3>1. ReadyLen' = g + h + 1 /\ LineLen' = 0
      BY <1>5, <1>8, <2>1, <2>2
    <3> QED
      BY <1>5, <3>1, ConsConstants DEF LineInv
  <2>8. ConsoleInput!Type(c)
    <3>1. Len(Append(Content(b, INPUT_BUF_SIZE, w, h), c)) = h + 1
      BY <1>6, <1>9 DEF Appended
    <3>2. /\ Stored(cons.r, cons.w)' = Stored(cons.r, cons.w) \o Append(Stored(cons.w, cons.e), c)
          /\ Stored(cons.w, cons.e)' = <<>>
          /\ Len(Stored(cons.w, cons.e)) + Len(Stored(cons.r, cons.w)) < INPUT_BUF_SIZE
          /\ c \in {"nl", "D"} \/ Len(Append(Stored(cons.w, cons.e), c)) + Len(Stored(cons.r, cons.w)) = INPUT_BUF_SIZE
      <4>1. /\ Stored(cons.r, cons.w)' = Stored(cons.r, cons.w) \o Append(Stored(cons.w, cons.e), c)
            /\ Stored(cons.w, cons.e)' = <<>>
        BY <1>8, <2>6
      <4>2. Len(Stored(cons.w, cons.e)) = h /\ Len(Stored(cons.r, cons.w)) = g /\ Len(Append(Stored(cons.w, cons.e), c)) = h + 1
        BY <1>8, <1>9, <3>1
      <4>3. h + g < INPUT_BUF_SIZE /\ (c \in {"nl", "D"} \/ h + 1 + g = INPUT_BUF_SIZE)
        <5>1. g + h < INPUT_BUF_SIZE /\ g + h = h + g /\ g + h + 1 = h + 1 + g
          BY <1>5
        <5> QED
          BY <1>10, <5>1
      <4> QED
        BY <4>1, <4>2, <4>3
    <3> QED
      BY <3>2 DEF ConsoleInput!Type
  <2> QED
    BY <1>1, <1>4, <1>5, <2>7, <2>8
<1>11. CASE ~(c \in {"nl", "D"} \/ g + h + 1 = INPUT_BUF_SIZE)
  <2>1. x.w = w
    BY <1>5, <1>11
  <2>6. /\ Stored(cons.r, cons.w)' = Content(b, INPUT_BUF_SIZE, r, g)
        /\ Stored(cons.w, cons.e)' = Append(Content(b, INPUT_BUF_SIZE, w, h), c)
        /\ ReadyLen' = g /\ LineLen' = h + 1
    BY <1>2, <1>5, <1>6, <1>7, <1>8, <2>1 DEF Appended
  <2>7. LineInv'
    <3>1. ReadyLen' + LineLen' <= INPUT_BUF_SIZE
      BY <1>5, <2>6, ConsConstants
    <3>2. ASSUME NEW i \in 0 .. h PROVE d[(w + i) % INPUT_BUF_SIZE] # "nl"
      <4>1. CASE i = h
        BY <1>5, <1>11, <4>1
      <4>2. CASE i # h
        <5>1. i \in 0 .. (h - 1) /\ i \in 0 .. (INPUT_BUF_SIZE - 1) /\ h \in 0 .. (INPUT_BUF_SIZE - 1) /\ w \in Nat /\ w + i \in Nat
          BY <1>5, <4>2, ConsConstants
        <5>2. (w + i) % INPUT_BUF_SIZE # (w + h) % INPUT_BUF_SIZE
          BY <4>2, <5>1, ConsConstants, ModDistinct
        <5>3. (w + i) % INPUT_BUF_SIZE \in 0 .. (INPUT_BUF_SIZE - 1)
          BY <5>1, ConsConstants, IndexDivMod
        <5>4. b[(w + i) % INPUT_BUF_SIZE] # "nl"
          BY <1>1, <1>2, <1>3, <5>1 DEF LineInv
        <5> QED
          BY <1>5, <5>2, <5>3, <5>4
      <4> QED
        BY <4>1, <4>2
    <3>3. \A i \in 0 .. (LineLen' - 1) : cons'.buf[(cons'.w + i) % INPUT_BUF_SIZE] # "nl"
      <4>1. LineLen' - 1 = h
        BY <2>6
      <4> QED
        BY <1>3, <1>4, <2>1, <3>2, <4>1
    <3> QED
      BY <3>1, <3>3 DEF LineInv
  <2>8. ConsoleInput!Type(c)
    <3>1. Len(Append(Content(b, INPUT_BUF_SIZE, w, h), c)) = h + 1
      BY <1>6, <1>9 DEF Appended
    <3>2. ~(c \in {"nl", "D"} \/ Len(Append(Content(b, INPUT_BUF_SIZE, w, h), c)) + Len(Content(b, INPUT_BUF_SIZE, r, g)) = INPUT_BUF_SIZE)
      BY <1>9, <1>11, <3>1
    <3>3. /\ Stored(cons.r, cons.w)' = Stored(cons.r, cons.w)
          /\ Stored(cons.w, cons.e)' = Append(Stored(cons.w, cons.e), c)
          /\ Len(Stored(cons.w, cons.e)) + Len(Stored(cons.r, cons.w)) < INPUT_BUF_SIZE
          /\ ~(c \in {"nl", "D"} \/ Len(Append(Stored(cons.w, cons.e), c)) + Len(Stored(cons.r, cons.w)) = INPUT_BUF_SIZE)
      BY <1>5, <1>8, <1>9, <2>6, <3>2
    <3> QED
      BY <3>3 DEF ConsoleInput!Type
  <2> QED
    BY <1>1, <1>4, <1>5, <2>7, <2>8
<1> QED
  BY <1>10, <1>11

\* consoleread takes the first character of the ended lines.
LEMMA TakeMoves ==
    ASSUME ConsType, LineInv, cons.r # cons.w, got' = cons.buf[cons.r % INPUT_BUF_SIZE],
           cons' = [cons EXCEPT !.r = Plus1(@), !.buf[cons.r % INPUT_BUF_SIZE] = DeadChar]
    PROVE  cons' \in ConsRecord /\ LineInv' /\ got' \in LineChars /\ ConsoleInput!Take
<1>1. PICK r \in 0 .. (ConsMod - 1), w \in 0 .. (ConsMod - 1), e \in 0 .. (ConsMod - 1), f \in 0 .. (ConsMod - 1) :
         r = cons.r /\ w = cons.w /\ e = cons.e /\ f = Succ(ConsMod, r)
  <2>1. cons.r \in 0 .. (ConsMod - 1) /\ cons.w \in 0 .. (ConsMod - 1) /\ cons.e \in 0 .. (ConsMod - 1)
    BY DEF ConsType, ConsRecord, ConsIndices
  <2> QED
    BY <2>1, ConsConstants, SuccIs
<1>2. PICK g \in Nat, h \in Nat :
         /\ g = ReadyLen /\ h = LineLen /\ g = Gap(ConsMod, r, w) /\ h = Gap(ConsMod, w, e)
         /\ g + h <= INPUT_BUF_SIZE
  BY <1>1, ConsStored DEF ReadyLen, LineLen, LineInv
<1>3. PICK b \in [0 .. (INPUT_BUF_SIZE - 1) -> LineChars] : b = cons.buf
  BY DEF ConsType, ConsRecord
<1>4. PICK s \in 0 .. (INPUT_BUF_SIZE - 1) : s = r % INPUT_BUF_SIZE
  BY ConsConstants, IndexDivMod
<1>5. PICK d \in [0 .. (INPUT_BUF_SIZE - 1) -> LineChars] :
         d = [b EXCEPT ![s] = DeadChar] /\ \A i \in 0 .. (INPUT_BUF_SIZE - 1) : i # s => d[i] = b[i]
  <2>1. [b EXCEPT ![s] = DeadChar] \in [0 .. (INPUT_BUF_SIZE - 1) -> LineChars]
        /\ \A i \in 0 .. (INPUT_BUF_SIZE - 1) : i # s => [b EXCEPT ![s] = DeadChar][i] = b[i]
    BY DEF DeadChar, LineChars
  <2> QED
    BY <2>1
<1>6. PICK x \in ConsRecord : x = cons' /\ x.r = f /\ x.w = w /\ x.e = e /\ x.buf = d
  <2>1. cons' = [cons EXCEPT !.r = f, !.buf = d] /\ cons \in ConsRecord
    BY <1>1, <1>3, <1>4, <1>5, MinusIsGap DEF ConsType
  <2> QED
    BY <1>1, <1>5, <2>1 DEF ConsRecord, ConsIndices
<1>7. Gap(ConsMod, f, w) = g - 1 /\ g \in Nat \ {0}
  BY <1>1, <1>2, ConsConstants, GapMoves
<1>8. FirstTaken(Content(d, INPUT_BUF_SIZE, f, g - 1), Content(b, INPUT_BUF_SIZE, r, g), b[s])
  <2>1. g <= INPUT_BUF_SIZE /\ \A i \in 0 .. (INPUT_BUF_SIZE - 1) : i # r % INPUT_BUF_SIZE => d[i] = b[i]
    BY <1>2, <1>4, <1>5, ConsConstants
  <2>2. FirstTaken(Content(d, INPUT_BUF_SIZE, Succ(ConsMod, r), g - 1), Content(b, INPUT_BUF_SIZE, r, g), b[r % INPUT_BUF_SIZE])
    BY <1>7, <2>1, ConsConstants, ContentGet
  <2> QED
    BY <1>1, <1>4, <2>2
<1>a. ASSUME NEW j \in 0 .. (h - 1) PROVE d[(w + j) % INPUT_BUF_SIZE] = b[(w + j) % INPUT_BUF_SIZE]
  <2>1. PICK z \in 0 .. (ReadyLen - 1) : z = 0
    BY <1>2, <1>7
  <2>2. j \in 0 .. (INPUT_BUF_SIZE - ReadyLen - 1)
    <3>1. j \in Nat /\ j + 1 <= h /\ g + h <= INPUT_BUF_SIZE /\ INPUT_BUF_SIZE \in Nat
      BY <1>2, ConsConstants
    <3>2. j \in 0 .. (INPUT_BUF_SIZE - g - 1)
      BY ONLY <3>1, g \in Nat, h \in Nat
    <3> QED
      BY <1>2, <3>2
  <2>3. (cons.r + z) % INPUT_BUF_SIZE # (cons.w + j) % INPUT_BUF_SIZE
    BY <2>2, LinesApart
  <2>4. r + z = r
    BY <2>1
  <2>5. (w + j) % INPUT_BUF_SIZE \in 0 .. (INPUT_BUF_SIZE - 1)
    <3>1. w + j \in Nat
      OBVIOUS
    <3> QED
      BY <3>1, ConsConstants, IndexDivMod
  <2> QED
    BY <1>1, <1>4, <1>5, <2>3, <2>4, <2>5
<1>9. Content(d, INPUT_BUF_SIZE, w, h) = Content(b, INPUT_BUF_SIZE, w, h)
  <2>2. Agree(b, d, INPUT_BUF_SIZE, w, h) /\ w \in Nat
    BY <1>a DEF Agree
  <2> QED
    BY <2>2, ConsConstants, ContentKept
<1>10. /\ Stored(cons.r, cons.w) = Content(b, INPUT_BUF_SIZE, r, g)
       /\ Stored(cons.w, cons.e) = Content(b, INPUT_BUF_SIZE, w, h)
       /\ Stored(cons.r, cons.w)' = Content(d, INPUT_BUF_SIZE, f, g - 1)
       /\ Stored(cons.w, cons.e)' = Content(d, INPUT_BUF_SIZE, w, h)
       /\ ReadyLen' = g - 1 /\ LineLen' = h
  BY <1>1, <1>2, <1>3, <1>6, <1>7, ConsStored, StoredAfter
<1>11. LineInv'
  <2>1. ReadyLen' + LineLen' <= INPUT_BUF_SIZE
    BY <1>2, <1>7, <1>10, ConsConstants
  <2>2. \A i \in 0 .. (LineLen' - 1) : cons'.buf[(cons'.w + i) % INPUT_BUF_SIZE] # "nl"
    BY <1>1, <1>2, <1>3, <1>6, <1>10, <1>a DEF LineInv
  <2> QED
    BY <2>1, <2>2 DEF LineInv
<1>12. got' = b[s] /\ b[s] \in LineChars
  BY <1>1, <1>3, <1>4
<1> QED
  BY <1>6, <1>8, <1>9, <1>10, <1>11, <1>12 DEF ConsoleInput!Take, FirstTaken

-----------------------------------------------------------------------------
(* The console: the ring of output characters.                               *)

TxLen(t) == Gap(ConsMod, t.r, t.w)
TxContent(t) == Content(t.buf, UART_TX_BUF_SIZE, t.r, TxLen(t))

\* What waits before and after a step.
LEMMA WaitingIs ==
    ASSUME ConsType, NEW y \in TxRecord, tx' = y
    PROVE  /\ Waiting = TxContent(tx) /\ WaitingLen = TxLen(tx) /\ WaitingLen \in Nat
           /\ Waiting' = TxContent(y) /\ WaitingLen' = TxLen(y)
<1>1. y.r \in ConsIndices /\ y.w \in ConsIndices
  BY DEF TxRecord
<1>2. PICK k \in Nat : k = TxLen(y)
  <2>1. Gap(ConsMod, y.r, y.w) \in 0 .. (ConsMod - 1)
    BY <1>1, ConsConstants, GapIs DEF ConsIndices
  <2> QED
    BY <2>1 DEF TxLen
<1>3. ConsRing(y.buf, UART_TX_BUF_SIZE, y.r, k) = Content(y.buf, UART_TX_BUF_SIZE, y.r, k)
  BY <1>1, ConsConstants, ConsContent
<1>4. Waiting' = ConsRing(y.buf, UART_TX_BUF_SIZE, y.r, TxLen(y))
  BY DEF Waiting, ConsRing, Minus, Gap, TxLen
<1>5. WaitingLen' = TxLen(y) /\ WaitingLen = TxLen(tx)
  BY DEF WaitingLen, TxLen
<1> QED
  BY <1>2, <1>3, <1>4, <1>5, ConsStored DEF TxContent

\* uartputc writes behind the last character.
LEMMA TxPut ==
    ASSUME ConsType, WaitingLen <= UART_TX_BUF_SIZE, ~TxFull, NEW c \in OutChars
    PROVE  \E t \in TxRecord :
             /\ t = [tx EXCEPT !.buf[tx.w % UART_TX_BUF_SIZE] = c, !.w = Plus1(@)]
             /\ TxLen(t) = WaitingLen + 1 /\ WaitingLen < UART_TX_BUF_SIZE
             /\ Appended(TxContent(t), TxContent(tx), c)
<1>1. PICK r \in 0 .. (ConsMod - 1), w \in 0 .. (ConsMod - 1), f \in 0 .. (ConsMod - 1),
           b \in [0 .. (UART_TX_BUF_SIZE - 1) -> OutChars] :
         r = tx.r /\ w = tx.w /\ f = Succ(ConsMod, w) /\ b = tx.buf
  <2>1. tx.r \in 0 .. (ConsMod - 1) /\ tx.w \in 0 .. (ConsMod - 1) /\ tx.buf \in [0 .. (UART_TX_BUF_SIZE - 1) -> OutChars]
    BY DEF ConsType, TxRecord, ConsIndices
  <2>2. Succ(ConsMod, tx.w) \in 0 .. (ConsMod - 1)
    BY <2>1, ConsConstants, SuccIs
  <2> QED
    BY <2>1, <2>2
<1>2. PICK g \in Nat : g = WaitingLen /\ g = Gap(ConsMod, r, w) /\ g < UART_TX_BUF_SIZE
  <2>1. WaitingLen \in Nat /\ WaitingLen = Gap(ConsMod, r, w)
    BY <1>1, ConsStored DEF WaitingLen
  <2>2. WaitingLen # UART_TX_BUF_SIZE
    BY <1>1, <2>1, ConsConstants, FullGap DEF TxFull
  <2> QED
    BY <2>1, <2>2, ConsConstants
<1>3. PICK s \in 0 .. (UART_TX_BUF_SIZE - 1) : s = w % UART_TX_BUF_SIZE
  BY ConsConstants, IndexDivMod
<1>4. PICK d \in [0 .. (UART_TX_BUF_SIZE - 1) -> OutChars] :
         d = [b EXCEPT ![s] = c] /\ d[s] = c /\ \A i \in 0 .. (UART_TX_BUF_SIZE - 1) : i # s => d[i] = b[i]
  <2>1. /\ [b EXCEPT ![s] = c] \in [0 .. (UART_TX_BUF_SIZE - 1) -> OutChars] /\ [b EXCEPT ![s] = c][s] = c
        /\ \A i \in 0 .. (UART_TX_BUF_SIZE - 1) : i # s => [b EXCEPT ![s] = c][i] = b[i]
    OBVIOUS
  <2> QED
    BY <2>1
<1>5. PICK t \in TxRecord :
         /\ t = [tx EXCEPT !.buf[tx.w % UART_TX_BUF_SIZE] = c, !.w = Plus1(@)]
         /\ t.r = r /\ t.w = f /\ t.buf = d
  <2>1. tx \in TxRecord
    BY DEF ConsType
  <2>2. [tx EXCEPT !.buf[tx.w % UART_TX_BUF_SIZE] = c, !.w = Plus1(@)] = [tx EXCEPT !.buf = d, !.w = f]
    BY <1>1, <1>3, <1>4, <2>1, MinusIsGap DEF TxRecord
  <2>3. [tx EXCEPT !.buf = d, !.w = f] \in TxRecord /\ [tx EXCEPT !.buf = d, !.w = f].r = r
        /\ [tx EXCEPT !.buf = d, !.w = f].w = f /\ [tx EXCEPT !.buf = d, !.w = f].buf = d
    BY <1>1, <1>4, <2>1 DEF TxRecord, ConsIndices
  <2> QED
    BY <2>2, <2>3
<1>6. Gap(ConsMod, r, f) = g + 1
  <2>1. Gap(ConsMod, r, w) + 1 < ConsMod
    BY <1>2, ConsConstants
  <2> QED
    BY <1>1, <1>2, <2>1, ConsConstants, GapMoves
<1>7. w % UART_TX_BUF_SIZE = (r + g) % UART_TX_BUF_SIZE
  <2>1. PICK z \in Nat : z = 0
    OBVIOUS
  <2>2. (w + z) % UART_TX_BUF_SIZE = (r + (Gap(ConsMod, r, w) + z)) % UART_TX_BUF_SIZE
    BY ConsConstants, SlotShift
  <2>3. w + z = w /\ Gap(ConsMod, r, w) + z = g
    BY <1>2, <2>1
  <2> QED
    BY <2>2, <2>3
<1>8. Appended(Content(d, UART_TX_BUF_SIZE, r, g + 1), Content(b, UART_TX_BUF_SIZE, r, g), c)
  <2>1. r \in Nat /\ w \in Nat /\ d[w % UART_TX_BUF_SIZE] = c
        /\ \A i \in 0 .. (UART_TX_BUF_SIZE - 1) : i # w % UART_TX_BUF_SIZE => d[i] = b[i]
    BY <1>3, <1>4
  <2> QED
    BY <1>2, <1>7, <2>1, ConsConstants, ContentPut
<1>9. TxContent(t) = Content(d, UART_TX_BUF_SIZE, r, g + 1) /\ TxContent(tx) = Content(b, UART_TX_BUF_SIZE, r, g) /\ TxLen(t) = g + 1
  BY <1>1, <1>2, <1>5, <1>6 DEF TxContent, TxLen
<1> QED
  BY <1>2, <1>5, <1>8, <1>9

\* uartstart takes the first character.
LEMMA TxGet ==
    ASSUME NEW t \in TxRecord, ~TxEmpty(t), TxLen(t) <= UART_TX_BUF_SIZE
    PROVE  \E y \in TxRecord :
             /\ y = [t EXCEPT !.r = Plus1(@), !.buf[t.r % UART_TX_BUF_SIZE] = DeadOut]
             /\ TxLen(y) <= UART_TX_BUF_SIZE
             /\ FirstTaken(TxContent(y), TxContent(t), t.buf[t.r % UART_TX_BUF_SIZE])
             /\ t.buf[t.r % UART_TX_BUF_SIZE] \in OutChars
<1>1. PICK r \in 0 .. (ConsMod - 1), w \in 0 .. (ConsMod - 1), f \in 0 .. (ConsMod - 1),
           b \in [0 .. (UART_TX_BUF_SIZE - 1) -> OutChars] :
         r = t.r /\ w = t.w /\ f = Succ(ConsMod, r) /\ b = t.buf
  <2>1. t.r \in 0 .. (ConsMod - 1) /\ t.w \in 0 .. (ConsMod - 1) /\ t.buf \in [0 .. (UART_TX_BUF_SIZE - 1) -> OutChars]
    BY DEF TxRecord, ConsIndices
  <2>2. Succ(ConsMod, t.r) \in 0 .. (ConsMod - 1)
    BY <2>1, ConsConstants, SuccIs
  <2> QED
    BY <2>1, <2>2
<1>2. PICK g \in Nat \ {0} : g = TxLen(t) /\ g = Gap(ConsMod, r, w) /\ Gap(ConsMod, f, w) = g - 1
  <2>1. Gap(ConsMod, r, w) \in 0 .. (ConsMod - 1) /\ Gap(ConsMod, r, w) = TxLen(t)
    BY <1>1, ConsConstants, GapIs DEF TxLen
  <2>2. Gap(ConsMod, r, w) # 0 /\ Gap(ConsMod, f, w) = Gap(ConsMod, r, w) - 1
    BY <1>1, ConsConstants, GapMoves DEF TxEmpty
  <2> QED
    BY <2>1, <2>2
<1>3. PICK s \in 0 .. (UART_TX_BUF_SIZE - 1) : s = r % UART_TX_BUF_SIZE
  BY ConsConstants, IndexDivMod
<1>4. PICK d \in [0 .. (UART_TX_BUF_SIZE - 1) -> OutChars] :
         d = [b EXCEPT ![s] = DeadOut] /\ \A i \in 0 .. (UART_TX_BUF_SIZE - 1) : i # s => d[i] = b[i]
  <2>1. /\ [b EXCEPT ![s] = DeadOut] \in [0 .. (UART_TX_BUF_SIZE - 1) -> OutChars]
        /\ \A i \in 0 .. (UART_TX_BUF_SIZE - 1) : i # s => [b EXCEPT ![s] = DeadOut][i] = b[i]
    BY DEF DeadOut, OutChars
  <2> QED
    BY <2>1
<1>5. PICK y \in TxRecord :
         /\ y = [t EXCEPT !.r = Plus1(@), !.buf[t.r % UART_TX_BUF_SIZE] = DeadOut]
         /\ y.r = f /\ y.w = w /\ y.buf = d
  <2>2. [t EXCEPT !.r = Plus1(@), !.buf[t.r % UART_TX_BUF_SIZE] = DeadOut] = [t EXCEPT !.r = f, !.buf = d]
    BY <1>1, <1>3, <1>4, MinusIsGap DEF TxRecord
  <2>3. [t EXCEPT !.r = f, !.buf = d] \in TxRecord /\ [t EXCEPT !.r = f, !.buf = d].r = f
        /\ [t EXCEPT !.r = f, !.buf = d].w = w /\ [t EXCEPT !.r = f, !.buf = d].buf = d
    BY <1>1, <1>4 DEF TxRecord, ConsIndices
  <2> QED
    BY <2>2, <2>3
<1>6. FirstTaken(Content(d, UART_TX_BUF_SIZE, f, g - 1), Content(b, UART_TX_BUF_SIZE, r, g), b[s])
  <2>1. g <= UART_TX_BUF_SIZE /\ \A i \in 0 .. (UART_TX_BUF_SIZE - 1) : i # r % UART_TX_BUF_SIZE => d[i] = b[i]
    BY <1>2, <1>3, <1>4
  <2>2. FirstTaken(Content(d, UART_TX_BUF_SIZE, Succ(ConsMod, r), g - 1), Content(b, UART_TX_BUF_SIZE, r, g), b[r % UART_TX_BUF_SIZE])
    BY <2>1, ConsConstants, ContentGet
  <2> QED
    BY <1>1, <1>3, <2>2
<1>7. TxContent(y) = Content(d, UART_TX_BUF_SIZE, f, g - 1) /\ TxContent(t) = Content(b, UART_TX_BUF_SIZE, r, g) /\ TxLen(y) = g - 1
  BY <1>1, <1>2, <1>5 DEF TxContent, TxLen
<1>8. t.buf[t.r % UART_TX_BUF_SIZE] = b[s] /\ b[s] \in OutChars /\ g - 1 <= UART_TX_BUF_SIZE
  BY <1>1, <1>2, <1>3, ConsConstants
<1> QED
  BY <1>5, <1>6, <1>7, <1>8

-----------------------------------------------------------------------------
(* The console: every step.                                                  *)

InputStep == ConsoleInput!LineNext \/ UNCHANGED <<Stored(cons.w, cons.e), Stored(cons.r, cons.w), got>>
OutputStep == ConsoleOutput!QueueNext \/ UNCHANGED <<Waiting, sent>>

\* Steps that leave the input alone.
LEMMA InputQuiet ==
    ASSUME ConsInv, UNCHANGED <<cons, got>>
    PROVE  InputStep /\ LineInv' /\ cons' \in ConsRecord /\ got' \in LineChars
<1>1. Stored(cons.w, cons.e)' = Stored(cons.w, cons.e) /\ Stored(cons.r, cons.w)' = Stored(cons.r, cons.w)
  BY DEF Stored
<1>2. LineInv'
  BY DEF ConsInv, LineInv, ReadyLen, LineLen
<1> QED
  BY <1>1, <1>2 DEF InputStep, ConsInv, ConsType

\* Steps that leave the output alone.
LEMMA OutputQuiet ==
    ASSUME ConsInv, UNCHANGED <<tx, sent>>
    PROVE  OutputStep /\ (WaitingLen <= UART_TX_BUF_SIZE)' /\ tx' \in TxRecord /\ sent' \in OutChars
<1>1. Waiting' = Waiting
  BY DEF Waiting
<1>2. (WaitingLen <= UART_TX_BUF_SIZE)'
  BY DEF ConsInv, WaitingLen
<1> QED
  BY <1>1, <1>2 DEF OutputStep, ConsInv, ConsType

\* The device, the calls, the sleepers and a reader that gives up.
LEMMA QuietSteps ==
    ASSUME ConsInv,
           \/ \E c \in Keys : Typed(c)
           \/ EchoChar \/ Transmitted
           \/ \E p \in Readers : ReadSleeps(p) \/ ReadKilled(p) \/ \E n \in ReadSizes : ReadCall(p, n)
           \/ \E p \in Writers : WriteCall(p) \/ UartPutcSleeps(p)
    PROVE  ConsInv' /\ InputStep /\ OutputStep
<1>1. ConsType /\ NoForgottenWork
  BY DEF ConsInv
<1>2. UNCHANGED <<cons, got, tx, sent>>
  BY DEF Typed, EchoChar, Transmitted, ReadSleeps, ReadKilled, ReadCall, WriteCall, UartPutcSleeps, inVars, outVars
<1>3. /\ InputStep /\ LineInv' /\ cons' \in ConsRecord /\ got' \in LineChars
      /\ OutputStep /\ (WaitingLen <= UART_TX_BUF_SIZE)' /\ tx' \in TxRecord /\ sent' \in OutChars
  BY <1>2, InputQuiet, OutputQuiet
<1>4. ASSUME NEW c \in Keys, Typed(c) PROVE ConsInv'
  <2>1. UNCHANGED <<rpc, wpc, thr>> /\ intr' = TRUE /\ rx' = c
    BY <1>4 DEF Typed, inVars, outVars
  <2>2. ConsType'
    BY <1>1, <1>3, <2>1 DEF ConsType
  <2>3. NoForgottenWork'
    BY <1>1, <1>2, <2>1 DEF NoForgottenWork, TxFull, TxEmpty
  <2> QED
    BY <1>3, <2>2, <2>3 DEF ConsInv
<1>5. ASSUME EchoChar PROVE ConsInv'
  <2>1. UNCHANGED <<rpc, wpc, rx, intr>> /\ thr' = TRUE
    BY <1>5 DEF EchoChar, inVars, outVars
  <2>2. ConsType'
    BY <1>1, <1>3, <2>1 DEF ConsType
  <2>3. NoForgottenWork'
    BY <1>1, <1>2, <2>1 DEF NoForgottenWork, TxFull, TxEmpty
  <2> QED
    BY <1>3, <2>2, <2>3 DEF ConsInv
<1>6. ASSUME Transmitted PROVE ConsInv'
  <2>1. UNCHANGED <<rpc, wpc, rx>> /\ thr' = FALSE /\ intr' = TRUE
    BY <1>6 DEF Transmitted, inVars, outVars
  <2>2. ConsType'
    BY <1>1, <1>3, <2>1 DEF ConsType
  <2>3. NoForgottenWork'
    BY <1>1, <1>2, <2>1 DEF NoForgottenWork, TxFull, TxEmpty
  <2> QED
    BY <1>3, <2>2, <2>3 DEF ConsInv
<1>7. ASSUME NEW p \in Readers, ReadSleeps(p) \/ ReadKilled(p) \/ \E n \in ReadSizes : ReadCall(p, n) PROVE ConsInv'
  <2>1. UNCHANGED <<wpc, rx, thr, intr>>
    BY <1>7 DEF ReadSleeps, ReadKilled, ReadCall, outVars
  <2>2. rpc' \in [Readers -> {"user", "read", "asleep"}]
    BY <1>1, <1>7 DEF ConsType, ReadSleeps, ReadKilled, ReadCall
  <2>3. (\E q \in Readers : rpc'[q] = "asleep") => cons.r = cons.w
    <3>1. CASE ReadSleeps(p)
      BY <3>1 DEF ReadSleeps
    <3>2. CASE ReadKilled(p) \/ \E n \in ReadSizes : ReadCall(p, n)
      <4>1. \A q \in Readers : rpc'[q] = "asleep" => rpc[q] = "asleep"
        BY <1>1, <3>2 DEF ConsType, ReadKilled, ReadCall
      <4> QED
        BY <1>1, <4>1 DEF NoForgottenWork
    <3> QED
      BY <1>7, <3>1, <3>2
  <2>4. ConsType'
    BY <1>1, <1>3, <2>1, <2>2 DEF ConsType
  <2>5. NoForgottenWork'
    BY <1>1, <1>2, <2>1, <2>3 DEF NoForgottenWork, TxFull, TxEmpty
  <2> QED
    BY <1>3, <2>4, <2>5 DEF ConsInv
<1>8. ASSUME NEW p \in Writers, WriteCall(p) \/ UartPutcSleeps(p) PROVE ConsInv'
  <2>1. UNCHANGED <<rpc, rx, thr, intr>>
    BY <1>8 DEF WriteCall, UartPutcSleeps, inVars
  <2>2. wpc' \in [Writers -> {"user", "put", "asleep"}]
    BY <1>1, <1>8 DEF ConsType, WriteCall, UartPutcSleeps
  <2>3. (\E q \in Writers : wpc'[q] = "asleep") => TxFull
    <3>1. CASE UartPutcSleeps(p)
      BY <3>1 DEF UartPutcSleeps
    <3>2. CASE WriteCall(p)
      <4>1. \A q \in Writers : wpc'[q] = "asleep" => wpc[q] = "asleep"
        BY <1>1, <3>2 DEF ConsType, WriteCall
      <4> QED
        BY <1>1, <4>1 DEF NoForgottenWork
    <3> QED
      BY <1>8, <3>1, <3>2
  <2>4. ConsType'
    BY <1>1, <1>3, <2>1, <2>2 DEF ConsType
  <2>5. NoForgottenWork'
    BY <1>1, <1>2, <2>1, <2>3 DEF NoForgottenWork, TxFull, TxEmpty
  <2> QED
    BY <1>3, <2>4, <2>5 DEF ConsInv
<1> QED
  BY <1>3, <1>4, <1>5, <1>6, <1>7, <1>8

\* The handler of a received character.
LEMMA ConsoleIntrStep ==
    ASSUME ConsInv, ConsoleIntr
    PROVE  ConsInv' /\ InputStep /\ OutputStep
<1>1. ConsType /\ LineInv /\ NoForgottenWork
  BY DEF ConsInv
<1>2. /\ rx' = NoChar /\ UNCHANGED <<got, tx, sent, wpc, thr, intr>>
      /\ rpc' = IF cons'.w # cons.w THEN WakeCons(rpc) ELSE rpc
  BY DEF ConsoleIntr, outVars
<1>3. OutputStep /\ (WaitingLen <= UART_TX_BUF_SIZE)' /\ tx' \in TxRecord /\ sent' \in OutChars
  BY <1>2, OutputQuiet
<1>4. \/ cons' = cons
      \/ cons' = Erased(LineLen)
      \/ LineLen > 0 /\ cons' = Erased(1)
      \/ HasRoom /\ \E c \in LineChars : cons' = Store(c)
  <2>1. CASE rx = "U"
    BY <1>1, <2>1, KillFromIs DEF ConsoleIntr
  <2>2. CASE rx = "H"
    <3>1. cons' = EraseChar
      BY <2>2 DEF ConsoleIntr
    <3>2. CASE CanErase
      <4>1. LineLen \in Nat /\ LineLen # 0
        <5>1. cons.w \in 0 .. (ConsMod - 1) /\ cons.e \in 0 .. (ConsMod - 1) /\ cons.e # cons.w
          BY <1>1, <3>2 DEF CanErase, ConsType, ConsRecord, ConsIndices
        <5>2. LineLen # 0
          BY <5>1, ConsConstants, GapMoves DEF LineLen
        <5> QED
          BY <1>1, <5>2, ConsStored
      <4> QED
        BY <3>1, <3>2, <4>1 DEF EraseChar
    <3>3. CASE ~CanErase
      BY <3>1, <3>3 DEF EraseChar
    <3> QED
      BY <3>2, <3>3
  <2>3. CASE rx \notin {"U", "H"}
    <3>1. IF rx # "nul" /\ HasRoom THEN cons' = Store(IF rx = "cr" THEN "nl" ELSE rx) ELSE cons' = cons
      BY <2>3 DEF ConsoleIntr
    <3>2. rx # NoChar
      BY DEF ConsoleIntr
    <3>3. rx # "nul" => (IF rx = "cr" THEN "nl" ELSE rx) \in LineChars
      BY <1>1, <2>3, <3>2 DEF ConsType, Keys, LineChars
    <3> QED
      BY <3>1, <3>3
  <2> QED
    BY <2>1, <2>2, <2>3
<1>5. cons' \in ConsRecord /\ LineInv' /\ cons'.r = cons.r /\ InputStep
  <2>1. CASE cons' = cons
    BY <1>1, <1>2, <2>1, InputQuiet
  <2>2. CASE cons' = Erased(LineLen)
    BY <1>1, <1>2, <2>2, EraseLineMoves DEF InputStep, ConsoleInput!LineNext
  <2>3. CASE LineLen > 0 /\ cons' = Erased(1)
    BY <1>1, <1>2, <2>3, EraseMoves DEF InputStep, ConsoleInput!LineNext
  <2>4. ASSUME HasRoom, NEW c \in LineChars, cons' = Store(c) PROVE cons' \in ConsRecord /\ LineInv' /\ cons'.r = cons.r /\ InputStep
    BY <1>1, <1>2, <2>4, TypeMoves DEF InputStep, ConsoleInput!LineNext
  <2> QED
    BY <1>4, <2>1, <2>2, <2>3, <2>4
<1>6. rpc' \in [Readers -> {"user", "read", "asleep"}] /\ ((\E p \in Readers : rpc'[p] = "asleep") => cons'.r = cons'.w)
  <2>1. CASE cons'.w # cons.w
    BY <1>1, <1>2, <2>1 DEF WakeCons, ConsType
  <2>2. CASE cons'.w = cons.w
    BY <1>1, <1>2, <1>5, <2>2 DEF ConsType, NoForgottenWork
  <2> QED
    BY <2>1, <2>2
<1>7. ConsType'
  BY <1>1, <1>2, <1>3, <1>5, <1>6 DEF ConsType
<1>8. NoForgottenWork'
  BY <1>1, <1>2, <1>6 DEF NoForgottenWork, TxFull, TxEmpty
<1> QED
  BY <1>3, <1>5, <1>7, <1>8 DEF ConsInv

\* One character for a reader.
LEMMA ReadCharStep ==
    ASSUME ConsInv, NEW p \in Readers, ReadChar(p)
    PROVE  ConsInv' /\ InputStep /\ OutputStep
<1>1. ConsType /\ LineInv /\ NoForgottenWork
  BY DEF ConsInv
<1>2. UNCHANGED <<tx, sent, wpc, rx, thr, intr>> /\ cons.r # cons.w
  BY DEF ReadChar, outVars
<1>3. OutputStep /\ (WaitingLen <= UART_TX_BUF_SIZE)' /\ tx' \in TxRecord /\ sent' \in OutChars
  BY <1>2, OutputQuiet
<1>4. \/ UNCHANGED <<cons, got>>
      \/ /\ got' = cons.buf[cons.r % INPUT_BUF_SIZE]
         /\ cons' = [cons EXCEPT !.r = Plus1(@), !.buf[cons.r % INPUT_BUF_SIZE] = DeadChar]
  BY DEF ReadChar
<1>5. cons' \in ConsRecord /\ got' \in LineChars /\ LineInv' /\ InputStep
  <2>1. CASE UNCHANGED <<cons, got>>
    BY <2>1, InputQuiet
  <2>2. CASE /\ got' = cons.buf[cons.r % INPUT_BUF_SIZE]
             /\ cons' = [cons EXCEPT !.r = Plus1(@), !.buf[cons.r % INPUT_BUF_SIZE] = DeadChar]
    BY <1>1, <1>2, <2>2, TakeMoves DEF InputStep, ConsoleInput!LineNext
  <2> QED
    BY <1>4, <2>1, <2>2
<1>6. rpc' \in [Readers -> {"user", "read", "asleep"}] /\ \A q \in Readers : rpc'[q] # "asleep"
  <2>1. \A q \in Readers : rpc[q] # "asleep"
    BY <1>1, <1>2 DEF NoForgottenWork
  <2>2. \E v \in {"user", "read"} : rpc' = [rpc EXCEPT ![p] = v]
    BY DEF ReadChar
  <2> QED
    BY <1>1, <2>1, <2>2 DEF ConsType
<1>7. ConsType'
  BY <1>1, <1>2, <1>3, <1>5, <1>6 DEF ConsType
<1>8. NoForgottenWork'
  BY <1>1, <1>2, <1>6 DEF NoForgottenWork, TxFull, TxEmpty
<1> QED
  BY <1>3, <1>5, <1>7, <1>8 DEF ConsInv

\* uartstart on a buffer t and the writers f.
LEMMA StartTxIs ==
    ASSUME ConsType, NEW t \in TxRecord, TxLen(t) <= UART_TX_BUF_SIZE,
           NEW f \in [Writers -> {"user", "put", "asleep"}], StartTx(t, f)
    PROVE  \E y \in TxRecord :
             /\ tx' = y /\ TxLen(y) <= UART_TX_BUF_SIZE /\ sent' \in OutChars /\ thr' \in BOOLEAN
             /\ wpc' \in [Writers -> {"user", "put", "asleep"}]
             /\ \/ y = t /\ sent' = sent /\ wpc' = f /\ (TxEmpty(y) \/ thr')
                \/ FirstTaken(TxContent(y), TxContent(t), sent') /\ thr' /\ \A q \in Writers : wpc'[q] # "asleep"
<1>1. CASE TxEmpty(t) \/ thr
  BY <1>1 DEF StartTx, ConsType
<1>2. CASE ~(TxEmpty(t) \/ thr)
  <2>1. PICK y \in TxRecord :
          /\ y = [t EXCEPT !.r = Plus1(@), !.buf[t.r % UART_TX_BUF_SIZE] = DeadOut]
          /\ TxLen(y) <= UART_TX_BUF_SIZE
          /\ FirstTaken(TxContent(y), TxContent(t), t.buf[t.r % UART_TX_BUF_SIZE])
          /\ t.buf[t.r % UART_TX_BUF_SIZE] \in OutChars
    BY <1>2, TxGet
  <2>2. tx' = y /\ sent' = t.buf[t.r % UART_TX_BUF_SIZE] /\ thr' = TRUE /\ wpc' = WakeTx(f)
    BY <1>2, <2>1 DEF StartTx
  <2>3. wpc' \in [Writers -> {"user", "put", "asleep"}] /\ \A q \in Writers : wpc'[q] # "asleep"
    BY <2>2 DEF WakeTx
  <2> QED
    BY <2>1, <2>2, <2>3
<1> QED
  BY <1>1, <1>2

\* consolewrite passes a character on.
LEMMA UartPutcStep ==
    ASSUME ConsInv, NEW p \in Writers, NEW c \in OutChars, UartPutc(p, c)
    PROVE  ConsInv' /\ InputStep /\ OutputStep
<1>1. ConsType /\ LineInv /\ NoForgottenWork /\ WaitingLen <= UART_TX_BUF_SIZE
  BY DEF ConsInv
<1>2. UNCHANGED <<cons, got, rpc, rx, intr>> /\ ~TxFull /\ \A q \in Writers : wpc[q] # "asleep"
  BY <1>1 DEF UartPutc, inVars, NoForgottenWork
<1>3. InputStep /\ LineInv' /\ cons' \in ConsRecord /\ got' \in LineChars
  BY <1>2, InputQuiet
<1>4. PICK t \in TxRecord :
        /\ t = [tx EXCEPT !.buf[tx.w % UART_TX_BUF_SIZE] = c, !.w = Plus1(@)]
        /\ TxLen(t) = WaitingLen + 1 /\ WaitingLen < UART_TX_BUF_SIZE
        /\ Appended(TxContent(t), TxContent(tx), c)
  BY <1>1, <1>2, TxPut
<1>5. PICK f \in [Writers -> {"user", "put", "asleep"}] :
        f = [wpc EXCEPT ![p] = "user"] /\ \A q \in Writers : f[q] # "asleep"
  <2>1. /\ [wpc EXCEPT ![p] = "user"] \in [Writers -> {"user", "put", "asleep"}]
        /\ \A q \in Writers : [wpc EXCEPT ![p] = "user"][q] # "asleep"
    BY <1>1, <1>2 DEF ConsType
  <2> QED
    BY <2>1
<1>6. StartTx(t, f) /\ WaitingLen \in Nat /\ TxLen(t) <= UART_TX_BUF_SIZE
  <2>1. StartTx(t, f)
    BY <1>4, <1>5 DEF UartPutc
  <2> QED
    BY <1>1, <1>4, <2>1, ConsStored, ConsConstants
<1>7. PICK y \in TxRecord :
        /\ tx' = y /\ TxLen(y) <= UART_TX_BUF_SIZE /\ sent' \in OutChars /\ thr' \in BOOLEAN
        /\ wpc' \in [Writers -> {"user", "put", "asleep"}]
        /\ \/ y = t /\ sent' = sent /\ wpc' = f /\ (TxEmpty(y) \/ thr')
           \/ FirstTaken(TxContent(y), TxContent(t), sent') /\ thr' /\ \A q \in Writers : wpc'[q] # "asleep"
  BY <1>1, <1>6, StartTxIs
<1>8. /\ Waiting = TxContent(tx) /\ WaitingLen = TxLen(tx) /\ Waiting' = TxContent(y) /\ WaitingLen' = TxLen(y)
      /\ Len(Waiting) = WaitingLen
  <2>1. Waiting = TxContent(tx) /\ WaitingLen = TxLen(tx) /\ Waiting' = TxContent(y) /\ WaitingLen' = TxLen(y)
    BY <1>1, <1>7, WaitingIs
  <2>2. Len(Content(tx.buf, UART_TX_BUF_SIZE, tx.r, WaitingLen)) = WaitingLen
    BY <1>6, ContentLen
  <2> QED
    BY <2>1, <2>2 DEF TxContent
<1>9. OutputStep
  <2>1. CASE y = t /\ sent' = sent
    <3>1. ConsoleOutput!Put(c)
      BY <1>4, <1>8, <2>1 DEF ConsoleOutput!Put, Appended
    <3> QED
      BY <3>1 DEF OutputStep, ConsoleOutput!QueueNext
  <2>2. CASE FirstTaken(TxContent(y), TxContent(t), sent')
    <3>1. ConsoleOutput!PutGet(c)
      BY <1>4, <1>8, <2>2 DEF ConsoleOutput!PutGet, Appended, FirstTaken
    <3> QED
      BY <3>1 DEF OutputStep, ConsoleOutput!QueueNext
  <2> QED
    BY <1>7, <2>1, <2>2
<1>10. ConsType'
  BY <1>1, <1>2, <1>3, <1>7 DEF ConsType
<1>11. NoForgottenWork'
  <2>1. \A q \in Writers : wpc'[q] # "asleep"
    BY <1>5, <1>7
  <2>2. TxEmpty(tx') \/ thr'
    BY <1>7
  <2> QED
    BY <1>1, <1>2, <2>1, <2>2 DEF NoForgottenWork, TxEmpty
<1> QED
  BY <1>3, <1>7, <1>8, <1>9, <1>10, <1>11 DEF ConsInv

\* The transmitter is ready for more.
LEMMA UartIntrStep ==
    ASSUME ConsInv, UartIntr
    PROVE  ConsInv' /\ InputStep /\ OutputStep
<1>1. ConsType /\ LineInv /\ NoForgottenWork /\ WaitingLen <= UART_TX_BUF_SIZE
  BY DEF ConsInv
<1>2. UNCHANGED <<cons, got, rpc, rx>> /\ intr' = FALSE /\ StartTx(tx, wpc)
  BY DEF UartIntr, inVars
<1>3. InputStep /\ LineInv' /\ cons' \in ConsRecord /\ got' \in LineChars
  BY <1>2, InputQuiet
<1>4. PICK t \in TxRecord, f \in [Writers -> {"user", "put", "asleep"}] : t = tx /\ f = wpc /\ TxLen(t) <= UART_TX_BUF_SIZE
  BY <1>1 DEF ConsType, WaitingLen, TxLen
<1>5. StartTx(t, f)
  BY <1>2, <1>4
<1>7. PICK y \in TxRecord :
        /\ tx' = y /\ TxLen(y) <= UART_TX_BUF_SIZE /\ sent' \in OutChars /\ thr' \in BOOLEAN
        /\ wpc' \in [Writers -> {"user", "put", "asleep"}]
        /\ \/ y = t /\ sent' = sent /\ wpc' = f /\ (TxEmpty(y) \/ thr')
           \/ FirstTaken(TxContent(y), TxContent(t), sent') /\ thr' /\ \A q \in Writers : wpc'[q] # "asleep"
  BY <1>1, <1>4, <1>5, StartTxIs
<1>8. Waiting = TxContent(tx) /\ Waiting' = TxContent(y) /\ WaitingLen' = TxLen(y)
  BY <1>1, <1>7, WaitingIs
<1>9. OutputStep
  <2>1. CASE y = t /\ sent' = sent
    BY <1>4, <1>8, <2>1 DEF OutputStep
  <2>2. CASE FirstTaken(TxContent(y), TxContent(t), sent')
    <3>1. ConsoleOutput!Get
      BY <1>4, <1>8, <2>2 DEF ConsoleOutput!Get, FirstTaken
    <3> QED
      BY <3>1 DEF OutputStep, ConsoleOutput!QueueNext
  <2> QED
    BY <1>7, <2>1, <2>2
<1>10. ConsType'
  BY <1>1, <1>2, <1>3, <1>7 DEF ConsType
<1>11. NoForgottenWork'
  <2>1. (\E q \in Writers : wpc'[q] = "asleep") => TxFull'
    <3>1. CASE y = t /\ wpc' = f
      BY <1>1, <1>4, <1>7, <3>1 DEF NoForgottenWork, TxFull
    <3>2. CASE \A q \in Writers : wpc'[q] # "asleep"
      BY <3>2
    <3> QED
      BY <1>7, <3>1, <3>2
  <2>2. TxEmpty(tx') \/ thr'
    BY <1>7
  <2> QED
    BY <1>1, <1>2, <2>1, <2>2 DEF NoForgottenWork, TxEmpty
<1> QED
  BY <1>3, <1>7, <1>8, <1>9, <1>10, <1>11 DEF ConsInv

\* All steps together.
LEMMA ConsNextKeeps == ConsInv /\ [ConsNext]_consVars => ConsInv' /\ InputStep /\ OutputStep
<1> SUFFICES ASSUME ConsInv, [ConsNext]_consVars PROVE ConsInv' /\ InputStep /\ OutputStep
  OBVIOUS
<1>1. CASE UNCHANGED consVars
  <2>1. UNCHANGED <<cons, got, rpc, tx, sent, wpc, rx, thr, intr>>
    BY <1>1 DEF consVars, inVars, outVars
  <2>2. InputStep /\ LineInv' /\ OutputStep /\ (WaitingLen <= UART_TX_BUF_SIZE)'
    BY <2>1, InputQuiet, OutputQuiet
  <2>3. ConsType' /\ NoForgottenWork'
    BY <2>1 DEF ConsInv, ConsType, NoForgottenWork, TxFull, TxEmpty
  <2> QED
    BY <2>2, <2>3 DEF ConsInv
<1>2. CASE ConsNext
  <2>1. ASSUME NEW p \in Readers, ReadChar(p) PROVE ConsInv' /\ InputStep /\ OutputStep
    BY <2>1, ReadCharStep
  <2>2. ASSUME NEW p \in Writers, NEW c \in OutChars, UartPutc(p, c) PROVE ConsInv' /\ InputStep /\ OutputStep
    BY <2>2, UartPutcStep
  <2>3. \/ ConsoleIntr \/ UartIntr
        \/ \E p \in Readers : ReadChar(p)
        \/ \E p \in Writers, c \in OutChars : UartPutc(p, c)
        \/ \E c \in Keys : Typed(c)
        \/ EchoChar \/ Transmitted
        \/ \E p \in Readers : ReadSleeps(p) \/ ReadKilled(p) \/ \E n \in ReadSizes : ReadCall(p, n)
        \/ \E p \in Writers : WriteCall(p) \/ UartPutcSleeps(p)
    BY <1>2 DEF ConsNext, ReadStep, WriteStep
  <2> QED
    BY <2>1, <2>2, <2>3, ConsoleIntrStep, UartIntrStep, QuietSteps
<1> QED
  BY <1>1, <1>2

\* The invariant holds in every state of the console.
THEOREM ConsInvariant == ConsSpec => []ConsInv
<1>1. ConsInv /\ [ConsNext]_consVars => ConsInv'
  BY ConsNextKeeps
<1> QED
  BY <1>1, ConsInitHolds, PTL DEF ConsSpec

\* No reader sleeps while a line is ready, no writer while there is room, and
\* what waits for the transmitter has an interrupt to come (consoleintr,
\* uartputc, uartstart, uartintr).
THEOREM ConsoleForgetsNothing == ConsSpec => []NoForgottenWork
<1>1. ConsInv => NoForgottenWork
  BY DEF ConsInv
<1> QED
  BY <1>1, ConsInvariant, PTL

\* The console implements the line discipline and the output queue, wherever
\* the indices of its rings wrap.
THEOREM ConsoleIsLineDiscipline == ConsSpec => ConsoleImplements
<1>1. ConsInit => ConsoleInput!LineInit /\ ConsoleOutput!QueueInit
  <2> SUFFICES ASSUME ConsInit PROVE ConsoleInput!LineInit /\ ConsoleOutput!QueueInit
    OBVIOUS
  <2>1. ConsType
    BY ConsInitHolds DEF ConsInv
  <2>2. ReadyLen = 0 /\ LineLen = 0 /\ WaitingLen = 0
    BY ConsConstants, GapMoves DEF ConsInit, ReadyLen, LineLen, WaitingLen, ConsIndices
  <2>3. /\ Stored(cons.r, cons.w) = Content(cons.buf, INPUT_BUF_SIZE, cons.r, 0)
        /\ Stored(cons.w, cons.e) = Content(cons.buf, INPUT_BUF_SIZE, cons.w, 0)
        /\ Waiting = Content(tx.buf, UART_TX_BUF_SIZE, tx.r, 0)
    BY <2>1, <2>2, ConsStored
  <2>4. ASSUME NEW d, NEW n, NEW a PROVE Content(d, n, a, 0) = <<>>
    BY DEF Content
  <2>5. got \in LineChars /\ sent \in OutChars
    BY <2>1 DEF ConsType
  <2> QED
    BY <2>3, <2>4, <2>5 DEF ConsoleInput!LineInit, ConsoleOutput!QueueInit
<1>2. ConsInv /\ [ConsNext]_consVars => [ConsoleInput!LineNext]_(ConsoleInput!lineVars)
  BY ConsNextKeeps DEF InputStep, ConsoleInput!lineVars
<1>3. ConsInv /\ [ConsNext]_consVars => [ConsoleOutput!QueueNext]_<<Waiting, sent>>
  BY ConsNextKeeps DEF OutputStep
<1> QED
  BY <1>1, <1>2, <1>3, ConsInvariant, PTL
     DEF ConsSpec, ConsoleImplements, ConsoleInput!LineSpec, ConsoleOutput!QueueSpec
=============================================================================
