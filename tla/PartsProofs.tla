---------------------------- MODULE PartsProofs ----------------------------
(***************************************************************************)
(* Two parts that share no state.  For every number of disks and every     *)
(* disk size, the layout of kernel/raid.c keeps the blocks of the device   *)
(* on the disks, apart from each other and apart from their redundancy.    *)
(* For every number of CPUs and processes, the code of kernel/spinlock.c,  *)
(* trap.c and proc.c takes its interrupts and its spin locks safely.       *)
(***************************************************************************)
EXTENDS RaidAddressing, Interrupts, RaidLayoutProofs, FiniteSetTheorems, SequenceTheorems, TLAPS

-----------------------------------------------------------------------------
(* The addresses of the device.                                              *)

\* The superblock in use is always one that raid_system_init builds, and the
\* block number a natural number.
THEOREM TypeCorrect == Spec => []TypeOK
<1>1. Init => TypeOK
  BY DEF Init, TypeOK
<1>2. TypeOK /\ [Next]_vars => TypeOK'
  <2> SUFFICES ASSUME TypeOK, [Next]_vars
               PROVE  TypeOK'
    OBVIOUS
  <2>1. CASE Initialise
    BY <2>1 DEF Initialise, TypeOK
  <2>2. CASE Request
    BY <2>2 DEF Request, TypeOK
  <2>3. CASE UNCHANGED vars
    BY <2>3 DEF vars, TypeOK
  <2> QED
    BY <2>1, <2>2, <2>3 DEF Next
<1> QED
  BY <1>1, <1>2, PTL DEF Spec

\* rw_block stays on the data rows of the disks, whatever their number and size.
THEOREM AlwaysInRange == Spec => []InRange
<1>1. TypeOK => InRange
  BY LocationInRange DEF TypeOK, InRange
<1> QED
  BY <1>1, TypeCorrect, PTL

\* No two blocks of the device share a cell.
THEOREM AlwaysNoAlias == Spec => []NoAlias
<1>1. TypeOK => NoAlias
  BY HomeInjective DEF TypeOK, NoAlias
<1> QED
  BY <1>1, TypeCorrect, PTL

\* Mirrors and parity are never overwritten by data.
THEOREM AlwaysRedundancyApart == Spec => []RedundancyApart
<1>1. TypeOK => RedundancyApart
  BY RedundantNotHome DEF TypeOK, RedundancyApart
<1> QED
  BY <1>1, TypeCorrect, PTL

\* RAID4 and RAID5 lay each row across all the disks.
THEOREM AlwaysStripeSpansDisks == Spec => []StripeSpansDisks
<1>1. TypeOK => StripeSpansDisks
  <2> SUFFICES ASSUME TypeOK, request \in Addresses(sblk), sblk.raid_level \in Parity
               PROVE  {disk_num(sblk, b) : b \in {x \in Addresses(sblk) :
                                               blkc_num(sblk, x) = blkc_num(sblk, request)}}
                          = Disks \ {RedundantDisk(sblk, request)}
    BY DEF StripeSpansDisks
  <2>0. sblk \in Superblocks /\ sblk.raid_level # "RAID0"
    BY DEF TypeOK, Parity
  <2>1. ASSUME NEW b \in Addresses(sblk), blkc_num(sblk, b) = blkc_num(sblk, request)
        PROVE  disk_num(sblk, b) \in Disks \ {RedundantDisk(sblk, request)}
    <3>1. disk_num(sblk, b) \in Disks
      BY <2>0, LocationInRange DEF Home
    <3>2. Redundant(sblk, request) # Home(sblk, b)
      BY <2>0, RedundantNotHome
    <3> QED
      BY <2>1, <3>1, <3>2 DEF Redundant, Home
  <2>2. ASSUME NEW d \in Disks \ {RedundantDisk(sblk, request)}
        PROVE  \E b \in Addresses(sblk) :
                   blkc_num(sblk, b) = blkc_num(sblk, request) /\ disk_num(sblk, b) = d
    BY <2>0, RowCoversDisks
  <2> QED
    BY <2>1, <2>2
<1> QED
  BY <1>1, TypeCorrect, PTL

\* The rebuild of disk 1 reads every surviving disk once, whatever their number.
THEOREM AlwaysRecoveryOfDisk1Complete == Spec => []RecoveryOfDisk1Complete
<1>1. RecoveryOfDisk1Complete
  <2> DEFINE S == {RecoverySource(1, j) : j \in 0 .. (DISKS - 2)}
  <2>1. ASSUME NEW j \in 0 .. (DISKS - 2)
        PROVE  RecoverySource(1, j) \in Disks \ {1}
    BY SourceOfDisk1, DisksAssumption DEF Disks
  <2>2. ASSUME NEW d \in Disks \ {1}
        PROVE  d - 2 \in 0 .. (DISKS - 2) /\ RecoverySource(1, d - 2) = d
    <3>1. d - 2 \in 0 .. (DISKS - 2)
      BY DisksAssumption DEF Disks
    <3> QED
      BY <3>1, SourceOfDisk1 DEF Disks
  <2> QED
    BY <2>1, <2>2 DEF RecoveryOfDisk1Complete
<1> QED
  BY <1>1, PTL

\* For every number of disks and rows and every level, each block of the device
\* has a data cell of its own.
THEOREM AlwaysOwnCell == Spec => []OwnCell
<1>1. InRange /\ NoAlias /\ RedundancyApart => OwnCell
  BY DEF OwnCell
<1> QED
  BY <1>1, AlwaysInRange, AlwaysNoAlias, AlwaysRedundancyApart, PTL

\* For every number of disks and rows, the rows of a parity array span all the
\* disks and disk 1 is rebuilt from all the others.
THEOREM AlwaysRebuildable == Spec => []Rebuildable
<1>1. StripeSpansDisks /\ RecoveryOfDisk1Complete => Rebuildable
  BY DEF Rebuildable
<1> QED
  BY <1>1, AlwaysStripeSpansDisks, AlwaysRecoveryOfDisk1Complete, PTL

-----------------------------------------------------------------------------
(* What a thread may rely on before each of its operations.                  *)

\* The locks it holds, how often interrupts are disabled, and whether they stay
\* off when the last lock is released (quiet), it is between sched and the
\* restore of intena (away), it has looked at ticks and is about to sleep on
\* them (looked), it is in clockintr (dev).
Labels == {g \in [held : SUBSET SpinLocks, noff : {0, 1, 2}, quiet : BOOLEAN, away : BOOLEAN, looked : BOOLEAN, dev : BOOLEAN] :
              (g.noff = 0 => g.held = {} /\ ~g.away /\ ~g.looked) /\ (g.dev => g.quiet)}
Label(h, n, q, a, k, d) == [held |-> h, noff |-> n, quiet |-> q, away |-> a, looked |-> k, dev |-> d]
InUser == Label({}, 0, FALSE, FALSE, FALSE, FALSE)

OpNames == {"acquire", "spin", "release", "intr_on", "sret", "iret", "pick", "sched", "resume", "resched",
            "tick", "wake", "killed", "kill", "start", "loop"}
Ops == OpNames \X (Threads \union Harts \union {TicksLock, "RUNNABLE", "SLEEPING", "ZOMBIE"})

Plain(g) == ~g.away /\ ~g.looked
Bare(g) == Plain(g) /\ g.held = {} /\ g.noff = 0 /\ ~g.dev
With(g, l) == g.held = {l} /\ g.noff = 1

\* The code of thread t has label g before an operation and m after it.
Step(t, g, op, m) ==
    LET l == op[2] IN
    \/ /\ op[1] = "acquire" /\ l \in SpinLocks /\ ~g.away
       /\ \/ g.held = {} /\ g.noff = 0
          \/ With(g, TicksLock) /\ l = t /\ t \in Threads /\ ~g.dev
       /\ m = Label(g.held \union {l}, g.noff + 1, g.quiet, FALSE, g.looked, g.dev)
    \/ /\ op[1] = "spin" /\ l \in SpinLocks /\ ~g.away
       /\ \/ g.held = {} /\ g.noff = 1 /\ ~g.looked
          \/ g.held = {TicksLock} /\ g.noff = 2 /\ l = t /\ t \in Threads /\ ~g.dev
       /\ m = Label(g.held \union {l}, g.noff, g.quiet, FALSE, g.looked, g.dev)
    \/ /\ op[1] = "release" /\ ~g.away
       /\ \/ With(g, l) /\ ~g.looked
          \/ g.held = {TicksLock, t} /\ g.noff = 2 /\ l = TicksLock /\ t \in Threads
       /\ m = Label(g.held \ {l}, g.noff - 1, g.quiet, FALSE, g.looked, FALSE)
    \/ op[1] \in {"intr_on", "sret"} /\ Bare(g) /\ m = InUser
    \/ op[1] = "iret" /\ Bare(g) /\ g.quiet /\ m = InUser
    \/ op[1] = "pick" /\ l \in Threads /\ t \in Harts /\ With(g, l) /\ Plain(g) /\ ~g.quiet /\ m = g
    \/ /\ op[1] = "sched" /\ t \in Threads /\ With(g, t) /\ ~g.away /\ ~g.dev
       /\ l \in {"RUNNABLE", "SLEEPING", "ZOMBIE"} /\ (g.looked <=> l = "SLEEPING")
       /\ m = IF l = "ZOMBIE" THEN InUser ELSE Label({t}, 1, g.quiet, TRUE, FALSE, FALSE)
    \/ /\ op[1] = "resume" /\ t \in Threads /\ l = t /\ With(g, t) /\ g.away /\ ~g.looked /\ ~g.dev
       /\ m = Label({t}, 1, g.quiet, FALSE, FALSE, FALSE)
    \/ op[1] = "killed" /\ t \in Threads /\ l = t /\ Bare(g) /\ m = g
    \/ op[1] = "kill" /\ l \in Threads /\ Bare(g) /\ m = g
    \/ op[1] = "resched" /\ Bare(g) /\ m = g
    \/ op[1] = "start" /\ t \in Threads /\ l = t /\ With(g, TicksLock) /\ Plain(g) /\ ~g.dev /\ m = g
    \/ /\ op[1] = "loop" /\ t \in Threads /\ l = t /\ With(g, TicksLock) /\ Plain(g) /\ ~g.dev
       /\ m = Label({}, 0, g.quiet, FALSE, FALSE, FALSE)
    \/ op[1] = "tick" /\ With(g, TicksLock) /\ Plain(g) /\ g.dev /\ m = g
    \/ op[1] = "wake" /\ l \in Threads /\ With(g, TicksLock) /\ Plain(g) /\ g.dev /\ m = g

\* quiet and dev only end.
Ends(g, m) == (m.quiet => g.quiet) /\ (m.dev => g.dev)

\* The operations s lead thread t from label a to label b.
Leads(t, s, f, a, b) ==
    /\ f \in [1 .. Len(s) + 1 -> Labels] /\ f[1] = a /\ f[Len(s) + 1] = b
    /\ \A i \in 1 .. Len(s) : Step(t, f[i], s[i], f[i + 1])
    /\ \A i, j \in 1 .. Len(s) + 1 : i <= j => Ends(f[i], f[j])
Fits(t, s, a, b) == \E f : Leads(t, s, f, a, b)

\* A label by its fields.
LEMMA LabelFields ==
    ASSUME NEW h, NEW n, NEW q, NEW a, NEW k, NEW d
    PROVE  LET g == Label(h, n, q, a, k, d) IN
           /\ g.held = h /\ g.noff = n /\ g.quiet = q /\ g.away = a /\ g.looked = k /\ g.dev = d
BY DEF Label

\* Fields of their types make a label.
LEMMA LabelTyped ==
    ASSUME NEW h \in SUBSET SpinLocks, NEW n \in {0, 1, 2}, NEW q \in BOOLEAN, NEW a \in BOOLEAN, NEW k \in BOOLEAN, NEW d \in BOOLEAN,
           n = 0 => h = {} /\ ~a /\ ~k, d => q
    PROVE  Label(h, n, q, a, k, d) \in Labels
BY DEF Labels, Label

\* A label has fields of their types, and is made of them.
LEMMA LabelParts ==
    ASSUME NEW g \in Labels
    PROVE  /\ g.held \in SUBSET SpinLocks /\ g.noff \in {0, 1, 2} /\ g.quiet \in BOOLEAN /\ g.away \in BOOLEAN
           /\ g.looked \in BOOLEAN /\ g.dev \in BOOLEAN /\ (g.noff = 0 => g.held = {} /\ ~g.away /\ ~g.looked) /\ (g.dev => g.quiet)
           /\ g = Label(g.held, g.noff, g.quiet, g.away, g.looked, g.dev)
BY DEF Labels, Label

\* A thread in user mode holds no lock and has interrupts on.
LEMMA InUserFields ==
    /\ InUser \in Labels /\ InUser.held = {} /\ InUser.noff = 0 /\ ~InUser.quiet /\ ~InUser.away /\ ~InUser.looked /\ ~InUser.dev
<1>1. InUser \in Labels
  BY LabelTyped DEF InUser
<1> QED
  BY <1>1 DEF InUser, Label

\* No operation begins a handler.
LEMMA StepEnds ==
    ASSUME NEW t, NEW g \in Labels, NEW op, NEW m, Step(t, g, op, m)
    PROVE  Ends(g, m)
<1>1. ASSUME NEW h, NEW n, NEW a, NEW k, m = Label(h, n, g.quiet, a, k, g.dev) PROVE Ends(g, m)
  BY <1>1 DEF Ends, Label
<1>2. ASSUME NEW h, NEW n, NEW a, NEW k, m = Label(h, n, g.quiet, a, k, FALSE) PROVE Ends(g, m)
  BY <1>2 DEF Ends, Label
<1>3. (m = g => Ends(g, m)) /\ (m = InUser => Ends(g, m))
  BY InUserFields DEF Ends
<1> QED
  BY <1>1, <1>2, <1>3 DEF Step

\* Nothing to do.
LEMMA FitsNil ==
    ASSUME NEW t, NEW a \in Labels
    PROVE  Fits(t, <<>>, a, a) /\ \A b : Fits(t, <<>>, a, b) => b = a
<1>1. Fits(t, <<>>, a, a)
  <2> DEFINE f == [i \in 1 .. 1 |-> a]
  <2>1. Len(<<>>) = 0 /\ Len(<<>>) + 1 = 1
    OBVIOUS
  <2>2. Leads(t, <<>>, f, a, a)
    BY <2>1 DEF Leads, Ends
  <2> QED
    BY <2>2 DEF Fits
<1>2. \A b : Fits(t, <<>>, a, b) => b = a
  BY DEF Fits, Leads
<1> QED
  BY <1>1, <1>2

\* One operation.
LEMMA FitsOne ==
    ASSUME NEW t, NEW a \in Labels, NEW b \in Labels, NEW op, Step(t, a, op, b)
    PROVE  Fits(t, <<op>>, a, b)
<1> DEFINE f == [i \in 1 .. 2 |-> IF i = 1 THEN a ELSE b]
           s == <<op>>
<1>1. Len(s) = 1 /\ Len(s) + 1 = 2 /\ s[1] = op
  OBVIOUS
<1>2. Ends(a, b) /\ Ends(a, a) /\ Ends(b, b)
  BY StepEnds DEF Ends
<1>3. f \in [1 .. 2 -> Labels] /\ f[1] = a /\ f[2] = b
  OBVIOUS
<1> HIDE DEF f, s
<1>4. \A i \in 1 .. Len(s) : i = 1 /\ i + 1 = 2
  BY <1>1
<1>5. \A i, j \in 1 .. Len(s) + 1 : i <= j => Ends(f[i], f[j])
  <2>1. \A i \in 1 .. 2 : i = 1 \/ i = 2
    OBVIOUS
  <2>2. ~(2 <= 1)
    OBVIOUS
  <2> QED
    BY <1>1, <1>2, <1>3, <2>1, <2>2
<1>6. Leads(t, s, f, a, b)
  BY <1>1, <1>3, <1>4, <1>5 DEF Leads
<1> QED
  BY <1>6 DEF Fits, s

\* One after the other.
LEMMA FitsConcat ==
    ASSUME NEW t, NEW r \in Seq(Ops), NEW s \in Seq(Ops), NEW a, NEW b, NEW c, Fits(t, r, a, b), Fits(t, s, b, c)
    PROVE  Fits(t, r \o s, a, c)
<1>1. PICK f : Leads(t, r, f, a, b)
  BY DEF Fits
<1>2. PICK g : Leads(t, s, g, b, c)
  BY DEF Fits
<1> DEFINE k == Len(r)
           n == Len(s)
           u == r \o s
           h == [i \in 1 .. k + n + 1 |-> IF i <= k THEN f[i] ELSE g[i - k]]
<1>3. k \in Nat /\ n \in Nat /\ Len(u) = k + n /\ (\A i \in 1 .. k : u[i] = r[i]) /\ \A i \in k + 1 .. k + n : u[i] = s[i - k]
  BY ConcatProperties
<1>4. /\ f \in [1 .. k + 1 -> Labels] /\ f[1] = a /\ f[k + 1] = b /\ g \in [1 .. n + 1 -> Labels] /\ g[1] = b /\ g[n + 1] = c
      /\ (\A i \in 1 .. k : Step(t, f[i], r[i], f[i + 1])) /\ (\A i \in 1 .. n : Step(t, g[i], s[i], g[i + 1]))
      /\ (\A i, j \in 1 .. k + 1 : i <= j => Ends(f[i], f[j])) /\ \A i, j \in 1 .. n + 1 : i <= j => Ends(g[i], g[j])
  BY <1>1, <1>2 DEF Leads
<1> HIDE DEF k, n, u
<1>5. /\ \A i \in 1 .. k + 1 : i \in 1 .. k + n + 1 /\ h[i] = f[i]
      /\ \A i \in 1 .. n + 1 : k + i \in 1 .. k + n + 1 /\ h[k + i] = g[i]
  <2>1. ASSUME NEW i \in 1 .. k + 1 PROVE i \in 1 .. k + n + 1 /\ h[i] = f[i]
    <3>1. i \in 1 .. k + n + 1
      BY <1>3
    <3>2. CASE i <= k
      BY <3>1, <3>2
    <3>3. CASE ~(i <= k)
      <4>1. i = k + 1 /\ i - k = 1
        BY <1>3, <3>3
      <4> QED
        BY <1>4, <3>1, <3>3, <4>1
    <3> QED
      BY <3>2, <3>3
  <2>2. ASSUME NEW i \in 1 .. n + 1 PROVE k + i \in 1 .. k + n + 1 /\ h[k + i] = g[i]
    <3>1. k + i \in 1 .. k + n + 1 /\ ~(k + i <= k) /\ (k + i) - k = i
      BY <1>3
    <3> QED
      BY <3>1
  <2> QED
    BY <2>1, <2>2
<1>6. \A i \in 1 .. k + n + 1 : i \in 1 .. k + 1 \/ (i - k \in 1 .. n + 1 /\ i = k + (i - k))
  BY <1>3
<1> HIDE DEF h
<1>7. \A i \in 1 .. k + n + 1 : h[i] \in Labels
  <2> SUFFICES ASSUME NEW i \in 1 .. k + n + 1
               PROVE  h[i] \in Labels
    OBVIOUS
  <2>1. CASE i \in 1 .. k + 1
    BY <1>4, <1>5, <2>1
  <2>2. CASE i - k \in 1 .. n + 1 /\ i = k + (i - k)
    BY <1>4, <1>5, <2>2
  <2> QED
    BY <1>6, <2>1, <2>2
<1>8. h \in [1 .. k + n + 1 -> Labels] /\ h[1] = a /\ h[k + n + 1] = c
  <2>1. h = [i \in 1 .. k + n + 1 |-> h[i]]
    BY DEF h
  <2>2. 1 \in 1 .. k + 1 /\ n + 1 \in 1 .. n + 1 /\ k + n + 1 = k + (n + 1)
    BY <1>3
  <2>3. h \in [1 .. k + n + 1 -> Labels]
    BY <1>7, <2>1
  <2>4. h[1] = f[1]
    BY <1>5, <2>2
  <2>5. h[k + (n + 1)] = g[n + 1]
    BY <1>5, <2>2
  <2> QED
    BY <1>4, <2>2, <2>3, <2>4, <2>5
<1>9. \A i \in 1 .. k + n : Step(t, h[i], u[i], h[i + 1])
  <2> SUFFICES ASSUME NEW i \in 1 .. k + n
               PROVE  Step(t, h[i], u[i], h[i + 1])
    OBVIOUS
  <2>1. CASE i <= k
    <3>1. i \in 1 .. k /\ i \in 1 .. k + 1 /\ i + 1 \in 1 .. k + 1
      BY <1>3, <2>1
    <3> QED
      BY <1>3, <1>4, <1>5, <3>1
  <2>2. CASE ~(i <= k)
    <3> DEFINE e == i - k
    <3>1. e \in 1 .. n /\ e \in 1 .. n + 1 /\ e + 1 \in 1 .. n + 1 /\ i = k + e /\ i + 1 = k + (e + 1) /\ i \in k + 1 .. k + n
      BY <1>3, <2>2
    <3>2. u[i] = s[e]
      BY <1>3, <3>1
    <3> HIDE DEF e
    <3>3. h[i] = g[e] /\ h[i + 1] = g[e + 1]
      BY <1>5, <3>1
    <3> QED
      BY <1>4, <3>1, <3>2, <3>3
  <2> QED
    BY <2>1, <2>2
<1>10. \A i, j \in 1 .. k + n + 1 : i <= j => Ends(h[i], h[j])
  <2> SUFFICES ASSUME NEW i \in 1 .. k + n + 1, NEW j \in 1 .. k + n + 1, i <= j
               PROVE  Ends(h[i], h[j])
    OBVIOUS
  <2>1. CASE i \in 1 .. k + 1 /\ j \in 1 .. k + 1
    BY <1>4, <1>5, <2>1
  <2> DEFINE x == i - k
             y == j - k
  <2>2. CASE x \in 1 .. n + 1 /\ y \in 1 .. n + 1
    <3>1. x <= y /\ i = k + x /\ j = k + y
      BY <1>3
    <3> HIDE DEF x, y
    <3> QED
      BY <1>4, <1>5, <2>2, <3>1
  <2>3. CASE i \in 1 .. k + 1 /\ y \in 1 .. n + 1
    <3>1. j = k + y /\ 1 <= y /\ 1 \in 1 .. n + 1 /\ i <= k + 1 /\ k + 1 \in 1 .. k + 1
      BY <1>3, <2>3
    <3> HIDE DEF y
    <3>2. Ends(f[i], f[k + 1]) /\ Ends(g[1], g[y])
      BY <1>4, <2>3, <3>1
    <3> QED
      BY <1>4, <1>5, <2>3, <3>1, <3>2 DEF Ends
  <2> QED
    BY <1>3, <2>1, <2>2, <2>3
<1>11. Leads(t, u, h, a, c)
  BY <1>3, <1>8, <1>9, <1>10 DEF Leads
<1> QED
  BY <1>11 DEF Fits, u

\* The first operation, and the rest.
LEMMA FitsTail ==
    ASSUME NEW t, NEW s \in Seq(Ops), s # <<>>, NEW a, NEW b, Fits(t, s, a, b)
    PROVE  \E m \in Labels : a \in Labels /\ Step(t, a, Head(s), m) /\ Fits(t, Tail(s), m, b)
<1>1. PICK f : Leads(t, s, f, a, b)
  BY DEF Fits
<1> DEFINE n == Len(s)
           r == Tail(s)
           g == [i \in 1 .. n |-> f[i + 1]]
<1>2. n \in Nat /\ n >= 1 /\ Head(s) = s[1] /\ Len(r) = n - 1 /\ \A i \in 1 .. n - 1 : r[i] = s[i + 1]
  BY HeadTailProperties
<1>3. /\ f \in [1 .. n + 1 -> Labels] /\ f[1] = a /\ f[n + 1] = b
      /\ (\A i \in 1 .. n : Step(t, f[i], s[i], f[i + 1])) /\ \A i, j \in 1 .. n + 1 : i <= j => Ends(f[i], f[j])
  BY <1>1 DEF Leads
<1> HIDE DEF n, r
<1>4. 1 \in 1 .. n /\ 1 \in 1 .. n + 1 /\ 2 \in 1 .. n + 1 /\ \A i \in 1 .. n : i + 1 \in 1 .. n + 1
  BY <1>2
<1>5. Step(t, a, Head(s), f[2]) /\ f[2] \in Labels /\ a \in Labels
  BY <1>2, <1>3, <1>4
<1>6. \A i \in 1 .. n : g[i] = f[i + 1] /\ g[i] \in Labels
  BY <1>3, <1>4
<1>7. g \in [1 .. n -> Labels]
  BY <1>6
<1> HIDE DEF g
<1>8. Leads(t, r, g, f[2], b)
  <2>1. Len(r) + 1 = n /\ 1 .. Len(r) = 1 .. n - 1
    BY <1>2
  <2>2. g[1] = f[2] /\ g[n] = b
    <3>1. 1 \in 1 .. n /\ n \in 1 .. n
      BY <1>2
    <3> QED
      BY <1>3, <1>6, <3>1
  <2>3. \A i \in 1 .. n - 1 : Step(t, g[i], r[i], g[i + 1])
    <3>1. \A i \in 1 .. n - 1 : i \in 1 .. n /\ i + 1 \in 1 .. n
      BY <1>2
    <3> QED
      BY <1>2, <1>3, <1>6, <3>1
  <2>4. \A i, j \in 1 .. n : i <= j => Ends(g[i], g[j])
    <3> SUFFICES ASSUME NEW i \in 1 .. n, NEW j \in 1 .. n, i <= j
                 PROVE  Ends(g[i], g[j])
      OBVIOUS
    <3>1. i + 1 <= j + 1 /\ i + 1 \in 1 .. n + 1 /\ j + 1 \in 1 .. n + 1
      BY <1>2
    <3> QED
      BY <1>3, <1>6, <3>1
  <2> QED
    BY <1>7, <2>1, <2>2, <2>3, <2>4 DEF Leads
<1> QED
  BY <1>5, <1>8 DEF Fits, r

\* A handler that is to return, and a clockintr with processes to wake, were
\* not left.
LEMMA FitsPending ==
    ASSUME NEW t, NEW s \in Seq(Ops), NEW a, NEW b, Fits(t, s, a, b), NEW i \in DOMAIN s
    PROVE  (s[i][1] = "iret" => a.quiet) /\ (s[i][1] \in {"tick", "wake"} => a.dev)
<1>1. PICK f : Leads(t, s, f, a, b)
  BY DEF Fits
<1>2. Len(s) \in Nat /\ i \in 1 .. Len(s)
  BY LenProperties
<1>3. 1 \in 1 .. Len(s) + 1 /\ i \in 1 .. Len(s) + 1 /\ 1 <= i
  BY <1>2
<1>4. Step(t, f[i], s[i], f[i + 1]) /\ Ends(f[1], f[i]) /\ f[1] = a
  BY <1>1, <1>2, <1>3 DEF Leads
<1>5. (s[i][1] = "iret" => f[i].quiet) /\ (s[i][1] \in {"tick", "wake"} => f[i].dev)
  BY <1>4 DEF Step
<1> QED
  BY <1>4, <1>5 DEF Ends

\* An operation in front.
LEMMA FitsCons ==
    ASSUME NEW t, NEW r \in Seq(Ops), r # <<>>, NEW a \in Labels, NEW m \in Labels, NEW b,
           Step(t, a, Head(r), m), Fits(t, Tail(r), m, b)
    PROVE  Fits(t, r, a, b)
<1>1. Head(r) \in Ops /\ Tail(r) \in Seq(Ops) /\ Len(Tail(r)) = Len(r) - 1 /\ \A i \in 1 .. Len(Tail(r)) : Tail(r)[i] = r[i + 1]
  BY HeadTailProperties
<1> DEFINE s == <<Head(r)>>
           u == Tail(r)
<1>2. s \in Seq(Ops) /\ Len(s) = 1 /\ s[1] = Head(r) /\ Head(r) = r[1] /\ Len(r) \in Nat \ {0} /\ u \in Seq(Ops)
  BY <1>1, EmptySeq
<1>3. Fits(t, s, a, m)
  BY FitsOne
<1> HIDE DEF s
<1>4. Fits(t, s \o u, a, b)
  BY <1>2, <1>3, FitsConcat
<1>5. Len(u) = Len(r) - 1 /\ \A i \in 1 .. Len(u) : u[i] = r[i + 1]
  BY <1>1
<1> HIDE DEF u
<1>6. s \o u \in Seq(Ops) /\ Len(s \o u) = Len(r) /\ \A i \in 1 .. Len(r) : (s \o u)[i] = IF i <= 1 THEN s[i] ELSE u[i - 1]
  <2>1. /\ s \o u \in Seq(Ops) /\ Len(s \o u) = Len(s) + Len(u)
        /\ \A i \in 1 .. Len(s) + Len(u) : (s \o u)[i] = IF i <= Len(s) THEN s[i] ELSE u[i - Len(s)]
    BY <1>2, ConcatProperties
  <2>2. Len(s) + Len(u) = Len(r)
    BY <1>2, <1>5
  <2> QED
    BY <1>2, <2>1, <2>2
<1>7. ASSUME NEW i \in 1 .. Len(r) PROVE (s \o u)[i] = r[i]
  <2>1. CASE i = 1
    BY <1>2, <1>6, <2>1
  <2>2. CASE i # 1
    <3>1. i - 1 \in 1 .. Len(u) /\ (i - 1) + 1 = i /\ ~(i <= 1)
      BY <1>2, <1>5, <2>2
    <3> QED
      BY <1>5, <1>6, <3>1
  <2> QED
    BY <2>1, <2>2
<1>8. s \o u = r
  BY <1>6, <1>7, SeqEqual
<1> QED
  BY <1>4, <1>8

-----------------------------------------------------------------------------
(* The code of the kernel.                                                   *)

\* Kernel code that holds no lock; quiet in a handler.
Calm(q) == Label({}, 0, q, FALSE, FALSE, FALSE)
Owner(l, q, a, k) == Label({l}, 1, q, a, k, FALSE)
InClock == Label({}, 0, TRUE, FALSE, FALSE, TRUE)

\* A thread in the kernel that holds no lock.
LEMMA CalmFields ==
    ASSUME NEW q \in BOOLEAN
    PROVE  Calm(q) \in Labels /\ Bare(Calm(q)) /\ Calm(q).quiet = q /\ Calm(FALSE) = InUser
<1>1. Calm(q) \in Labels
  BY LabelTyped DEF Calm
<1>2. Calm(FALSE) = InUser
  BY DEF Calm, InUser
<1>3. Bare(Calm(q)) /\ Calm(q).quiet = q
  BY DEF Calm, Label, Bare, Plain
<1> QED
  BY <1>1, <1>2, <1>3

\* Calm is the only label without a lock, up to quiet.
LEMMA BareIsCalm ==
    ASSUME NEW g \in Labels, Bare(g)
    PROVE  g = Calm(g.quiet)
<1>1. g = Label(g.held, g.noff, g.quiet, g.away, g.looked, g.dev) /\ g.away \in BOOLEAN /\ g.looked \in BOOLEAN /\ g.dev \in BOOLEAN
  BY LabelParts
<1>2. g.held = {} /\ g.noff = 0 /\ g.away = FALSE /\ g.looked = FALSE /\ g.dev = FALSE
  BY <1>1 DEF Bare, Plain
<1> QED
  BY <1>1, <1>2 DEF Calm

\* A thread that holds one lock.
LEMMA OwnerFields ==
    ASSUME NEW l \in SpinLocks, NEW q \in BOOLEAN, NEW a \in BOOLEAN, NEW k \in BOOLEAN
    PROVE  LET g == Owner(l, q, a, k) IN
           g \in Labels /\ With(g, l) /\ g.quiet = q /\ g.away = a /\ g.looked = k /\ ~g.dev
<1>1. Owner(l, q, a, k) \in Labels
  <2>1. {l} \in SUBSET SpinLocks /\ 1 \in {0, 1, 2} /\ ~(1 = 0)
    OBVIOUS
  <2> QED
    BY <2>1, LabelTyped, Zenon DEF Owner
<1> QED
  BY <1>1 DEF Owner, Label, With

\* An operation by its name and argument.
LEMMA OpTyped ==
    ASSUME NEW n \in OpNames, NEW x \in Threads \union Harts \union {TicksLock, "RUNNABLE", "SLEEPING", "ZOMBIE"}
    PROVE  Op(n, x) \in Ops /\ Op(n, x)[1] = n /\ Op(n, x)[2] = x
BY DEF Op, Ops

\* The operations that occur.
LEMMA OpsTyped ==
    /\ \A l \in SpinLocks : Acquire(l) \in Ops /\ Release(l) \in Ops /\ Op("spin", l) \in Ops
    /\ Op("sched", "RUNNABLE") \in Ops /\ Op("sched", "SLEEPING") \in Ops /\ Op("sched", "ZOMBIE") \in Ops /\ Op("sret", TicksLock) \in Ops
    /\ \A p \in Threads : Op("resume", p) \in Ops /\ Op("pick", p) \in Ops /\ Op("killed", p) \in Ops /\ Op("intr_on", p) \in Ops
    /\ \A p \in Threads : Op("kill", p) \in Ops /\ Op("start", p) \in Ops /\ Op("loop", p) \in Ops /\ Op("wake", p) \in Ops
    /\ \A c \in Harts : Op("resched", c) \in Ops /\ Op("iret", c) \in Ops /\ Op("tick", c) \in Ops
<1>1. \A l \in SpinLocks : Acquire(l) \in Ops /\ Release(l) \in Ops /\ Op("spin", l) \in Ops
  BY OpTyped DEF Acquire, Release, SpinLocks, OpNames
<1>2. Op("sched", "RUNNABLE") \in Ops /\ Op("sched", "SLEEPING") \in Ops /\ Op("sched", "ZOMBIE") \in Ops
  BY OpTyped DEF OpNames
<1>3. Op("sret", TicksLock) \in Ops
  BY OpTyped DEF OpNames
<1>4. \A p \in Threads : Op("resume", p) \in Ops /\ Op("pick", p) \in Ops /\ Op("killed", p) \in Ops /\ Op("intr_on", p) \in Ops
  BY OpTyped DEF OpNames
<1>5. \A p \in Threads : Op("kill", p) \in Ops /\ Op("start", p) \in Ops /\ Op("loop", p) \in Ops /\ Op("wake", p) \in Ops
  BY OpTyped DEF OpNames
<1>6. \A c \in Harts : Op("resched", c) \in Ops /\ Op("iret", c) \in Ops /\ Op("tick", c) \in Ops
  BY OpTyped DEF OpNames
<1> QED
  BY <1>1, <1>2, <1>3, <1>4, <1>5, <1>6

\* The steps of the kernel code.
LEMMA StepTake ==
    ASSUME NEW t, NEW l \in SpinLocks, NEW q \in BOOLEAN
    PROVE  Step(t, Calm(q), Acquire(l), Owner(l, q, FALSE, FALSE)) /\ Step(t, Owner(l, q, FALSE, FALSE), Release(l), Calm(q))
<1>1. LET g == Calm(q) IN g.held = {} /\ g.noff = 0 /\ g.quiet = q /\ g.away = FALSE /\ g.looked = FALSE /\ g.dev = FALSE
  BY DEF Calm, Label
<1>2. LET g == Owner(l, q, FALSE, FALSE) IN g.held = {l} /\ g.noff = 1 /\ g.quiet = q /\ g.away = FALSE /\ g.looked = FALSE /\ g.dev = FALSE
  BY DEF Owner, Label
<1>3. Acquire(l)[1] = "acquire" /\ Acquire(l)[2] = l /\ Release(l)[1] = "release" /\ Release(l)[2] = l
  BY DEF Acquire, Release, Op
<1>4. {} \union {l} = {l} /\ {l} \ {l} = {} /\ 0 + 1 = 1 /\ 1 - 1 = 0
  OBVIOUS
<1>5. Step(t, Calm(q), Acquire(l), Owner(l, q, FALSE, FALSE))
  <2>1. Owner(l, q, FALSE, FALSE) = Label({} \union {l}, 0 + 1, q, FALSE, FALSE, FALSE)
    BY <1>4 DEF Owner
  <2> QED
    BY <1>1, <1>3, <2>1, Zenon DEF Step
<1>6. Step(t, Owner(l, q, FALSE, FALSE), Release(l), Calm(q))
  <2>1. Calm(q) = Label({l} \ {l}, 1 - 1, q, FALSE, FALSE, FALSE)
    BY <1>4 DEF Calm
  <2> QED
    BY <1>2, <1>3, <2>1, Zenon DEF Step, With
<1> QED
  BY <1>5, <1>6

\* What sched expects and leaves, and what the restore of intena does.
LEMMA StepSwitch ==
    ASSUME NEW t \in Threads, NEW q \in BOOLEAN
    PROVE  /\ Step(t, Owner(t, q, FALSE, FALSE), Op("sched", "RUNNABLE"), Owner(t, q, TRUE, FALSE))
           /\ Step(t, Owner(t, q, FALSE, TRUE), Op("sched", "SLEEPING"), Owner(t, q, TRUE, FALSE))
           /\ Step(t, Owner(t, q, FALSE, FALSE), Op("sched", "ZOMBIE"), InUser)
           /\ Step(t, Owner(t, q, TRUE, FALSE), Op("resume", t), Owner(t, q, FALSE, FALSE))
<1>1. LET g == Owner(t, q, FALSE, FALSE) IN With(g, t) /\ g.quiet = q /\ ~g.away /\ ~g.looked /\ ~g.dev
  BY OwnerFields DEF SpinLocks
<1>2. LET g == Owner(t, q, FALSE, TRUE) IN With(g, t) /\ g.quiet = q /\ ~g.away /\ g.looked /\ ~g.dev
  BY OwnerFields DEF SpinLocks
<1>3. LET g == Owner(t, q, TRUE, FALSE) IN With(g, t) /\ g.quiet = q /\ g.away /\ ~g.looked /\ ~g.dev
  BY OwnerFields DEF SpinLocks
<1>4. ASSUME NEW g, NEW l \in {"RUNNABLE", "SLEEPING", "ZOMBIE"}, With(g, t), g.quiet = q, ~g.away, ~g.dev, g.looked <=> l = "SLEEPING"
      PROVE  Step(t, g, Op("sched", l), IF l = "ZOMBIE" THEN InUser ELSE Owner(t, q, TRUE, FALSE))
  <2>1. Op("sched", l)[1] = "sched" /\ Op("sched", l)[2] = l
    BY DEF Op
  <2> QED
    BY <1>4, <2>1, Zenon DEF Step, Owner
<1>5. Step(t, Owner(t, q, FALSE, FALSE), Op("sched", "RUNNABLE"), Owner(t, q, TRUE, FALSE))
  BY <1>1, <1>4
<1>6. Step(t, Owner(t, q, FALSE, TRUE), Op("sched", "SLEEPING"), Owner(t, q, TRUE, FALSE))
  BY <1>2, <1>4
<1>7. Step(t, Owner(t, q, FALSE, FALSE), Op("sched", "ZOMBIE"), InUser)
  BY <1>1, <1>4
<1>8. Step(t, Owner(t, q, TRUE, FALSE), Op("resume", t), Owner(t, q, FALSE, FALSE))
  <2>1. Op("resume", t)[1] = "resume" /\ Op("resume", t)[2] = t
    BY DEF Op
  <2>2. Owner(t, q, FALSE, FALSE) = Label({t}, 1, q, FALSE, FALSE, FALSE)
    BY DEF Owner
  <2> QED
    BY <1>3, <2>1, <2>2, Zenon DEF Step
<1> QED
  BY <1>5, <1>6, <1>7, <1>8

\* yield
LEMMA FitsYield ==
    ASSUME NEW t \in Threads, NEW q \in BOOLEAN
    PROVE  Yield(t) \in Seq(Ops) /\ Fits(t, Yield(t), Calm(q), Calm(q))
<1>1. Calm(q) \in Labels /\ t \in SpinLocks /\ \A a, k \in BOOLEAN : Owner(t, q, a, k) \in Labels
  BY CalmFields, OwnerFields DEF SpinLocks
<1> DEFINE x1 == Acquire(t)
           x2 == Op("sched", "RUNNABLE")
           x3 == Op("resume", t)
           x4 == Release(t)
<1>2. x1 \in Ops /\ x2 \in Ops /\ x3 \in Ops /\ x4 \in Ops
  BY <1>1, OpsTyped
<1>3. /\ Step(t, Calm(q), x1, Owner(t, q, FALSE, FALSE)) /\ Step(t, Owner(t, q, FALSE, FALSE), x2, Owner(t, q, TRUE, FALSE))
      /\ Step(t, Owner(t, q, TRUE, FALSE), x3, Owner(t, q, FALSE, FALSE)) /\ Step(t, Owner(t, q, FALSE, FALSE), x4, Calm(q))
  BY <1>1, StepTake, StepSwitch
<1>4. Yield(t) = <<x1, x2, x3, x4>>
  BY DEF Yield
<1> HIDE DEF x1, x2, x3, x4
<1>5. Fits(t, <<x4>>, Owner(t, q, FALSE, FALSE), Calm(q))
  BY <1>1, <1>3, FitsOne
<1>6. Fits(t, <<x3, x4>>, Owner(t, q, TRUE, FALSE), Calm(q))
  <2>1. <<x3, x4>> \in Seq(Ops) /\ <<x3, x4>> # <<>> /\ Head(<<x3, x4>>) = x3 /\ Tail(<<x3, x4>>) = <<x4>>
    BY <1>2
  <2> QED
    BY <1>1, <1>3, <1>5, <2>1, FitsCons
<1>7. Fits(t, <<x2, x3, x4>>, Owner(t, q, FALSE, FALSE), Calm(q))
  <2>1. <<x2, x3, x4>> \in Seq(Ops) /\ <<x2, x3, x4>> # <<>> /\ Head(<<x2, x3, x4>>) = x2 /\ Tail(<<x2, x3, x4>>) = <<x3, x4>>
    BY <1>2
  <2> QED
    BY <1>1, <1>3, <1>6, <2>1, FitsCons
<1>8. <<x1, x2, x3, x4>> \in Seq(Ops) /\ <<x1, x2, x3, x4>> # <<>> /\ Head(<<x1, x2, x3, x4>>) = x1 /\ Tail(<<x1, x2, x3, x4>>) = <<x2, x3, x4>>
  BY <1>2
<1> QED
  BY <1>1, <1>3, <1>4, <1>7, <1>8, FitsCons

\* sys_sleep with both locks.
Both(t, q) == Label({TicksLock, t}, 2, q, FALSE, TRUE, FALSE)

\* sleep holds tickslock and p->lock at once.
LEMMA BothFields ==
    ASSUME NEW t \in Threads, NEW q \in BOOLEAN
    PROVE  LET g == Both(t, q) IN
           g \in Labels /\ g.held = {TicksLock, t} /\ g.noff = 2 /\ g.quiet = q /\ ~g.away /\ g.looked /\ ~g.dev
<1>1. Both(t, q) \in Labels
  <2>1. {TicksLock, t} \in SUBSET SpinLocks /\ 2 \in {0, 1, 2} /\ ~(2 = 0)
    BY DEF SpinLocks
  <2> QED
    BY <2>1, LabelTyped, Zenon DEF Both
<1> QED
  BY <1>1 DEF Both, Label

\* sleep takes p->lock and gives tickslock up.
LEMMA StepLook ==
    ASSUME NEW t \in Threads, NEW q \in BOOLEAN
    PROVE  Step(t, Owner(TicksLock, q, FALSE, TRUE), Acquire(t), Both(t, q)) /\ Step(t, Both(t, q), Release(TicksLock), Owner(t, q, FALSE, TRUE))
<1>1. LET g == Owner(TicksLock, q, FALSE, TRUE) IN
      With(g, TicksLock) /\ g.held = {TicksLock} /\ g.noff = 1 /\ g.quiet = q /\ ~g.away /\ g.looked = TRUE /\ g.dev = FALSE
  BY DEF Owner, Label, With
<1>2. LET g == Both(t, q) IN g.held = {TicksLock, t} /\ g.noff = 2 /\ g.quiet = q /\ ~g.away /\ g.looked = TRUE /\ g.dev = FALSE
  BY DEF Both, Label
<1>3. Acquire(t)[1] = "acquire" /\ Acquire(t)[2] = t /\ Release(TicksLock)[1] = "release" /\ Release(TicksLock)[2] = TicksLock
  BY DEF Acquire, Release, Op
<1>4. TicksLock # t /\ t \in SpinLocks
  BY InterruptAssumption DEF SpinLocks
<1>5. {TicksLock} \union {t} = {TicksLock, t} /\ {TicksLock, t} \ {TicksLock} = {t} /\ 1 + 1 = 2 /\ 2 - 1 = 1
  BY <1>4
<1>6. Both(t, q) = Label({TicksLock} \union {t}, 1 + 1, q, FALSE, TRUE, FALSE) /\ Owner(t, q, FALSE, TRUE) = Label({TicksLock, t} \ {TicksLock}, 2 - 1, q, FALSE, TRUE, FALSE)
  BY <1>5 DEF Both, Owner
<1>7. Step(t, Owner(TicksLock, q, FALSE, TRUE), Acquire(t), Both(t, q))
  BY <1>1, <1>3, <1>4, <1>6, Zenon DEF Step
<1>8. Step(t, Both(t, q), Release(TicksLock), Owner(t, q, FALSE, TRUE))
  BY <1>2, <1>3, <1>6, Zenon DEF Step
<1> QED
  BY <1>7, <1>8

\* The operations without a lock.
LEMMA StepCalm ==
    ASSUME NEW t, NEW q \in BOOLEAN
    PROVE  /\ \A x : Step(t, Calm(q), Op("intr_on", x), InUser) /\ Step(t, Calm(q), Op("sret", x), InUser)
           /\ \A x : Step(t, Calm(q), Op("resched", x), Calm(q)) /\ (q => Step(t, Calm(q), Op("iret", x), InUser))
           /\ \A p \in Threads : Step(t, Calm(q), Op("kill", p), Calm(q))
           /\ t \in Threads => Step(t, Calm(q), Op("killed", t), Calm(q))
<1>1. Bare(Calm(q)) /\ Calm(q).quiet = q
  BY CalmFields
<1>3. ASSUME NEW x PROVE Step(t, Calm(q), Op("intr_on", x), InUser) /\ Step(t, Calm(q), Op("sret", x), InUser)
  <2>1. Op("intr_on", x)[1] \in {"intr_on", "sret"} /\ Op("sret", x)[1] \in {"intr_on", "sret"}
    BY DEF Op
  <2> QED
    BY <1>1, <2>1, Zenon DEF Step
<1>4. ASSUME NEW x PROVE Step(t, Calm(q), Op("resched", x), Calm(q)) /\ (q => Step(t, Calm(q), Op("iret", x), InUser))
  <2>1. Op("resched", x)[1] = "resched" /\ Op("iret", x)[1] = "iret"
    BY DEF Op
  <2> QED
    BY <1>1, <2>1, Zenon DEF Step
<1>5. ASSUME NEW p \in Threads PROVE Step(t, Calm(q), Op("kill", p), Calm(q))
  <2>1. Op("kill", p)[1] = "kill" /\ Op("kill", p)[2] = p
    BY DEF Op
  <2> QED
    BY <1>1, <2>1, Zenon DEF Step
<1>6. ASSUME t \in Threads PROVE Step(t, Calm(q), Op("killed", t), Calm(q))
  <2>1. Op("killed", t)[1] = "killed" /\ Op("killed", t)[2] = t
    BY DEF Op
  <2> QED
    BY <1>1, <1>6, <2>1, Zenon DEF Step
<1> QED
  BY <1>3, <1>4, <1>5, <1>6

\* sys_sleep with tickslock.
LEMMA StepSleep ==
    ASSUME NEW t \in Threads, NEW q \in BOOLEAN
    PROVE  /\ Step(t, Owner(TicksLock, q, FALSE, FALSE), Op("start", t), Owner(TicksLock, q, FALSE, FALSE))
           /\ Step(t, Owner(TicksLock, q, FALSE, FALSE), Op("loop", t), Calm(q))
<1>1. LET g == Owner(TicksLock, q, FALSE, FALSE) IN With(g, TicksLock) /\ Plain(g) /\ g.quiet = q /\ ~g.dev
  BY OwnerFields DEF SpinLocks, Plain
<1>2. Op("start", t)[1] = "start" /\ Op("start", t)[2] = t /\ Op("loop", t)[1] = "loop" /\ Op("loop", t)[2] = t
  BY DEF Op
<1>3. Step(t, Owner(TicksLock, q, FALSE, FALSE), Op("start", t), Owner(TicksLock, q, FALSE, FALSE))
  BY <1>1, <1>2, Zenon DEF Step
<1>4. Step(t, Owner(TicksLock, q, FALSE, FALSE), Op("loop", t), Calm(q))
  <2>1. Calm(q) = Label({}, 0, q, FALSE, FALSE, FALSE)
    BY DEF Calm
  <2> QED
    BY <1>1, <1>2, <2>1, Zenon DEF Step
<1> QED
  BY <1>3, <1>4

\* The scheduler.
LEMMA StepPick ==
    ASSUME NEW c \in Harts, NEW p \in Threads
    PROVE  Step(c, Owner(p, FALSE, FALSE, FALSE), Op("pick", p), Owner(p, FALSE, FALSE, FALSE))
<1>1. LET g == Owner(p, FALSE, FALSE, FALSE) IN With(g, p) /\ Plain(g) /\ ~g.quiet
  BY OwnerFields DEF SpinLocks, Plain
<1>2. Op("pick", p)[1] = "pick" /\ Op("pick", p)[2] = p
  BY DEF Op
<1> QED
  BY <1>1, <1>2, Zenon DEF Step

\* One after the other.
LEMMA FitsJoin ==
    ASSUME NEW t, NEW r \in Seq(Ops), NEW s \in Seq(Ops), NEW a, NEW b, NEW c, Fits(t, r, a, b), Fits(t, s, b, c)
    PROVE  r \o s \in Seq(Ops) /\ Fits(t, r \o s, a, c)
BY FitsConcat, ConcatProperties

\* sleep.
LEMMA FitsSleepOn ==
    ASSUME NEW t \in Threads, NEW q \in BOOLEAN
    PROVE  SleepOn(t) \in Seq(Ops) /\ Fits(t, SleepOn(t), Owner(TicksLock, q, FALSE, TRUE), Owner(TicksLock, q, FALSE, FALSE))
<1>0. t \in SpinLocks /\ TicksLock \in SpinLocks
  BY DEF SpinLocks
<1>9. SleepOn(t) = <<Acquire(t), Release(TicksLock), Op("sched", "SLEEPING"), Op("resume", t), Release(t), Acquire(TicksLock)>>
  BY DEF SleepOn
<1> DEFINE x1 == Acquire(t)
           x2 == Release(TicksLock)
           x3 == Op("sched", "SLEEPING")
           x4 == Op("resume", t)
           x5 == Release(t)
           x6 == Acquire(TicksLock)
<1>1. x1 \in Ops /\ x2 \in Ops /\ x3 \in Ops /\ x4 \in Ops /\ x5 \in Ops /\ x6 \in Ops
  BY <1>0, OpsTyped
<1>2. Owner(TicksLock, q, FALSE, TRUE) \in Labels /\ Both(t, q) \in Labels /\ Owner(t, q, FALSE, TRUE) \in Labels /\ Owner(t, q, TRUE, FALSE) \in Labels /\ Owner(t, q, FALSE, FALSE) \in Labels /\ Calm(q) \in Labels /\ Owner(TicksLock, q, FALSE, FALSE) \in Labels
  BY <1>0, OpsTyped, CalmFields, OwnerFields, BothFields, InUserFields
<1>3. Step(t, Owner(TicksLock, q, FALSE, TRUE), x1, Both(t, q)) /\ Step(t, Both(t, q), x2, Owner(t, q, FALSE, TRUE)) /\ Step(t, Owner(t, q, FALSE, TRUE), x3, Owner(t, q, TRUE, FALSE)) /\ Step(t, Owner(t, q, TRUE, FALSE), x4, Owner(t, q, FALSE, FALSE)) /\ Step(t, Owner(t, q, FALSE, FALSE), x5, Calm(q)) /\ Step(t, Calm(q), x6, Owner(TicksLock, q, FALSE, FALSE))
  BY <1>0, StepLook, StepSwitch, StepTake, StepSleep
<1> HIDE DEF x1, x2, x3, x4, x5, x6
<1>10. Fits(t, <<x6>>, Calm(q), Owner(TicksLock, q, FALSE, FALSE))
  BY <1>1, <1>2, <1>3, FitsOne
<1>11. <<x5, x6>> \in Seq(Ops) /\ Fits(t, <<x5, x6>>, Owner(t, q, FALSE, FALSE), Owner(TicksLock, q, FALSE, FALSE))
  <2>1. <<x5, x6>> \in Seq(Ops) /\ <<x5, x6>> # <<>> /\ Head(<<x5, x6>>) = x5 /\ Tail(<<x5, x6>>) = <<x6>>
    BY <1>1, <1>2, <1>3
  <2> QED
    BY <1>1, <1>2, <1>3, <1>10, <2>1, FitsCons
<1>12. <<x4, x5, x6>> \in Seq(Ops) /\ Fits(t, <<x4, x5, x6>>, Owner(t, q, TRUE, FALSE), Owner(TicksLock, q, FALSE, FALSE))
  <2>1. <<x4, x5, x6>> \in Seq(Ops) /\ <<x4, x5, x6>> # <<>> /\ Head(<<x4, x5, x6>>) = x4 /\ Tail(<<x4, x5, x6>>) = <<x5, x6>>
    BY <1>1, <1>2, <1>3
  <2> QED
    BY <1>1, <1>2, <1>3, <1>11, <2>1, FitsCons
<1>13. <<x3, x4, x5, x6>> \in Seq(Ops) /\ Fits(t, <<x3, x4, x5, x6>>, Owner(t, q, FALSE, TRUE), Owner(TicksLock, q, FALSE, FALSE))
  <2>1. <<x3, x4, x5, x6>> \in Seq(Ops) /\ <<x3, x4, x5, x6>> # <<>> /\ Head(<<x3, x4, x5, x6>>) = x3 /\ Tail(<<x3, x4, x5, x6>>) = <<x4, x5, x6>>
    BY <1>1, <1>2, <1>3
  <2> QED
    BY <1>1, <1>2, <1>3, <1>12, <2>1, FitsCons
<1>14. <<x2, x3, x4, x5, x6>> \in Seq(Ops) /\ Fits(t, <<x2, x3, x4, x5, x6>>, Both(t, q), Owner(TicksLock, q, FALSE, FALSE))
  <2>1. <<x2, x3, x4, x5, x6>> \in Seq(Ops) /\ <<x2, x3, x4, x5, x6>> # <<>> /\ Head(<<x2, x3, x4, x5, x6>>) = x2 /\ Tail(<<x2, x3, x4, x5, x6>>) = <<x3, x4, x5, x6>>
    BY <1>1, <1>2, <1>3
  <2> QED
    BY <1>1, <1>2, <1>3, <1>13, <2>1, FitsCons
<1>15. <<x1, x2, x3, x4, x5, x6>> \in Seq(Ops) /\ Fits(t, <<x1, x2, x3, x4, x5, x6>>, Owner(TicksLock, q, FALSE, TRUE), Owner(TicksLock, q, FALSE, FALSE))
  <2>1. <<x1, x2, x3, x4, x5, x6>> \in Seq(Ops) /\ <<x1, x2, x3, x4, x5, x6>> # <<>> /\ Head(<<x1, x2, x3, x4, x5, x6>>) = x1 /\ Tail(<<x1, x2, x3, x4, x5, x6>>) = <<x2, x3, x4, x5, x6>>
    BY <1>1, <1>2, <1>3
  <2> QED
    BY <1>1, <1>2, <1>3, <1>14, <2>1, FitsCons
<1> QED
  BY <1>15, <1>9 DEF x1, x2, x3, x4, x5, x6

\* sleep, and the next look at ticks.
LEMMA FitsLoop ==
    ASSUME NEW t \in Threads, NEW q \in BOOLEAN
    PROVE  /\ SleepOn(t) \o <<Op("loop", t)>> \in Seq(Ops)
           /\ Fits(t, SleepOn(t) \o <<Op("loop", t)>>, Owner(TicksLock, q, FALSE, TRUE), Calm(q))
<1>1. Owner(TicksLock, q, FALSE, FALSE) \in Labels /\ Calm(q) \in Labels
  BY OwnerFields, CalmFields DEF SpinLocks
<1>2. Fits(t, <<Op("loop", t)>>, Owner(TicksLock, q, FALSE, FALSE), Calm(q))
  BY <1>1, StepSleep, FitsOne
<1>3. <<Op("loop", t)>> \in Seq(Ops)
  BY OpsTyped
<1> DEFINE r == SleepOn(t)
           s == <<Op("loop", t)>>
<1>4. r \in Seq(Ops) /\ Fits(t, r, Owner(TicksLock, q, FALSE, TRUE), Owner(TicksLock, q, FALSE, FALSE))
  BY FitsSleepOn
<1> HIDE DEF r, s
<1>5. s \in Seq(Ops) /\ Fits(t, s, Owner(TicksLock, q, FALSE, FALSE), Calm(q))
  BY <1>2, <1>3 DEF s
<1>6. r \o s \in Seq(Ops) /\ Fits(t, r \o s, Owner(TicksLock, q, FALSE, TRUE), Calm(q))
  BY <1>4, <1>5, FitsJoin
<1>7. r \o s = SleepOn(t) \o <<Op("loop", t)>>
  BY DEF r, s
<1> QED
  BY <1>6, <1>7, Zenon

\* From a system call back to user mode.
LEMMA FitsSystemCall ==
    ASSUME NEW t \in Threads, NEW body \in Seq(Ops), Fits(t, body, InUser, InUser)
    PROVE  SystemCall(t, body) \in Seq(Ops) /\ Fits(t, SystemCall(t, body), InUser, InUser)
<1>1. InUser = Calm(FALSE) /\ InUser \in Labels
  BY CalmFields
<1> DEFINE x1 == Op("killed", t)
           x2 == Op("intr_on", t)
           x3 == Op("sret", TicksLock)
<1>2. x1 \in Ops /\ x2 \in Ops /\ x3 \in Ops
  BY OpsTyped
<1>3. Step(t, InUser, x1, InUser) /\ Step(t, InUser, x2, InUser) /\ Step(t, InUser, x3, InUser)
  BY <1>1, StepCalm
<1>4. SystemCall(t, body) = ((<<x1, x2>> \o body) \o <<x1>>) \o <<x3>>
  BY DEF SystemCall, UserTrapRet
<1> HIDE DEF x1, x2, x3
<1>5. Fits(t, <<x1>>, InUser, InUser) /\ Fits(t, <<x2>>, InUser, InUser) /\ Fits(t, <<x3>>, InUser, InUser)
  BY <1>1, <1>3, FitsOne
<1>6. <<x1, x2>> \in Seq(Ops) /\ Fits(t, <<x1, x2>>, InUser, InUser)
  <2>1. <<x1, x2>> \in Seq(Ops) /\ <<x1, x2>> # <<>> /\ Head(<<x1, x2>>) = x1 /\ Tail(<<x1, x2>>) = <<x2>>
    BY <1>2
  <2> QED
    BY <1>1, <1>3, <1>5, <2>1, FitsCons
<1>7. <<x1>> \in Seq(Ops) /\ <<x3>> \in Seq(Ops)
  BY <1>2
<1>8. (<<x1, x2>> \o body) \in Seq(Ops) /\ Fits(t, <<x1, x2>> \o body, InUser, InUser)
  BY <1>6, FitsJoin
<1>9. ((<<x1, x2>> \o body) \o <<x1>>) \in Seq(Ops) /\ Fits(t, (<<x1, x2>> \o body) \o <<x1>>, InUser, InUser)
  BY <1>5, <1>7, <1>8, FitsJoin
<1> DEFINE u == (<<x1, x2>> \o body) \o <<x1>>
           v == <<x3>>
<1>10. u \in Seq(Ops) /\ Fits(t, u, InUser, InUser) /\ v \in Seq(Ops) /\ Fits(t, v, InUser, InUser)
  BY <1>5, <1>7, <1>9
<1>11. SystemCall(t, body) = u \o v
  BY <1>4
<1> HIDE DEF u, v
<1>12. u \o v \in Seq(Ops) /\ Fits(t, u \o v, InUser, InUser)
  BY <1>10, FitsJoin
<1> QED
  BY <1>11, <1>12, Zenon

\* exit.
LEMMA FitsExit ==
    ASSUME NEW t \in Threads, NEW q \in BOOLEAN
    PROVE  ExitNow(t) \in Seq(Ops) /\ Fits(t, ExitNow(t), Calm(q), InUser)
<1>0. t \in SpinLocks /\ TicksLock \in SpinLocks
  BY DEF SpinLocks
<1>9. ExitNow(t) = <<Acquire(t), Op("sched", "ZOMBIE")>>
  BY DEF ExitNow
<1> DEFINE x1 == Acquire(t)
           x2 == Op("sched", "ZOMBIE")
<1>1. x1 \in Ops /\ x2 \in Ops
  BY <1>0, OpsTyped
<1>2. Calm(q) \in Labels /\ Owner(t, q, FALSE, FALSE) \in Labels /\ InUser \in Labels
  BY <1>0, OpsTyped, CalmFields, OwnerFields, BothFields, InUserFields
<1>3. Step(t, Calm(q), x1, Owner(t, q, FALSE, FALSE)) /\ Step(t, Owner(t, q, FALSE, FALSE), x2, InUser)
  BY <1>0, StepSwitch, StepTake
<1> HIDE DEF x1, x2
<1>10. Fits(t, <<x2>>, Owner(t, q, FALSE, FALSE), InUser)
  BY <1>1, <1>2, <1>3, FitsOne
<1>11. <<x1, x2>> \in Seq(Ops) /\ Fits(t, <<x1, x2>>, Calm(q), InUser)
  <2>1. <<x1, x2>> \in Seq(Ops) /\ <<x1, x2>> # <<>> /\ Head(<<x1, x2>>) = x1 /\ Tail(<<x1, x2>>) = <<x2>>
    BY <1>1, <1>2, <1>3
  <2> QED
    BY <1>1, <1>2, <1>3, <1>10, <2>1, FitsCons
<1> QED
  BY <1>11, <1>9 DEF x1, x2

\* The scheduler at one process.
LEMMA FitsScheduler ==
    ASSUME NEW c \in Harts, NEW p \in Threads
    PROVE  <<Acquire(p), Op("pick", p), Release(p)>> \in Seq(Ops) /\ Fits(c, <<Acquire(p), Op("pick", p), Release(p)>>, InUser, InUser)
<1>0. p \in SpinLocks
  BY DEF SpinLocks
<1>9. InUser = Calm(FALSE)
  BY CalmFields
<1> DEFINE x1 == Acquire(p)
           x2 == Op("pick", p)
           x3 == Release(p)
<1>1. x1 \in Ops /\ x2 \in Ops /\ x3 \in Ops
  BY <1>0, OpsTyped
<1>2. InUser \in Labels /\ Owner(p, FALSE, FALSE, FALSE) \in Labels
  BY <1>0, OpsTyped, CalmFields, OwnerFields, BothFields, InUserFields
<1>3. Step(c, InUser, x1, Owner(p, FALSE, FALSE, FALSE)) /\ Step(c, Owner(p, FALSE, FALSE, FALSE), x2, Owner(p, FALSE, FALSE, FALSE)) /\ Step(c, Owner(p, FALSE, FALSE, FALSE), x3, InUser)
  BY <1>0, <1>9, StepTake, StepPick
<1> HIDE DEF x1, x2, x3
<1>10. Fits(c, <<x3>>, Owner(p, FALSE, FALSE, FALSE), InUser)
  BY <1>1, <1>2, <1>3, FitsOne
<1>11. <<x2, x3>> \in Seq(Ops) /\ Fits(c, <<x2, x3>>, Owner(p, FALSE, FALSE, FALSE), InUser)
  <2>1. <<x2, x3>> \in Seq(Ops) /\ <<x2, x3>> # <<>> /\ Head(<<x2, x3>>) = x2 /\ Tail(<<x2, x3>>) = <<x3>>
    BY <1>1, <1>2, <1>3
  <2> QED
    BY <1>1, <1>2, <1>3, <1>10, <2>1, FitsCons
<1>12. <<x1, x2, x3>> \in Seq(Ops) /\ Fits(c, <<x1, x2, x3>>, InUser, InUser)
  <2>1. <<x1, x2, x3>> \in Seq(Ops) /\ <<x1, x2, x3>> # <<>> /\ Head(<<x1, x2, x3>>) = x1 /\ Tail(<<x1, x2, x3>>) = <<x2, x3>>
    BY <1>1, <1>2, <1>3
  <2> QED
    BY <1>1, <1>2, <1>3, <1>11, <2>1, FitsCons
<1> QED
  BY <1>12, <1>0 DEF x1, x2, x3

\* sleep(n).
LEMMA FitsSysSleep ==
    ASSUME NEW t \in Threads
    PROVE  LET s == <<Acquire(TicksLock), Op("start", t), Op("loop", t)>> IN s \in Seq(Ops) /\ Fits(t, s, InUser, InUser)
<1>0. t \in SpinLocks /\ TicksLock \in SpinLocks
  BY DEF SpinLocks
<1>8. InUser = Calm(FALSE)
  BY CalmFields
<1> DEFINE x1 == Acquire(TicksLock)
           x2 == Op("start", t)
           x3 == Op("loop", t)
<1>1. x1 \in Ops /\ x2 \in Ops /\ x3 \in Ops
  BY <1>0, OpsTyped
<1>2. InUser \in Labels /\ Owner(TicksLock, FALSE, FALSE, FALSE) \in Labels
  BY <1>0, OpsTyped, CalmFields, OwnerFields, BothFields, InUserFields
<1>3. Step(t, InUser, x1, Owner(TicksLock, FALSE, FALSE, FALSE)) /\ Step(t, Owner(TicksLock, FALSE, FALSE, FALSE), x2, Owner(TicksLock, FALSE, FALSE, FALSE)) /\ Step(t, Owner(TicksLock, FALSE, FALSE, FALSE), x3, InUser)
  BY <1>0, <1>8, StepTake, StepSleep
<1> HIDE DEF x1, x2, x3
<1>10. Fits(t, <<x3>>, Owner(TicksLock, FALSE, FALSE, FALSE), InUser)
  BY <1>1, <1>2, <1>3, FitsOne
<1>11. <<x2, x3>> \in Seq(Ops) /\ Fits(t, <<x2, x3>>, Owner(TicksLock, FALSE, FALSE, FALSE), InUser)
  <2>1. <<x2, x3>> \in Seq(Ops) /\ <<x2, x3>> # <<>> /\ Head(<<x2, x3>>) = x2 /\ Tail(<<x2, x3>>) = <<x3>>
    BY <1>1, <1>2, <1>3
  <2> QED
    BY <1>1, <1>2, <1>3, <1>10, <2>1, FitsCons
<1>12. <<x1, x2, x3>> \in Seq(Ops) /\ Fits(t, <<x1, x2, x3>>, InUser, InUser)
  <2>1. <<x1, x2, x3>> \in Seq(Ops) /\ <<x1, x2, x3>> # <<>> /\ Head(<<x1, x2, x3>>) = x1 /\ Tail(<<x1, x2, x3>>) = <<x2, x3>>
    BY <1>1, <1>2, <1>3
  <2> QED
    BY <1>1, <1>2, <1>3, <1>11, <2>1, FitsCons
<1> QED
  BY <1>12, <1>0 DEF x1, x2, x3

\* The end of a handler.
LEMMA FitsReturn ==
    ASSUME NEW t, NEW c \in Harts
    PROVE  <<Op("resched", c), Op("iret", c)>> \in Seq(Ops) /\ Fits(t, <<Op("resched", c), Op("iret", c)>>, Calm(TRUE), InUser)
<1> DEFINE x1 == Op("resched", c)
           x2 == Op("iret", c)
<1>1. x1 \in Ops /\ x2 \in Ops
  BY OpsTyped
<1>2. Calm(TRUE) \in Labels /\ InUser \in Labels
  BY OpsTyped, CalmFields, OwnerFields, BothFields, InUserFields
<1>3. Step(t, Calm(TRUE), x1, Calm(TRUE)) /\ Step(t, Calm(TRUE), x2, InUser)
  BY StepCalm
<1> HIDE DEF x1, x2
<1>10. Fits(t, <<x2>>, Calm(TRUE), InUser)
  BY <1>1, <1>2, <1>3, FitsOne
<1>11. <<x1, x2>> \in Seq(Ops) /\ Fits(t, <<x1, x2>>, Calm(TRUE), InUser)
  <2>1. <<x1, x2>> \in Seq(Ops) /\ <<x1, x2>> # <<>> /\ Head(<<x1, x2>>) = x1 /\ Tail(<<x1, x2>>) = <<x2>>
    BY <1>1, <1>2, <1>3
  <2> QED
    BY <1>1, <1>2, <1>3, <1>10, <2>1, FitsCons
<1> QED
  BY <1>11, OpsTyped DEF x1, x2

-----------------------------------------------------------------------------
(* The clock interrupt.                                                      *)

\* clockintr with tickslock.
InTick == Label({TicksLock}, 1, TRUE, FALSE, FALSE, TRUE)

\* clockintr before it has tickslock and while it holds it.
LEMMA ClockFields ==
    /\ InClock \in Labels /\ InClock.held = {} /\ InClock.noff = 0 /\ InClock.quiet = TRUE /\ InClock.away = FALSE /\ InClock.looked = FALSE /\ InClock.dev = TRUE
    /\ InTick \in Labels /\ With(InTick, TicksLock) /\ Plain(InTick) /\ InTick.quiet = TRUE /\ InTick.dev = TRUE
    /\ InTick.held = {TicksLock} /\ InTick.noff = 1 /\ InTick.looked = FALSE
<1>1. InClock \in Labels
  BY LabelTyped DEF InClock
<1>2. InTick \in Labels
  <2>1. {TicksLock} \in SUBSET SpinLocks
    BY DEF SpinLocks
  <2>2. 1 \in {0, 1, 2} /\ ~(1 = 0)
    OBVIOUS
  <2> QED
    BY <2>1, <2>2, LabelTyped, Zenon DEF InTick
<1> QED
  BY <1>1, <1>2 DEF InClock, InTick, Label, With, Plain

\* The operations of clockintr, one by one.
LEMMA StepClock ==
    ASSUME NEW t
    PROVE  /\ Step(t, InClock, Acquire(TicksLock), InTick) /\ Step(t, InTick, Release(TicksLock), Calm(TRUE))
           /\ \A x : Step(t, InTick, Op("tick", x), InTick)
           /\ \A p \in Threads : Step(t, InTick, Op("wake", p), InTick)
<1>1. Acquire(TicksLock)[1] = "acquire" /\ Acquire(TicksLock)[2] = TicksLock /\ Release(TicksLock)[1] = "release" /\ Release(TicksLock)[2] = TicksLock
  BY DEF Acquire, Release, Op
<1>2. {} \union {TicksLock} = {TicksLock} /\ {TicksLock} \ {TicksLock} = {} /\ 0 + 1 = 1 /\ 1 - 1 = 0 /\ TicksLock \in SpinLocks
  BY DEF SpinLocks
<1>3. InTick = Label({} \union {TicksLock}, 0 + 1, TRUE, FALSE, FALSE, TRUE) /\ Calm(TRUE) = Label({TicksLock} \ {TicksLock}, 1 - 1, TRUE, FALSE, FALSE, FALSE)
  BY <1>2 DEF InTick, Calm
<1>4. Step(t, InClock, Acquire(TicksLock), InTick)
  <2>1. InClock.held = {} /\ InClock.noff = 0 /\ InClock.quiet = TRUE /\ ~InClock.away /\ InClock.looked = FALSE /\ InClock.dev = TRUE
    BY ClockFields
  <2> QED
    BY <1>1, <1>2, <1>3, <2>1, Zenon DEF Step
<1>5. Step(t, InTick, Release(TicksLock), Calm(TRUE))
  <2>1. With(InTick, TicksLock) /\ ~InTick.away /\ ~InTick.looked /\ InTick.held = {TicksLock} /\ InTick.noff = 1 /\ InTick.quiet = TRUE /\ InTick.looked = FALSE
    BY ClockFields DEF Plain
  <2> QED
    BY <1>1, <1>3, <2>1, Zenon DEF Step
<1>6. ASSUME NEW x PROVE Step(t, InTick, Op("tick", x), InTick)
  <2>1. Op("tick", x)[1] = "tick"
    BY DEF Op
  <2> QED
    BY <2>1, ClockFields, Zenon DEF Step
<1>7. ASSUME NEW p \in Threads PROVE Step(t, InTick, Op("wake", p), InTick)
  <2>1. Op("wake", p)[1] = "wake" /\ Op("wake", p)[2] = p
    BY DEF Op
  <2> QED
    BY <2>1, ClockFields, Zenon DEF Step
<1> QED
  BY <1>4, <1>5, <1>6, <1>7

\* wakeup looks at every process.
LEMMA WakeupAll ==
    /\ Wakeup \in Seq(Ops) /\ Len(Wakeup) = Len(ProcTable) /\ Len(ProcTable) \in Nat
    /\ \A i \in 1 .. Len(ProcTable) : ProcTable[i] \in Threads /\ Wakeup[i] = Op("wake", ProcTable[i])
    /\ \A p \in Threads : \E i \in 1 .. Len(ProcTable) : Wakeup[i] = Op("wake", p)
<1>1. Len(ProcTable) \in Nat /\ DOMAIN ProcTable = 1 .. Len(ProcTable)
  BY InterruptAssumption, LenProperties
<1>2. \A i \in 1 .. Len(ProcTable) : ProcTable[i] \in Threads
  BY <1>1 DEF Threads
<1>3. Wakeup = [i \in 1 .. Len(ProcTable) |-> Op("wake", ProcTable[i])]
  BY <1>1 DEF Wakeup
<1>4. \A i \in 1 .. Len(ProcTable) : Wakeup[i] = Op("wake", ProcTable[i])
  BY <1>3
<1>5. \A i \in 1 .. Len(ProcTable) : Op("wake", ProcTable[i]) \in Ops
  BY <1>2, OpsTyped
<1>6. Wakeup \in [1 .. Len(ProcTable) -> Ops]
  BY <1>3, <1>5
<1>7. Wakeup \in Seq(Ops) /\ Len(Wakeup) = Len(ProcTable)
  BY <1>1, <1>6
<1>8. ASSUME NEW p \in Threads PROVE \E i \in 1 .. Len(ProcTable) : Wakeup[i] = Op("wake", p)
  BY <1>1, <1>4 DEF Threads
<1> QED
  BY <1>1, <1>2, <1>4, <1>7, <1>8

\* wakeup leaves the label of clockintr alone.
LEMMA FitsWakeup ==
    ASSUME NEW t
    PROVE  Fits(t, Wakeup, InTick, InTick)
<1> DEFINE n == Len(Wakeup)
           f == [i \in 1 .. n + 1 |-> InTick]
<1>1. n \in Nat /\ InTick \in Labels /\ \A i \in 1 .. n : Step(t, InTick, Wakeup[i], InTick)
  <2>1. n \in Nat /\ n = Len(ProcTable) /\ InTick \in Labels
    BY WakeupAll, ClockFields
  <2>2. ASSUME NEW i \in 1 .. n PROVE Step(t, InTick, Wakeup[i], InTick)
    <3>1. ProcTable[i] \in Threads /\ Wakeup[i] = Op("wake", ProcTable[i])
      BY <2>1, WakeupAll
    <3> QED
      BY <3>1, StepClock
  <2> QED
    BY <2>1, <2>2
<1> HIDE DEF n
<1>2. f \in [1 .. n + 1 -> Labels] /\ \A i \in 1 .. n + 1 : f[i] = InTick
  BY <1>1
<1> HIDE DEF f
<1>3. 1 \in 1 .. n + 1 /\ n + 1 \in 1 .. n + 1 /\ \A i \in 1 .. n : i \in 1 .. n + 1 /\ i + 1 \in 1 .. n + 1
  BY <1>1
<1>4. Ends(InTick, InTick)
  BY DEF Ends
<1>5. Leads(t, Wakeup, f, InTick, InTick)
  BY <1>1, <1>2, <1>3, <1>4 DEF Leads, n
<1> QED
  BY <1>5 DEF Fits

\* clockintr, and what a CPU other than the first does.
LEMMA FitsClock ==
    ASSUME NEW t, NEW c \in Harts
    PROVE  ClockIntr(c) \in Seq(Ops) /\ Fits(t, ClockIntr(c), InClock, Calm(TRUE))
<1> DEFINE x1 == Acquire(TicksLock)
           x2 == Op("tick", c)
           x3 == Release(TicksLock)
<1>1. x1 \in Ops /\ x2 \in Ops /\ x3 \in Ops
  BY OpsTyped DEF SpinLocks
<1>2. Step(t, InClock, x1, InTick) /\ Step(t, InTick, x2, InTick) /\ Step(t, InTick, x3, Calm(TRUE))
  BY StepClock
<1>3. ClockIntr(c) = (<<x1, x2>> \o Wakeup) \o <<x3>>
  BY DEF ClockIntr
<1> HIDE DEF x1, x2, x3
<1>4. InClock \in Labels /\ InTick \in Labels /\ Calm(TRUE) \in Labels
  BY ClockFields, CalmFields
<1>5. Fits(t, <<x2>>, InTick, InTick) /\ Fits(t, <<x3>>, InTick, Calm(TRUE))
  BY <1>2, <1>4, FitsOne
<1>6. <<x1, x2>> \in Seq(Ops) /\ Fits(t, <<x1, x2>>, InClock, InTick)
  <2>1. <<x1, x2>> \in Seq(Ops) /\ <<x1, x2>> # <<>> /\ Head(<<x1, x2>>) = x1 /\ Tail(<<x1, x2>>) = <<x2>>
    BY <1>1
  <2> QED
    BY <1>2, <1>4, <1>5, <2>1, FitsCons
<1>7. <<x1, x2>> \o Wakeup \in Seq(Ops) /\ Fits(t, <<x1, x2>> \o Wakeup, InClock, InTick)
  BY <1>6, WakeupAll, FitsWakeup, FitsJoin
<1>8. <<x3>> \in Seq(Ops)
  BY <1>1
<1> DEFINE u == <<x1, x2>> \o Wakeup
           v == <<x3>>
<1>9. u \in Seq(Ops) /\ Fits(t, u, InClock, InTick) /\ v \in Seq(Ops) /\ Fits(t, v, InTick, Calm(TRUE))
  BY <1>5, <1>7, <1>8
<1> HIDE DEF u, v
<1>10. u \o v \in Seq(Ops) /\ Fits(t, u \o v, InClock, Calm(TRUE))
  BY <1>9, FitsJoin
<1>11. ClockIntr(c) = u \o v
  BY <1>3 DEF u, v
<1> QED
  BY <1>10, <1>11, Zenon

\* A handler begins with interrupts off and no lock.
Begins(g) == g \in Labels /\ g.quiet /\ g.held = {} /\ g.noff = 0 /\ ~g.away /\ ~g.looked

\* devintr begins with interrupts off and ends without a lock.
LEMMA FitsDevIntr ==
    ASSUME NEW t, NEW c \in Harts
    PROVE  DevIntr(c) \in Seq(Ops) /\ \E g : Begins(g) /\ Fits(t, DevIntr(c), g, Calm(TRUE))
<1>1. CASE c = Cpu0
  <2>1. DevIntr(c) = ClockIntr(c)
    BY <1>1 DEF DevIntr
  <2>2. Begins(InClock)
    BY ClockFields DEF Begins
  <2> QED
    BY <2>1, <2>2, FitsClock
<1>2. CASE c # Cpu0
  <2>1. DevIntr(c) = <<>> /\ <<>> \in Seq(Ops)
    BY <1>2 DEF DevIntr
  <2>2. Calm(TRUE) \in Labels /\ Calm(TRUE).quiet = TRUE /\ Bare(Calm(TRUE))
    BY CalmFields
  <2>3. Begins(Calm(TRUE)) /\ Fits(t, <<>>, Calm(TRUE), Calm(TRUE))
    BY <2>2, FitsNil DEF Begins, Bare, Plain
  <2> QED
    BY <2>1, <2>3
<1> QED
  BY <1>1, <1>2

-----------------------------------------------------------------------------
(* The inductive invariant.                                                  *)

HartType == [intr : BOOLEAN, noff : Int, intena : BOOLEAN, proc : Threads \union {NoThread}]
DataType ==
    /\ hart \in [Harts -> HartType] /\ spin \in [SpinLocks -> Harts \union {NoThread}]
    /\ tstate \in [Threads -> {"RUNNABLE", "RUNNING", "SLEEPING", "ZOMBIE"}]
    /\ saved \in [Threads -> BOOLEAN] /\ ticks \in Nat /\ seen \in [Threads -> Nat]
CodeType == todo \in [Threads \union Harts -> Seq(Ops)]

\* A process is RUNNING on the CPU that runs it, and on no other.
RunInv ==
    \A c \in Harts : hart[c].proc # NoThread =>
        tstate[hart[c].proc] = "RUNNING" /\ \A d \in Harts : hart[d].proc = hart[c].proc => d = c

\* The handler that counted will wake p.
Pends(s, p) == \E i \in DOMAIN s : s[i] = Op("wake", p)
Noticed(p) == seen[p] = ticks \/ \E c \in Harts : Pends(Ahead(c), p)

\* clockintr wakes everyone after it has counted.
TickFit(s) == \A i \in DOMAIN s : s[i][1] = "tick" => \A p \in Threads : \E j \in DOMAIN s : j > i /\ s[j] = Op("wake", p)

\* The CPU is as the code of its thread expects it.
Suits(c, g) ==
    /\ g.held = {l \in SpinLocks : spin[l] = c} /\ g.noff = hart[c].noff
    /\ g.quiet \/ g.noff # 0 => ~hart[c].intr
    /\ g.quiet /\ g.noff # 0 => IF g.away THEN ~saved[ThreadOf(c)] ELSE ~hart[c].intena
    /\ g.away \/ g.looked => ThreadOf(c) \in Threads
    /\ g.looked => TicksLock \in g.held \/ ThreadOf(c) \in g.held
Matches(c, g) == Suits(c, g) /\ (g.looked => Noticed(ThreadOf(c)))
Running(c) == \E g \in Labels : Fits(ThreadOf(c), Ahead(c), g, InUser) /\ Matches(c, g)

\* A process off its CPU goes on with its p->lock, which the scheduler took.
Suspended(p) ==
    tstate[p] \in {"RUNNABLE", "SLEEPING"} =>
        \E q, a \in BOOLEAN : Fits(p, todo[p], Owner(p, q, a, FALSE), InUser) /\ (q => a /\ ~saved[p])

\* The scheduler goes on with the p->lock that the process hands it.
Waiting(c) == hart[c].proc # NoThread => Fits(c, todo[c], Owner(hart[c].proc, FALSE, FALSE, FALSE), InUser)

IntrInv ==
    /\ DataType /\ CodeType /\ RunInv /\ ~ipanic
    /\ \A c \in Harts : Running(c) /\ Waiting(c)
    /\ \A p \in Threads : Suspended(p) /\ (tstate[p] = "SLEEPING" => Noticed(p))
    /\ \A t \in Threads \union Harts : TickFit(todo[t])

\* A step of CPU c that keeps its thread.
Near(c) ==
    /\ DataType' /\ ~ipanic'
    /\ hart'[c].proc = hart[c].proc /\ \A d \in Harts \ {c} : hart'[d] = hart[d]
    /\ \A l \in SpinLocks : spin'[l] = spin[l] \/ {spin[l], spin'[l]} \subseteq {NoThread, c}
    /\ \A p \in Threads \ {ThreadOf(c)} : saved'[p] = saved[p]
    /\ \A p \in Threads : tstate'[p] = tstate[p] \/ (tstate[p] = "SLEEPING" /\ tstate'[p] = "RUNNABLE")

\* The processes that rely on the tick they have seen.
Relies(c, p) == tstate'[p] = "SLEEPING" \/ \E d \in Harts \ {c} : p = ThreadOf(d) /\ (spin[TicksLock] = d \/ spin[p] = d)

\* The threads of the CPUs differ.
LEMMA ThreadsApart ==
    ASSUME DataType, RunInv, NEW c \in Harts
    PROVE  /\ ThreadOf(c) \in Threads \union Harts /\ hart[c].proc \in Threads \union {NoThread}
           /\ (hart[c].proc = NoThread => ThreadOf(c) = c) /\ (hart[c].proc # NoThread => ThreadOf(c) = hart[c].proc /\ ThreadOf(c) \in Threads)
           /\ (ThreadOf(c) \in Threads => hart[c].proc = ThreadOf(c) /\ tstate[ThreadOf(c)] = "RUNNING")
           /\ \A d \in Harts : ThreadOf(d) = ThreadOf(c) => d = c
           /\ \A d \in Harts : ThreadOf(c) = d => c = d /\ hart[c].proc = NoThread
<1>1. \A d \in Harts : hart[d].proc \in Threads \union {NoThread}
  BY DEF DataType, HartType
<1>2. NoThread \notin Threads \union Harts /\ \A d \in Harts : d \notin Threads
  BY InterruptAssumption
<1> QED
  BY <1>1, <1>2 DEF ThreadOf, RunInv

\* A step of one CPU that keeps its thread, and after which the CPU is as its
\* code expects it.
LEMMA LocalStep ==
    ASSUME IntrInv, NEW c \in Harts, NEW s \in Seq(Ops), NEW g \in Labels, Near(c), todo' = [todo EXCEPT ![ThreadOf(c)] = s],
           TickFit(s), Fits(ThreadOf(c), s, g, InUser), Matches(c, g)',
           \A p \in Threads : Noticed(p) /\ Relies(c, p) => Noticed(p)'
    PROVE  IntrInv'
<1>1. DataType /\ CodeType /\ RunInv /\ DataType' /\ ~ipanic'
  BY DEF IntrInv, Near
<1>2. \A d \in Harts : hart'[d].proc = hart[d].proc
  BY DEF Near
<1>3. \A d \in Harts : ThreadOf(d)' = ThreadOf(d)
  BY <1>2 DEF ThreadOf
<1>4. CodeType' /\ todo'[ThreadOf(c)] = s /\ \A t \in Threads \union Harts : t # ThreadOf(c) => todo'[t] = todo[t]
  <2>1. ThreadOf(c) \in Threads \union Harts
    BY <1>1, ThreadsApart
  <2> QED
    BY <1>1, <2>1 DEF CodeType
<1>5. RunInv'
  <2> SUFFICES ASSUME NEW d \in Harts, hart'[d].proc # NoThread
               PROVE  tstate'[hart'[d].proc] = "RUNNING" /\ \A e \in Harts : hart'[e].proc = hart'[d].proc => e = d
    BY DEF RunInv
  <2>1. tstate[hart[d].proc] = "RUNNING" /\ hart[d].proc \in Threads /\ \A e \in Harts : hart[e].proc = hart[d].proc => e = d
    BY <1>1, <1>2, ThreadsApart DEF RunInv
  <2>2. tstate'[hart[d].proc] = "RUNNING"
    BY <2>1 DEF Near
  <2> QED
    BY <1>2, <2>1, <2>2
<1>6. ASSUME NEW d \in Harts, d # c PROVE Running(d)'
  <2>1. PICK k \in Labels : Fits(ThreadOf(d), Ahead(d), k, InUser) /\ Matches(d, k)
    BY DEF IntrInv, Running
  <2>2. ThreadOf(d) # ThreadOf(c) /\ ThreadOf(d) \in Threads \union Harts
    BY <1>1, <1>6, ThreadsApart
  <2>3. Ahead(d)' = Ahead(d) /\ ThreadOf(d)' = ThreadOf(d)
    BY <1>3, <1>4, <2>2 DEF Ahead
  <2>4. hart'[d] = hart[d]
    BY <1>6 DEF Near
  <2>5. {l \in SpinLocks : spin'[l] = d} = {l \in SpinLocks : spin[l] = d}
    <3>1. d \notin {NoThread, c}
      BY <1>6, InterruptAssumption
    <3> QED
      BY <3>1 DEF Near
  <2>6. k.away => saved'[ThreadOf(d)] = saved[ThreadOf(d)]
    BY <2>1, <2>2 DEF Matches, Suits, Near
  <2>7. k.looked => Noticed(ThreadOf(d))'
    <3> SUFFICES ASSUME k.looked
                 PROVE  Noticed(ThreadOf(d))'
      OBVIOUS
    <3> DEFINE p == ThreadOf(d)
    <3>1. p \in Threads /\ Noticed(p) /\ (TicksLock \in k.held \/ p \in k.held) /\ k.held = {l \in SpinLocks : spin[l] = d}
      BY <2>1 DEF Matches, Suits
    <3>2. Relies(c, p)
      BY <1>6, <3>1 DEF Relies
    <3> HIDE DEF p
    <3>3. p' = p
      BY <2>3 DEF p
    <3>4. Noticed(p)'
      BY <3>1, <3>2, <3>3
    <3> QED
      BY <3>4 DEF p
  <2>8. Matches(d, k)'
    BY <2>1, <2>3, <2>4, <2>5, <2>6, <2>7 DEF Matches, Suits
  <2> QED
    BY <2>1, <2>3, <2>8 DEF Running
<1>7. Running(c)'
  <2>1. Ahead(c)' = s /\ ThreadOf(c)' = ThreadOf(c)
    BY <1>3, <1>4 DEF Ahead
  <2> QED
    BY <2>1 DEF Running
<1>8. ASSUME NEW p \in Threads PROVE Suspended(p)' /\ (tstate'[p] = "SLEEPING" => Noticed(p)')
  <2>1. tstate'[p] \in {"RUNNABLE", "SLEEPING"} => tstate[p] \in {"RUNNABLE", "SLEEPING"} /\ p # ThreadOf(c)
    BY <1>1, ThreadsApart DEF Near
  <2>2. p # ThreadOf(c) => todo'[p] = todo[p] /\ saved'[p] = saved[p]
    BY <1>4 DEF Near
  <2>3. Suspended(p)'
    BY <2>1, <2>2 DEF IntrInv, Suspended
  <2>4. ASSUME tstate'[p] = "SLEEPING" PROVE Noticed(p)'
    <3>1. tstate[p] = "SLEEPING" /\ Relies(c, p)
      BY <2>4 DEF Near, Relies
    <3> QED
      BY <3>1 DEF IntrInv
  <2> QED
    BY <2>3, <2>4
<1>9. ASSUME NEW d \in Harts PROVE Waiting(d)'
  <2>1. hart[d].proc # NoThread => d # ThreadOf(c)
    BY <1>1, ThreadsApart
  <2> QED
    BY <1>2, <1>4, <2>1 DEF Waiting, IntrInv
<1>10. \A t \in Threads \union Harts : TickFit(todo'[t])
  BY <1>4 DEF IntrInv
<1> QED
  BY <1>1, <1>4, <1>5, <1>6, <1>7, <1>8, <1>9, <1>10 DEF IntrInv

\* What is pending stays so when code is put in front, or an operation is done.
LEMMA PendsConcat ==
    ASSUME NEW r \in Seq(Ops), NEW s \in Seq(Ops), NEW p, Pends(s, p)
    PROVE  Pends(r \o s, p)
<1>1. PICK i \in DOMAIN s : s[i] = Op("wake", p)
  BY DEF Pends
<1> DEFINE u == r \o s
           k == Len(r)
           n == Len(s)
<1>2. /\ k \in Nat /\ n \in Nat /\ DOMAIN s = 1 .. n /\ u \in Seq(Ops) /\ Len(u) = k + n
      /\ \A j \in 1 .. k + n : u[j] = IF j <= k THEN r[j] ELSE s[j - k]
  BY ConcatProperties, LenProperties
<1>3. DOMAIN u = 1 .. Len(u)
  BY <1>2, LenProperties
<1> HIDE DEF u, k, n
<1>4. k + i \in 1 .. k + n /\ ~(k + i <= k) /\ (k + i) - k = i
  BY <1>2
<1>5. k + i \in DOMAIN u /\ u[k + i] = s[i]
  BY <1>2, <1>3, <1>4
<1> QED
  BY <1>1, <1>5 DEF Pends, u

\* A wakeup to come is still to come after another operation.
LEMMA PendsTail ==
    ASSUME NEW s \in Seq(Ops), s # <<>>, NEW p, Pends(s, p), Head(s) # Op("wake", p)
    PROVE  Pends(Tail(s), p)
<1>1. PICK i \in DOMAIN s : s[i] = Op("wake", p)
  BY DEF Pends
<1> DEFINE u == Tail(s)
           n == Len(s)
<1>2. n \in Nat /\ DOMAIN s = 1 .. n /\ u \in Seq(Ops) /\ Len(u) = n - 1 /\ (\A j \in 1 .. Len(u) : u[j] = s[j + 1]) /\ Head(s) = s[1]
  BY HeadTailProperties, LenProperties
<1>3. DOMAIN u = 1 .. Len(u)
  BY <1>2, LenProperties
<1> HIDE DEF u, n
<1>4. i # 1
  BY <1>1, <1>2
<1>5. i - 1 \in 1 .. Len(u) /\ (i - 1) + 1 = i
  BY <1>2, <1>4
<1>6. u[i - 1] = s[i]
  BY <1>2, <1>5
<1> QED
  BY <1>1, <1>3, <1>5, <1>6 DEF Pends, u

\* Code that wakes everyone after counting still does after one operation.
LEMMA TickFitTail ==
    ASSUME NEW s \in Seq(Ops), s # <<>>, TickFit(s)
    PROVE  TickFit(Tail(s))
<1> DEFINE u == Tail(s)
           n == Len(s)
<1>1. n \in Nat /\ DOMAIN s = 1 .. n /\ u \in Seq(Ops) /\ Len(u) = n - 1 /\ \A j \in 1 .. Len(u) : u[j] = s[j + 1]
  BY HeadTailProperties, LenProperties
<1>2. DOMAIN u = 1 .. Len(u)
  BY <1>1, LenProperties
<1> HIDE DEF u, n
<1> SUFFICES ASSUME NEW i \in DOMAIN u, u[i][1] = "tick", NEW p \in Threads
             PROVE  \E j \in DOMAIN u : j > i /\ u[j] = Op("wake", p)
  BY DEF TickFit, u
<1>3. i + 1 \in DOMAIN s /\ s[i + 1][1] = "tick" /\ i \in Nat
  BY <1>1, <1>2
<1>4. PICK j \in DOMAIN s : j > i + 1 /\ s[j] = Op("wake", p)
  BY <1>3 DEF TickFit
<1>5. j - 1 \in 1 .. Len(u) /\ (j - 1) + 1 = j /\ j - 1 > i
  BY <1>1, <1>2, <1>3, <1>4
<1>6. u[j - 1] = s[j]
  BY <1>1, <1>5
<1> QED
  BY <1>2, <1>4, <1>5, <1>6

\* So does one piece of such code after another.
LEMMA TickFitConcat ==
    ASSUME NEW r \in Seq(Ops), NEW s \in Seq(Ops), TickFit(r), TickFit(s)
    PROVE  TickFit(r \o s)
<1> DEFINE u == r \o s
           k == Len(r)
           n == Len(s)
<1>1. /\ k \in Nat /\ n \in Nat /\ DOMAIN s = 1 .. n /\ DOMAIN r = 1 .. k /\ u \in Seq(Ops) /\ Len(u) = k + n
      /\ \A j \in 1 .. k + n : u[j] = IF j <= k THEN r[j] ELSE s[j - k]
  BY ConcatProperties, LenProperties
<1>2. DOMAIN u = 1 .. Len(u)
  BY <1>1, LenProperties
<1> HIDE DEF u, k, n
<1> SUFFICES ASSUME NEW i \in DOMAIN u, u[i][1] = "tick", NEW p \in Threads
             PROVE  \E j \in DOMAIN u : j > i /\ u[j] = Op("wake", p)
  BY DEF TickFit, u
<1>3. CASE i <= k
  <2>1. i \in DOMAIN r /\ r[i][1] = "tick"
    BY <1>1, <1>2, <1>3
  <2>2. PICK j \in DOMAIN r : j > i /\ r[j] = Op("wake", p)
    BY <2>1 DEF TickFit
  <2>3. j \in 1 .. k + n /\ j <= k
    BY <1>1
  <2> QED
    BY <1>1, <1>2, <2>2, <2>3
<1>4. CASE ~(i <= k)
  <2>1. i - k \in DOMAIN s /\ s[i - k][1] = "tick"
    BY <1>1, <1>2, <1>4
  <2>2. PICK j \in DOMAIN s : j > i - k /\ s[j] = Op("wake", p)
    BY <2>1 DEF TickFit
  <2>3. k + j \in 1 .. k + n /\ ~(k + j <= k) /\ (k + j) - k = j /\ k + j > i
    BY <1>1, <1>2, <2>2
  <2>4. u[k + j] = s[j]
    BY <1>1, <2>3
  <2> QED
    BY <1>1, <1>2, <2>2, <2>3, <2>4
<1> QED
  BY <1>3, <1>4

\* Code without a tick.
LEMMA TickFree ==
    ASSUME NEW s, \A i \in DOMAIN s : s[i][1] # "tick"
    PROVE  TickFit(s)
BY DEF TickFit

\* clockintr wakes everyone after counting.
LEMMA TickFitClock ==
    ASSUME NEW c \in Harts
    PROVE  TickFit(ClockIntr(c))
<1> DEFINE x == <<Acquire(TicksLock), Op("tick", c)>>
           z == <<Release(TicksLock)>>
           n == Len(ProcTable)
           u == x \o Wakeup
<1>1. x \in Seq(Ops) /\ Len(x) = 2 /\ x[1][1] = "acquire" /\ z \in Seq(Ops) /\ Len(z) = 1 /\ z[1][1] = "release"
  <2>1. Acquire(TicksLock) \in Ops /\ Op("tick", c) \in Ops /\ Release(TicksLock) \in Ops
    BY OpsTyped DEF SpinLocks
  <2>2. Acquire(TicksLock)[1] = "acquire" /\ Release(TicksLock)[1] = "release"
    BY DEF Acquire, Release, Op
  <2> QED
    BY <2>1, <2>2
<1>2. ClockIntr(c) = u \o z
  BY DEF ClockIntr
<1>3. n \in Nat /\ Wakeup \in Seq(Ops) /\ Len(Wakeup) = n
  BY WakeupAll
<1> HIDE DEF x, z, n
<1>4. u \in Seq(Ops) /\ Len(u) = 2 + n /\ \A i \in 1 .. 2 + n : u[i] = IF i <= 2 THEN x[i] ELSE Wakeup[i - 2]
  <2>1. /\ u \in Seq(Ops) /\ Len(u) = Len(x) + Len(Wakeup)
        /\ \A i \in 1 .. Len(x) + Len(Wakeup) : u[i] = IF i <= Len(x) THEN x[i] ELSE Wakeup[i - Len(x)]
    BY <1>1, <1>3, ConcatProperties
  <2> HIDE DEF u
  <2> QED
    BY <1>1, <1>3, <2>1
<1>5. DOMAIN u = 1 .. 2 + n
  BY <1>4, LenProperties
<1> HIDE DEF u
<1>6. TickFit(u)
  <2> SUFFICES ASSUME NEW i \in DOMAIN u, u[i][1] = "tick", NEW p \in Threads
               PROVE  \E j \in DOMAIN u : j > i /\ u[j] = Op("wake", p)
    BY DEF TickFit
  <2>1. i <= 2
    <3> SUFFICES ASSUME ~(i <= 2)
                 PROVE  FALSE
      BY <1>3, <1>5
    <3>1. u[i] = Wakeup[i - 2] /\ i - 2 \in 1 .. n
      BY <1>3, <1>4, <1>5
    <3>2. u[i] = Op("wake", ProcTable[i - 2])
      BY <3>1, WakeupAll DEF n
    <3> QED
      BY <3>2 DEF Op
  <2>2. PICK k \in 1 .. n : Wakeup[k] = Op("wake", p)
    BY WakeupAll DEF n
  <2>3. 2 + k \in 1 .. 2 + n /\ ~(2 + k <= 2) /\ (2 + k) - 2 = k /\ 2 + k > i
    BY <1>3, <1>5, <2>1
  <2> QED
    BY <1>4, <1>5, <2>2, <2>3
<1>7. TickFit(z)
  <2>1. DOMAIN z = 1 .. 1
    BY <1>1, LenProperties
  <2> QED
    BY <1>1, <2>1 DEF TickFit
<1> QED
  BY <1>1, <1>2, <1>4, <1>6, <1>7, TickFitConcat

\* The operation at the head, with the labels before and after it.
LEMMA AtHead ==
    ASSUME IntrInv, NEW c \in Harts, NEW n, At(c, n)
    PROVE  /\ Ahead(c) \in Seq(Ops) /\ Ahead(c) # <<>> /\ Head(Ahead(c)) \in Ops /\ Tail(Ahead(c)) \in Seq(Ops) /\ TickFit(Tail(Ahead(c)))
           /\ Head(Ahead(c))[1] = n /\ Head(Ahead(c))[2] = Arg(c) /\ Arg(c) \in Threads \union Harts \union {TicksLock, "RUNNABLE", "SLEEPING", "ZOMBIE"}
           /\ \E g, m \in Labels : Matches(c, g) /\ Step(ThreadOf(c), g, Head(Ahead(c)), m) /\ Fits(ThreadOf(c), Tail(Ahead(c)), m, InUser)
<1>1. ThreadOf(c) \in Threads \union Harts
  BY ThreadsApart DEF IntrInv
<1>2. Ahead(c) \in Seq(Ops) /\ Ahead(c) # <<>> /\ TickFit(Ahead(c)) /\ Head(Ahead(c))[1] = n /\ Head(Ahead(c))[2] = Arg(c)
  BY <1>1 DEF IntrInv, CodeType, Ahead, At, Arg
<1>3. PICK g \in Labels : Fits(ThreadOf(c), Ahead(c), g, InUser) /\ Matches(c, g)
  BY DEF IntrInv, Running
<1> DEFINE s == Ahead(c)
           t == ThreadOf(c)
<1> HIDE DEF s, t
<1>4. \E m \in Labels : Step(t, g, Head(s), m) /\ Fits(t, Tail(s), m, InUser)
  <2>1. s \in Seq(Ops) /\ s # <<>> /\ Fits(t, s, g, InUser)
    BY <1>2, <1>3 DEF s, t
  <2> QED
    BY <2>1, FitsTail
<1>5. Head(s) \in Ops /\ Tail(s) \in Seq(Ops) /\ TickFit(Tail(s))
  BY <1>2, HeadTailProperties, TickFitTail DEF s
<1>6. Arg(c) \in Threads \union Harts \union {TicksLock, "RUNNABLE", "SLEEPING", "ZOMBIE"}
  BY <1>2, <1>5 DEF Ops, s
<1> QED
  BY <1>2, <1>3, <1>4, <1>5, <1>6 DEF s, t

\* A process that has noticed the tick, or that a handler will wake, still has,
\* when that handler has not come to it.
LEMMA NoticeKept ==
    ASSUME DataType, CodeType, RunInv, NEW c \in Harts, Near(c), NEW s, todo' = [todo EXCEPT ![ThreadOf(c)] = s], NEW p \in Threads,
           seen'[p] = seen[p], ticks' = ticks, Pends(Ahead(c), p) => Pends(s, p), Noticed(p)
    PROVE  Noticed(p)'
<1>1. CASE seen[p] = ticks
  BY <1>1 DEF Noticed
<1>2. CASE seen[p] # ticks
  <2>1. PICK d \in Harts : Pends(Ahead(d), p)
    BY <1>2 DEF Noticed
  <2>2. \A e \in Harts : ThreadOf(e)' = ThreadOf(e) /\ ThreadOf(e) \in Threads \union Harts
    BY ThreadsApart DEF ThreadOf, Near
  <2>3. CASE d = c
    <3>1. Ahead(c)' = s
      BY <2>2 DEF Ahead, CodeType
    <3> QED
      BY <2>1, <2>3, <3>1 DEF Noticed
  <2>4. CASE d # c
    <3>1. Ahead(d)' = Ahead(d)
      BY <2>2, <2>4, ThreadsApart DEF Ahead, CodeType
    <3> QED
      BY <2>1, <3>1 DEF Noticed
  <2> QED
    BY <2>3, <2>4
<1> QED
  BY <1>1, <1>2

\* The thread on the CPU keeps the tick that it has seen.
NoticeLasts(c, g) == g.looked => (Noticed(ThreadOf(c)) /\ seen'[ThreadOf(c)] = seen[ThreadOf(c)]) \/ seen'[ThreadOf(c)] = ticks'

\* The operation at the head is replaced by others.
LEMMA PlainStep ==
    ASSUME IntrInv, NEW c \in Harts, NEW n, n # "wake", At(c, n), NEW ops \in Seq(Ops), Near(c), Becomes(c, ops),
           TickFit(ops), NEW g \in Labels, NEW m \in Labels, Fits(ThreadOf(c), ops, g, m), Fits(ThreadOf(c), Tail(Ahead(c)), m, InUser), Suits(c, g)', NoticeLasts(c, g),
           \A p \in Threads : Relies(c, p) => seen'[p] = seen[p], ticks' = ticks
    PROVE  IntrInv'
<1> DEFINE t == ThreadOf(c)
           r == Tail(Ahead(c))
           s == ops \o r
<1>0. Ahead(c) \in Seq(Ops) /\ Ahead(c) # <<>> /\ Head(Ahead(c))[1] = n
  BY AtHead
<1>1. r \in Seq(Ops) /\ TickFit(r)
  BY AtHead
<1>2. todo' = [todo EXCEPT ![t] = s]
  BY DEF Becomes, Ahead
<1>3. \A p : Pends(Ahead(c), p) => Pends(s, p)
  <2> SUFFICES ASSUME NEW p, Pends(Ahead(c), p)
               PROVE  Pends(s, p)
    OBVIOUS
  <2>1. Head(Ahead(c)) # Op("wake", p)
    BY <1>0 DEF Op
  <2>2. Pends(r, p)
    BY <1>0, <2>1, PendsTail
  <2> HIDE DEF r
  <2> QED
    BY <1>1, <2>2, PendsConcat
<1> HIDE DEF r
<1>4. s \in Seq(Ops) /\ Fits(t, s, g, InUser) /\ TickFit(s)
  <2>1. Fits(t, ops, g, m) /\ Fits(t, r, m, InUser)
    BY DEF t, r
  <2> HIDE DEF t
  <2> QED
    BY <1>1, <2>1, FitsJoin, TickFitConcat
<1> HIDE DEF s
<1>5. ASSUME NEW p \in Threads, Noticed(p), Relies(c, p) PROVE Noticed(p)'
  BY <1>2, <1>3, <1>5, NoticeKept DEF IntrInv
<1>6. Matches(c, g)'
  <2>1. ThreadOf(c)' = ThreadOf(c)
    BY DEF ThreadOf, Near
  <2>2. ASSUME g.looked PROVE Noticed(ThreadOf(c))'
    <3>1. t \in Threads
      BY <2>1, <2>2 DEF Suits
    <3>2. CASE seen'[t] = ticks'
      BY <2>1, <3>2 DEF Noticed
    <3>3. CASE Noticed(t) /\ seen'[t] = seen[t]
      <4> HIDE DEF t
      <4>1. Noticed(t)'
        <5>1. t' = t
          BY <2>1 DEF t
        <5> HIDE DEF t
        <5>2. todo' = [todo EXCEPT ![ThreadOf(c)] = s]
          BY <1>2 DEF t
        <5>3. \A p \in Threads : p = t => Noticed(p)'
          BY <1>3, <3>1, <3>3, <5>2, NoticeKept DEF IntrInv
        <5> QED
          BY <3>1, <5>1, <5>3
      <4> QED
        BY <4>1 DEF t
    <3> QED
      BY <2>2, <3>2, <3>3 DEF NoticeLasts
  <2> QED
    BY <2>2 DEF Matches
<1> QED
  BY <1>2, <1>4, <1>5, <1>6, LocalStep

\* The operation at the head is done.
LEMMA DoneStep ==
    ASSUME IntrInv, NEW c \in Harts, NEW n, n # "wake", At(c, n), Near(c), Done(c),
           NEW m \in Labels, Fits(ThreadOf(c), Tail(Ahead(c)), m, InUser), Suits(c, m)', NoticeLasts(c, m),
           \A p \in Threads : Relies(c, p) => seen'[p] = seen[p], ticks' = ticks
    PROVE  IntrInv'
<1>1. Becomes(c, <<>>) /\ <<>> \in Seq(Ops) /\ TickFit(<<>>)
  BY DEF Done, TickFit
<1>2. Fits(ThreadOf(c), <<>>, m, m)
  BY FitsNil
<1> QED
  BY <1>1, <1>2, PlainStep

\* push_off and pop_off.
LEMMA PushPop ==
    ASSUME NEW h \in HartType
    PROVE  LET a == PushOff(h)
               b == PopOff(h)
           IN /\ a \in HartType /\ a.proc = h.proc /\ a.intr = FALSE /\ a.noff = h.noff + 1 /\ a.intena = IF h.noff = 0 THEN h.intr ELSE h.intena
              /\ b \in HartType /\ b.proc = h.proc /\ b.intr = (h.noff = 1 /\ h.intena) /\ b.noff = h.noff - 1 /\ b.intena = (h.noff > 1 /\ h.intena)
<1>1. /\ h.intr \in BOOLEAN /\ h.noff \in Int /\ h.intena \in BOOLEAN /\ h.proc \in Threads \union {NoThread}
      /\ h = [intr |-> h.intr, noff |-> h.noff, intena |-> h.intena, proc |-> h.proc]
  BY DEF HartType
<1> DEFINE e == IF h.noff = 0 THEN h.intr ELSE h.intena
           i == h.noff = 1 /\ h.intena
           f == h.noff > 1 /\ h.intena
<1>2. e \in BOOLEAN /\ i \in BOOLEAN /\ f \in BOOLEAN
  BY <1>1
<1>3. PushOff(h) = [intr |-> FALSE, noff |-> h.noff + 1, intena |-> e, proc |-> h.proc]
  <2>1. PushOff(h) = [h EXCEPT !.intr = FALSE, !.noff = h.noff + 1, !.intena = e]
    BY <1>1 DEF PushOff
  <2> HIDE DEF e
  <2> QED
    BY <1>1, <2>1
<1>4. PopOff(h) = [intr |-> i, noff |-> h.noff - 1, intena |-> f, proc |-> h.proc]
  <2>1. PopOff(h) = [h EXCEPT !.intr = i, !.noff = h.noff - 1, !.intena = f]
    BY <1>1 DEF PopOff
  <2> HIDE DEF i, f
  <2> QED
    BY <1>1, <2>1
<1>5. h.noff + 1 \in Int /\ h.noff - 1 \in Int
  BY <1>1
<1> HIDE DEF e, i, f
<1>6. /\ PushOff(h) \in HartType /\ PushOff(h).proc = h.proc /\ PushOff(h).intr = FALSE
      /\ PushOff(h).noff = h.noff + 1 /\ PushOff(h).intena = e
  BY <1>1, <1>2, <1>3, <1>5 DEF HartType
<1>7. /\ PopOff(h) \in HartType /\ PopOff(h).proc = h.proc /\ PopOff(h).intr = i
      /\ PopOff(h).noff = h.noff - 1 /\ PopOff(h).intena = f
  BY <1>1, <1>2, <1>4, <1>5 DEF HartType
<1> QED
  BY <1>6, <1>7 DEF e, i, f

\* acquire: the lock is not one that the CPU holds.
LEMMA AcquireKeeps ==
    ASSUME IntrInv, NEW c \in Harts, AcquireLock(c)
    PROVE  IntrInv'
<1> DEFINE l == Arg(c)
           t == ThreadOf(c)
           h == hart[c]
<1>1. At(c, "acquire")
  BY DEF AcquireLock
<1>2. PICK g, m \in Labels : Matches(c, g) /\ Step(t, g, Head(Ahead(c)), m) /\ Fits(t, Tail(Ahead(c)), m, InUser)
  BY <1>1, AtHead
<1>3. Head(Ahead(c))[1] = "acquire" /\ Head(Ahead(c))[2] = l
  BY <1>1, AtHead
<1>4. /\ l \in SpinLocks /\ ~g.away /\ m = Label(g.held \union {l}, g.noff + 1, g.quiet, FALSE, g.looked, g.dev)
      /\ \/ g.held = {} /\ g.noff = 0
         \/ g.held = {TicksLock} /\ g.noff = 1 /\ l = t /\ t \in Threads /\ ~g.dev
  BY <1>2, <1>3 DEF Step, With
<1>5. DataType /\ h \in HartType /\ hart \in [Harts -> HartType] /\ spin \in [SpinLocks -> Harts \union {NoThread}]
  BY DEF IntrInv, DataType
<1>6. g.held = {x \in SpinLocks : spin[x] = c} /\ g.noff = h.noff /\ l \notin g.held
  BY <1>2, <1>4, InterruptAssumption DEF Matches, Suits
<1>7. /\ hart' = [hart EXCEPT ![c] = PushOff(h)] /\ ~ipanic'
      /\ tstate' = tstate /\ saved' = saved /\ ticks' = ticks /\ seen' = seen
  BY <1>4, <1>6 DEF AcquireLock, Holding
<1>8. PushOff(h) \in HartType /\ PushOff(h).proc = h.proc /\ PushOff(h).intr = FALSE /\ PushOff(h).noff = h.noff + 1 /\ PushOff(h).intena = IF h.noff = 0 THEN h.intr ELSE h.intena
  BY <1>5, PushPop
<1>9. hart' \in [Harts -> HartType] /\ hart'[c] = PushOff(h) /\ \A d \in Harts \ {c} : hart'[d] = hart[d]
  BY <1>5, <1>7, <1>8
<1>10. ThreadOf(c)' = t
  BY <1>8, <1>9 DEF ThreadOf
<1>11. \A p \in Threads : tstate'[p] = tstate[p] /\ seen'[p] = seen[p] /\ saved'[p] = saved[p]
  BY <1>7
<1> HIDE DEF l, h
<1>12. /\ g.noff + 1 \in {1, 2} /\ g.quiet \in BOOLEAN /\ g.looked \in BOOLEAN /\ g.dev \in BOOLEAN /\ (g.dev => g.quiet)
       /\ g.held \in SUBSET SpinLocks /\ (g.noff = 0 => ~g.looked)
  BY <1>4, LabelParts
<1>13. /\ g.quiet => ~PushOff(h).intena
       /\ g.looked => (TicksLock \in g.held \/ t \in g.held) /\ t \in Threads /\ Noticed(t)
  BY <1>2, <1>4, <1>6, <1>8 DEF Matches, Suits, h
<1>14. CASE spin[l] = NoThread
  <2>1. spin' = [spin EXCEPT ![l] = c] /\ Done(c)
    BY <1>14 DEF AcquireLock, l
  <2>2. spin' \in [SpinLocks -> Harts \union {NoThread}] /\ spin'[l] = c /\ \A x \in SpinLocks \ {l} : spin'[x] = spin[x]
    BY <1>4, <1>5, <2>1
  <2>3. Near(c)
    BY <1>5, <1>7, <1>8, <1>9, <1>11, <1>14, <2>2 DEF Near, DataType, h
  <2>4. m.held = g.held \union {l} /\ m.noff = g.noff + 1 /\ m.quiet = g.quiet /\ m.away = FALSE /\ m.looked = g.looked
    BY <1>4 DEF Label
  <2>5. m.held = {x \in SpinLocks : spin'[x] = c}
    BY <1>4, <1>6, <2>2, <2>4
  <2>6. Suits(c, m)'
    BY <1>6, <1>8, <1>9, <1>10, <1>12, <1>13, <2>4, <2>5 DEF Suits
  <2>7. NoticeLasts(c, m)
    BY <1>7, <1>13, <2>4 DEF NoticeLasts
  <2> QED
    BY <1>1, <1>2, <1>7, <2>1, <2>3, <2>6, <2>7, DoneStep
<1>15. CASE spin[l] # NoThread
  <2>1. spin' = spin /\ Becomes(c, <<Op("spin", l)>>)
    BY <1>15 DEF AcquireLock, l
  <2>2. Near(c)
    BY <1>5, <1>7, <1>8, <1>9, <1>11, <2>1 DEF Near, DataType, h
  <2> DEFINE k == Label(g.held, g.noff + 1, g.quiet, FALSE, g.looked, g.dev)
  <2>3. k \in Labels
    <3>1. g.noff + 1 \in {0, 1, 2} /\ ~(g.noff + 1 = 0)
      BY <1>12
    <3> QED
      BY <1>12, <3>1, LabelTyped
  <2>4. k.held = g.held /\ k.noff = g.noff + 1 /\ k.quiet = g.quiet /\ k.away = FALSE /\ k.looked = g.looked /\ k.dev = g.dev
    BY DEF Label
  <2> HIDE DEF k
  <2>5. Step(t, k, Op("spin", l), m)
    <3>1. Op("spin", l)[1] = "spin" /\ Op("spin", l)[2] = l
      BY DEF Op
    <3>2. m = Label(k.held \union {l}, k.noff, k.quiet, FALSE, k.looked, k.dev) /\ ~k.away
      BY <1>4, <2>4
    <3>3. \/ k.held = {} /\ k.noff = 1 /\ ~k.looked
          \/ k.held = {TicksLock} /\ k.noff = 2 /\ l = t /\ t \in Threads /\ ~k.dev
      BY <1>4, <1>12, <2>4
    <3> QED
      BY <1>4, <3>1, <3>2, <3>3, Zenon DEF Step
  <2>6. Fits(t, <<Op("spin", l)>>, k, m)
    BY <2>3, <2>5, FitsOne
  <2>7. <<Op("spin", l)>> \in Seq(Ops) /\ TickFit(<<Op("spin", l)>>)
    <3>1. Op("spin", l) \in Ops /\ Op("spin", l)[1] # "tick"
      BY <1>4, OpsTyped DEF Op
    <3> QED
      BY <3>1 DEF TickFit
  <2>8. Suits(c, k)'
    BY <1>6, <1>8, <1>9, <1>10, <1>12, <1>13, <2>1, <2>4 DEF Suits
  <2>9. NoticeLasts(c, k)
    BY <1>7, <1>13, <2>4 DEF NoticeLasts
  <2> QED
    BY <1>1, <1>2, <1>7, <2>1, <2>2, <2>3, <2>6, <2>7, <2>8, <2>9, PlainStep
<1> QED
  BY <1>14, <1>15

\* The lock is free at last.
LEMMA SpinKeeps ==
    ASSUME IntrInv, NEW c \in Harts, SpinLock(c)
    PROVE  IntrInv'
<1> DEFINE l == Arg(c)
           t == ThreadOf(c)
           h == hart[c]
<1>1. At(c, "spin") /\ spin[l] = NoThread
  BY DEF SpinLock
<1>2. PICK g, m \in Labels : Matches(c, g) /\ Step(t, g, Head(Ahead(c)), m) /\ Fits(t, Tail(Ahead(c)), m, InUser)
  BY <1>1, AtHead
<1>3. Head(Ahead(c))[1] = "spin" /\ Head(Ahead(c))[2] = l
  BY <1>1, AtHead
<1>4. /\ l \in SpinLocks /\ ~g.away /\ m = Label(g.held \union {l}, g.noff, g.quiet, FALSE, g.looked, g.dev) /\ g.noff \in {1, 2}
  BY <1>2, <1>3 DEF Step
<1>5. DataType /\ spin \in [SpinLocks -> Harts \union {NoThread}]
  BY DEF IntrInv, DataType
<1>6. /\ spin' = [spin EXCEPT ![l] = c] /\ Done(c) /\ ~ipanic'
      /\ hart' = hart /\ tstate' = tstate /\ saved' = saved /\ ticks' = ticks /\ seen' = seen
  BY <1>1 DEF SpinLock, At
<1>7. ThreadOf(c)' = t
  BY <1>6 DEF ThreadOf
<1> HIDE DEF l, h
<1>8. spin' \in [SpinLocks -> Harts \union {NoThread}] /\ spin'[l] = c /\ \A x \in SpinLocks \ {l} : spin'[x] = spin[x]
  BY <1>4, <1>5, <1>6
<1>9. Near(c)
  BY <1>1, <1>5, <1>6, <1>8 DEF Near, DataType, l
<1>10. m.held = g.held \union {l} /\ m.noff = g.noff /\ m.quiet = g.quiet /\ m.away = FALSE /\ m.looked = g.looked
  BY <1>4 DEF Label
<1>11. m.held = {x \in SpinLocks : spin'[x] = c}
  BY <1>2, <1>4, <1>8, <1>10 DEF Matches, Suits
<1>12. Suits(c, m)'
  BY <1>2, <1>4, <1>6, <1>7, <1>10, <1>11 DEF Matches, Suits
<1>13. NoticeLasts(c, m)
  BY <1>2, <1>6, <1>10 DEF NoticeLasts, Matches
<1> QED
  BY <1>1, <1>2, <1>6, <1>9, <1>12, <1>13, DoneStep

\* release: the CPU holds the lock; interrupts come back on with the last one,
\* and never in a handler.
LEMMA ReleaseKeeps ==
    ASSUME IntrInv, NEW c \in Harts, ReleaseLock(c)
    PROVE  IntrInv'
<1> DEFINE l == Arg(c)
           t == ThreadOf(c)
           h == hart[c]
<1>1. At(c, "release")
  BY DEF ReleaseLock
<1>2. PICK g, m \in Labels : Matches(c, g) /\ Step(t, g, Head(Ahead(c)), m) /\ Fits(t, Tail(Ahead(c)), m, InUser)
  BY <1>1, AtHead
<1>3. Head(Ahead(c))[1] = "release" /\ Head(Ahead(c))[2] = l
  BY <1>1, AtHead
<1>4. /\ ~g.away /\ m = Label(g.held \ {l}, g.noff - 1, g.quiet, FALSE, g.looked, FALSE)
      /\ \/ g.held = {l} /\ g.noff = 1 /\ ~g.looked
         \/ g.held = {TicksLock, t} /\ g.noff = 2 /\ l = TicksLock /\ t \in Threads
  BY <1>2, <1>3 DEF Step, With
<1>5. DataType /\ h \in HartType /\ hart \in [Harts -> HartType] /\ spin \in [SpinLocks -> Harts \union {NoThread}]
  BY DEF IntrInv, DataType
<1>6. g.held = {x \in SpinLocks : spin[x] = c} /\ g.noff = h.noff /\ (g.quiet \/ g.noff # 0 => ~h.intr) /\ l \in g.held /\ g.noff \in {1, 2}
  BY <1>2, <1>4 DEF Matches, Suits
<1>7. l \in SpinLocks /\ spin[l] = c /\ ~h.intr /\ ~(h.noff < 1)
  BY <1>6
<1>8. /\ hart' = [hart EXCEPT ![c] = PopOff(h)] /\ ~ipanic' /\ spin' = [spin EXCEPT ![l] = NoThread] /\ Done(c)
      /\ tstate' = tstate /\ saved' = saved /\ ticks' = ticks /\ seen' = seen
  BY <1>7 DEF ReleaseLock, Holding
<1>9. PopOff(h) \in HartType /\ PopOff(h).proc = h.proc /\ PopOff(h).intr = (h.noff = 1 /\ h.intena) /\ PopOff(h).noff = h.noff - 1 /\ PopOff(h).intena = (h.noff > 1 /\ h.intena)
  BY <1>5, PushPop
<1>10. hart' \in [Harts -> HartType] /\ hart'[c] = PopOff(h) /\ \A d \in Harts \ {c} : hart'[d] = hart[d]
  BY <1>5, <1>8, <1>9
<1>11. ThreadOf(c)' = t
  BY <1>9, <1>10 DEF ThreadOf
<1>12. g.quiet => ~h.intena
  BY <1>2, <1>4, <1>6 DEF Matches, Suits
<1>13. g.looked => t \in Threads /\ Noticed(t) /\ g.noff = 2
  BY <1>2, <1>4 DEF Matches, Suits
<1> HIDE DEF l, h
<1>14. spin' \in [SpinLocks -> Harts \union {NoThread}] /\ spin'[l] = NoThread /\ \A x \in SpinLocks \ {l} : spin'[x] = spin[x]
  BY <1>5, <1>7, <1>8
<1>15. Near(c)
  BY <1>5, <1>7, <1>8, <1>9, <1>10, <1>14 DEF Near, DataType, h
<1>16. m.held = g.held \ {l} /\ m.noff = g.noff - 1 /\ m.quiet = g.quiet /\ m.away = FALSE /\ m.looked = g.looked
  BY <1>4 DEF Label
<1>17. m.held = {x \in SpinLocks : spin'[x] = c}
  <2>1. c # NoThread
    BY InterruptAssumption
  <2> QED
    BY <1>6, <1>7, <1>14, <1>16, <2>1
<1>18. m.looked => t \in m.held
  <2>1. t \in Threads => t # TicksLock
    BY InterruptAssumption
  <2> QED
    BY <1>4, <1>13, <1>16, <2>1
<1>19. Suits(c, m)'
  <2>1. (m.quiet \/ m.noff # 0) => ~hart'[c].intr
    <3> SUFFICES ASSUME hart'[c].intr
                 PROVE  ~m.quiet /\ m.noff = 0
      OBVIOUS
    <3>1. h.noff = 1 /\ h.intena
      BY <1>9, <1>10
    <3>2. m.noff = 0
      BY <1>6, <1>16, <3>1
    <3> QED
      BY <1>12, <1>16, <3>1, <3>2
  <2>2. m.quiet => ~hart'[c].intena
    BY <1>9, <1>10, <1>12, <1>16
  <2>3. m.noff = hart'[c].noff
    BY <1>6, <1>9, <1>10, <1>16
  <2> QED
    BY <1>11, <1>13, <1>16, <1>17, <1>18, <2>1, <2>2, <2>3 DEF Suits
<1>20. NoticeLasts(c, m)
  BY <1>8, <1>13, <1>16 DEF NoticeLasts
<1> QED
  BY <1>1, <1>2, <1>8, <1>15, <1>19, <1>20, DoneStep

\* Interrupts come on where no lock is held.
LEMMA IntrOnKeeps ==
    ASSUME IntrInv, NEW c \in Harts, IntrOn(c)
    PROVE  IntrInv'
<1> DEFINE t == ThreadOf(c)
           h == hart[c]
           k == [h EXCEPT !.intr = TRUE]
<1>1. PICK n \in {"intr_on", "sret", "iret"} : At(c, n)
  BY DEF IntrOn
<1>2. PICK g, m \in Labels : Matches(c, g) /\ Step(t, g, Head(Ahead(c)), m) /\ Fits(t, Tail(Ahead(c)), m, InUser)
  BY <1>1, AtHead
<1>3. Head(Ahead(c))[1] = n
  BY <1>1, AtHead
<1>4. Bare(g) /\ m = InUser
  BY <1>1, <1>2, <1>3 DEF Step
<1>5. DataType /\ h \in HartType /\ hart \in [Harts -> HartType]
  BY DEF IntrInv, DataType
<1>6. g.held = {x \in SpinLocks : spin[x] = c} /\ g.noff = h.noff /\ g.held = {} /\ g.noff = 0
  BY <1>2, <1>4 DEF Matches, Suits, Bare
<1>7. /\ hart' = [hart EXCEPT ![c] = k] /\ ~ipanic' /\ spin' = spin /\ Done(c)
      /\ tstate' = tstate /\ saved' = saved /\ ticks' = ticks /\ seen' = seen
  BY <1>1 DEF IntrOn, At
<1>8. k \in HartType /\ k.proc = h.proc /\ k.noff = h.noff
  BY <1>5 DEF HartType
<1> HIDE DEF k
<1>9. hart' \in [Harts -> HartType] /\ hart'[c] = k /\ \A d \in Harts \ {c} : hart'[d] = hart[d]
  BY <1>5, <1>7, <1>8
<1>10. Near(c)
  BY <1>5, <1>7, <1>8, <1>9 DEF Near, DataType
<1>11. Suits(c, m)'
  BY <1>4, <1>6, <1>7, <1>8, <1>9, InUserFields DEF Suits
<1>12. NoticeLasts(c, m) /\ n # "wake"
  BY <1>4, <1>1, InUserFields DEF NoticeLasts
<1> QED
  BY <1>1, <1>2, <1>7, <1>10, <1>11, <1>12, DoneStep

\* The thread gets its own intena back.
LEMMA ResumeKeeps ==
    ASSUME IntrInv, NEW c \in Harts, Resume(c)
    PROVE  IntrInv'
<1> DEFINE t == ThreadOf(c)
           h == hart[c]
           k == [h EXCEPT !.intena = saved[t]]
<1>1. At(c, "resume")
  BY DEF Resume
<1>2. PICK g, m \in Labels : Matches(c, g) /\ Step(t, g, Head(Ahead(c)), m) /\ Fits(t, Tail(Ahead(c)), m, InUser)
  BY <1>1, AtHead
<1>3. Head(Ahead(c))[1] = "resume" /\ Head(Ahead(c))[2] = Arg(c)
  BY <1>1, AtHead
<1>4. t \in Threads /\ Arg(c) = t /\ g.held = {t} /\ g.noff = 1 /\ g.away /\ m = Label({t}, 1, g.quiet, FALSE, FALSE, FALSE)
  BY <1>2, <1>3 DEF Step, With
<1>5. DataType /\ h \in HartType /\ hart \in [Harts -> HartType] /\ saved \in [Threads -> BOOLEAN]
  BY DEF IntrInv, DataType
<1>6. g.held = {x \in SpinLocks : spin[x] = c} /\ g.noff = h.noff /\ ~h.intr /\ (g.quiet => ~saved[t])
  BY <1>2, <1>4 DEF Matches, Suits
<1>7. /\ hart' = [hart EXCEPT ![c] = k] /\ ~ipanic' /\ spin' = spin /\ Done(c)
      /\ tstate' = tstate /\ saved' = [saved EXCEPT ![t] = FALSE] /\ ticks' = ticks /\ seen' = seen
  BY <1>1, <1>4 DEF Resume, At
<1>8. k \in HartType /\ k.proc = h.proc /\ k.noff = h.noff /\ k.intr = h.intr /\ k.intena = saved[t]
  <2>1. saved[t] \in BOOLEAN
    BY <1>4, <1>5
  <2> QED
    BY <1>5, <2>1 DEF HartType
<1> HIDE DEF k
<1>9. hart' \in [Harts -> HartType] /\ hart'[c] = k /\ \A d \in Harts \ {c} : hart'[d] = hart[d]
  BY <1>5, <1>7, <1>8
<1>10. saved' \in [Threads -> BOOLEAN] /\ \A p \in Threads \ {t} : saved'[p] = saved[p]
  BY <1>5, <1>7
<1>11. Near(c)
  BY <1>5, <1>7, <1>8, <1>9, <1>10 DEF Near, DataType
<1>12. m.held = {t} /\ m.noff = 1 /\ m.quiet = g.quiet /\ m.away = FALSE /\ m.looked = FALSE
  BY <1>4 DEF Label
<1>13. Suits(c, m)'
  BY <1>4, <1>6, <1>7, <1>8, <1>9, <1>12 DEF Suits
<1>14. NoticeLasts(c, m)
  BY <1>12 DEF NoticeLasts
<1> QED
  BY <1>1, <1>2, <1>7, <1>11, <1>13, <1>14, DoneStep

\* A step that leaves the CPU and the locks alone.
LEMMA StillNear ==
    ASSUME IntrInv, NEW c \in Harts, hart' = hart, spin' = spin, saved' = saved, ~ipanic', ticks' \in Nat, seen' \in [Threads -> Nat],
           \A p \in Threads : tstate'[p] = tstate[p] \/ (tstate[p] = "SLEEPING" /\ tstate'[p] = "RUNNABLE"),
           tstate' \in [Threads -> {"RUNNABLE", "RUNNING", "SLEEPING", "ZOMBIE"}]
    PROVE  Near(c) /\ ThreadOf(c)' = ThreadOf(c) /\ \A g : Suits(c, g) => Suits(c, g)'
<1>1. DataType
  BY DEF IntrInv
<1>2. Near(c)
  BY <1>1 DEF Near, DataType
<1>3. ThreadOf(c)' = ThreadOf(c)
  BY DEF ThreadOf
<1>4. \A g : Suits(c, g) => Suits(c, g)'
  BY <1>3 DEF Suits
<1> QED
  BY <1>2, <1>3, <1>4

\* A step that changes code only.
LEMMA StillSame ==
    ASSUME IntrInv, NEW c \in Harts, UNCHANGED <<hart, spin, saved, ticks, seen, tstate>>, ~ipanic'
    PROVE  Near(c) /\ \A g : Matches(c, g) => Suits(c, g)' /\ NoticeLasts(c, g)
<1>1. DataType
  BY DEF IntrInv
<1>2. ticks' \in Nat /\ seen' \in [Threads -> Nat] /\ tstate' \in [Threads -> {"RUNNABLE", "RUNNING", "SLEEPING", "ZOMBIE"}]
  BY <1>1 DEF DataType
<1>3. Near(c) /\ \A g : Suits(c, g) => Suits(c, g)'
  BY <1>2, StillNear
<1>4. \A g : Matches(c, g) => NoticeLasts(c, g)
  BY DEF Matches, NoticeLasts
<1> QED
  BY <1>3, <1>4 DEF Matches

\* Code that begins outside clockintr has no tick.
LEMMA FitsTickFree ==
    ASSUME NEW t, NEW s \in Seq(Ops), NEW a, NEW b, Fits(t, s, a, b), ~a.dev
    PROVE  TickFit(s)
<1>1. \A i \in DOMAIN s : s[i][1] # "tick"
  BY FitsPending
<1> QED
  BY <1>1, TickFree

\* kerneltrap gives up the CPU with interrupts off.
LEMMA ReschedKeeps ==
    ASSUME IntrInv, NEW c \in Harts, Resched(c)
    PROVE  IntrInv'
<1> DEFINE t == ThreadOf(c)
           p == hart[c].proc
<1>1. At(c, "resched") /\ UNCHANGED <<hart, spin, saved, ticks, seen, tstate>> /\ ~ipanic'
  BY DEF Resched, At
<1>2. PICK g, m \in Labels : Matches(c, g) /\ Step(t, g, Head(Ahead(c)), m) /\ Fits(t, Tail(Ahead(c)), m, InUser)
  BY <1>1, AtHead
<1>3. Head(Ahead(c))[1] = "resched"
  BY <1>1, AtHead
<1>4. Bare(g) /\ m = g
  BY <1>2, <1>3 DEF Step
<1>5. Near(c) /\ Suits(c, g)' /\ NoticeLasts(c, g)
  BY <1>1, <1>2, StillSame
<1>6. CASE p # NoThread /\ tstate[p] = "RUNNING"
  <2>1. Becomes(c, Yield(p)) /\ t = p
    BY <1>6 DEF Resched, ThreadOf
  <2>2. t \in Threads
    BY <1>6, ThreadsApart DEF IntrInv
  <2>3. g = Calm(g.quiet) /\ g.quiet \in BOOLEAN
    BY <1>4, BareIsCalm, LabelParts
  <2>4. Yield(t) \in Seq(Ops) /\ Fits(t, Yield(t), g, g)
    BY <2>2, <2>3, FitsYield
  <2>5. TickFit(Yield(t))
    BY <1>4, <2>4, FitsTickFree DEF Bare
  <2> QED
    BY <1>1, <1>2, <1>4, <1>5, <2>1, <2>4, <2>5, PlainStep
<1>7. CASE ~(p # NoThread /\ tstate[p] = "RUNNING")
  <2>1. Done(c)
    BY <1>7 DEF Resched, Done
  <2> QED
    BY <1>1, <1>2, <1>4, <1>5, <2>1, DoneStep
<1> QED
  BY <1>6, <1>7

\* A CPU does not rely on its own notice while another thread's counts.
LEMMA ReliesApart ==
    ASSUME IntrInv, NEW c \in Harts, NEW p \in Threads, Relies(c, p), tstate'[p] = tstate[p]
    PROVE  p # ThreadOf(c)
BY ThreadsApart DEF IntrInv, Relies

\* Every process is to be woken after the tick.
LEMMA TickKeeps ==
    ASSUME IntrInv, NEW c \in Harts, Tick(c)
    PROVE  IntrInv'
<1> DEFINE t == ThreadOf(c)
           s == Tail(Ahead(c))
<1>1. At(c, "tick") /\ hart' = hart /\ spin' = spin /\ saved' = saved /\ seen' = seen /\ tstate' = tstate /\ ~ipanic' /\ Done(c)
  BY DEF Tick, At
<1>2. ticks' \in Nat
  <2>1. ticks + 1 \in Nat /\ TickMod \in Nat \ {0}
    BY InterruptAssumption DEF IntrInv, DataType
  <2>2. \A a \in Nat, b \in Nat \ {0} : a % b \in Nat
    OBVIOUS
  <2> QED
    BY <2>1, <2>2 DEF Tick
<1>3. PICK g, m \in Labels : Matches(c, g) /\ Step(t, g, Head(Ahead(c)), m) /\ Fits(t, s, m, InUser)
  BY <1>1, AtHead
<1>4. Head(Ahead(c))[1] = "tick" /\ Ahead(c) \in Seq(Ops) /\ Ahead(c) # <<>> /\ s \in Seq(Ops) /\ TickFit(s)
  BY <1>1, AtHead
<1>5. Plain(g) /\ m = g
  BY <1>3, <1>4 DEF Step
<1>6. seen' \in [Threads -> Nat] /\ tstate' \in [Threads -> {"RUNNABLE", "RUNNING", "SLEEPING", "ZOMBIE"}]
  BY <1>1 DEF IntrInv, DataType
<1>7. Near(c) /\ Suits(c, g)' /\ ThreadOf(c)' = t
  BY <1>1, <1>2, <1>3, <1>6, StillNear DEF Matches
<1>8. Matches(c, g)'
  BY <1>5, <1>7 DEF Matches, Plain
<1>9. ThreadOf(c) \in Threads \union Harts
  BY ThreadsApart DEF IntrInv
<1>10. \A p \in Threads : Pends(s, p)
  <2> SUFFICES ASSUME NEW p \in Threads
               PROVE  Pends(s, p)
    OBVIOUS
  <2>1. 1 \in DOMAIN Ahead(c) /\ Head(Ahead(c)) = Ahead(c)[1]
    <3>1. Len(Ahead(c)) \in Nat \ {0} /\ DOMAIN Ahead(c) = 1 .. Len(Ahead(c))
      BY <1>4, EmptySeq, LenProperties
    <3> QED
      BY <1>4, <3>1
  <2>2. TickFit(Ahead(c))
    BY <1>9 DEF IntrInv, Ahead
  <2>3. Pends(Ahead(c), p)
    BY <1>4, <2>1, <2>2 DEF TickFit, Pends
  <2>4. Head(Ahead(c)) # Op("wake", p)
    BY <1>4 DEF Op
  <2> QED
    BY <1>4, <2>3, <2>4, PendsTail
<1>11. todo' = [todo EXCEPT ![ThreadOf(c)] = s]
  <2>1. <<>> \o s = s
    BY <1>4, ConcatEmptySeq
  <2> QED
    BY <1>1, <2>1 DEF Done, Becomes, Ahead
<1>12. Ahead(c)' = s
  BY <1>7, <1>9, <1>11 DEF Ahead, IntrInv, CodeType
<1>13. \A p \in Threads : Noticed(p)'
  BY <1>10, <1>12 DEF Noticed
<1> HIDE DEF s
<1> QED
  BY <1>3, <1>4, <1>5, <1>7, <1>8, <1>11, <1>13, LocalStep

\* Woken.
LEMMA WokenTyped ==
    ASSUME DataType, NEW q \in Threads
    PROVE  /\ Woken(q) \in [Threads -> {"RUNNABLE", "RUNNING", "SLEEPING", "ZOMBIE"}] /\ Woken(q)[q] # "SLEEPING"
           /\ \A p \in Threads : Woken(q)[p] = tstate[p] \/ (tstate[p] = "SLEEPING" /\ Woken(q)[p] = "RUNNABLE")
BY DEF Woken, DataType

\* A process that is woken does not sleep, and one that is about to sleep is not
\* passed over.
LEMMA WakeKeeps ==
    ASSUME IntrInv, NEW c \in Harts, WakeTick(c)
    PROVE  IntrInv'
<1> DEFINE t == ThreadOf(c)
           s == Tail(Ahead(c))
           q == Arg(c)
<1>1. At(c, "wake") /\ hart' = hart /\ spin' = spin /\ saved' = saved /\ seen' = seen /\ ticks' = ticks /\ ~ipanic' /\ Done(c)
  BY DEF WakeTick, At
<1>2. PICK g, m \in Labels : Matches(c, g) /\ Step(t, g, Head(Ahead(c)), m) /\ Fits(t, s, m, InUser)
  BY <1>1, AtHead
<1>3. Head(Ahead(c))[1] = "wake" /\ Head(Ahead(c))[2] = q /\ Ahead(c) \in Seq(Ops) /\ Ahead(c) # <<>> /\ s \in Seq(Ops) /\ TickFit(s)
  BY <1>1, AtHead
<1>4. Plain(g) /\ m = g /\ q \in Threads /\ g.held = {TicksLock}
  BY <1>2, <1>3 DEF Step, With
<1>5. DataType /\ RunInv /\ CodeType
  BY DEF IntrInv
<1>6. \/ q = hart[c].proc /\ tstate' = tstate
      \/ q # hart[c].proc /\ spin[q] = NoThread /\ tstate' = Woken(q)
  BY DEF WakeTick
<1>7. /\ tstate' \in [Threads -> {"RUNNABLE", "RUNNING", "SLEEPING", "ZOMBIE"}]
      /\ \A p \in Threads : tstate'[p] = tstate[p] \/ (tstate[p] = "SLEEPING" /\ tstate'[p] = "RUNNABLE")
  BY <1>4, <1>5, <1>6, WokenTyped DEF DataType
<1>8. ticks' \in Nat /\ seen' \in [Threads -> Nat]
  BY <1>1, <1>5 DEF DataType
<1>9. Near(c) /\ Suits(c, g)'
  BY <1>1, <1>2, <1>7, <1>8, StillNear DEF Matches
<1>10. Matches(c, g)'
  BY <1>4, <1>9 DEF Matches, Plain
<1>11. todo' = [todo EXCEPT ![ThreadOf(c)] = s]
  <2>1. <<>> \o s = s
    BY <1>3, ConcatEmptySeq
  <2> QED
    BY <1>1, <2>1 DEF Done, Becomes, Ahead
<1>12. spin[TicksLock] = c
  BY <1>2, <1>4 DEF Matches, Suits
<1>13. ~Relies(c, q)
  <2>1. CASE q = hart[c].proc /\ tstate' = tstate
    <3>1. q = ThreadOf(c)
      BY <1>4, <1>5, <2>1, InterruptAssumption DEF ThreadOf
    <3> QED
      BY <1>4, <2>1, <3>1, ReliesApart
  <2>2. CASE q # hart[c].proc /\ spin[q] = NoThread /\ tstate' = Woken(q)
    <3>1. tstate'[q] # "SLEEPING"
      BY <1>4, <1>5, <2>2, WokenTyped
    <3>2. \A d \in Harts \ {c} : spin[TicksLock] # d /\ spin[q] # d
      BY <1>12, <2>2, InterruptAssumption
    <3> QED
      BY <3>1, <3>2 DEF Relies
  <2> QED
    BY <1>6, <2>1, <2>2
<1>14. ASSUME NEW p \in Threads, Noticed(p), Relies(c, p) PROVE Noticed(p)'
  <2>1. p # q
    BY <1>13, <1>14
  <2>2. Head(Ahead(c)) # Op("wake", p)
    BY <1>3, <2>1 DEF Op
  <2>3. Pends(Ahead(c), p) => Pends(s, p)
    BY <1>3, <2>2, PendsTail
  <2> HIDE DEF s
  <2> QED
    BY <1>1, <1>5, <1>9, <1>11, <1>14, <2>3, NoticeKept
<1> HIDE DEF s
<1> QED
  BY <1>2, <1>3, <1>4, <1>9, <1>10, <1>11, <1>14, LocalStep

\* kill.
LEMMA KillKeeps ==
    ASSUME IntrInv, NEW c \in Harts, KillOne(c)
    PROVE  IntrInv'
<1> DEFINE t == ThreadOf(c)
           q == Arg(c)
<1>1. At(c, "kill") /\ hart' = hart /\ spin' = spin /\ saved' = saved /\ seen' = seen /\ ticks' = ticks /\ ~ipanic' /\ Done(c) /\ tstate' = Woken(q)
  BY DEF KillOne, At
<1>2. PICK g, m \in Labels : Matches(c, g) /\ Step(t, g, Head(Ahead(c)), m) /\ Fits(t, Tail(Ahead(c)), m, InUser)
  BY <1>1, AtHead
<1>3. Head(Ahead(c))[1] = "kill" /\ Head(Ahead(c))[2] = q
  BY <1>1, AtHead
<1>4. Bare(g) /\ m = g /\ q \in Threads
  BY <1>2, <1>3 DEF Step
<1>5. DataType
  BY DEF IntrInv
<1>6. ticks' \in Nat /\ seen' \in [Threads -> Nat]
  BY <1>1, <1>5 DEF DataType
<1>7. Near(c) /\ Suits(c, g)'
  BY <1>1, <1>2, <1>4, <1>5, <1>6, WokenTyped, StillNear DEF Matches
<1>8. NoticeLasts(c, g)
  BY <1>4 DEF NoticeLasts, Bare, Plain
<1> QED
  BY <1>1, <1>2, <1>4, <1>7, <1>8, DoneStep

\* killed, and exit.
LEMMA KilledKeeps ==
    ASSUME IntrInv, NEW c \in Harts, KilledExits(c)
    PROVE  IntrInv'
<1> DEFINE t == ThreadOf(c)
           r == Tail(Ahead(c))
<1>1. At(c, "killed") /\ UNCHANGED <<hart, spin, saved, ticks, seen, tstate>> /\ ~ipanic'
  BY DEF KilledExits, At
<1>2. PICK g, m \in Labels : Matches(c, g) /\ Step(t, g, Head(Ahead(c)), m) /\ Fits(t, r, m, InUser)
  BY <1>1, AtHead
<1>3. Head(Ahead(c))[1] = "killed" /\ Head(Ahead(c))[2] = Arg(c) /\ Ahead(c) \in Seq(Ops) /\ Ahead(c) # <<>> /\ r \in Seq(Ops)
  BY <1>1, AtHead
<1>4. Bare(g) /\ m = g /\ Arg(c) = t /\ t \in Threads
  BY <1>2, <1>3 DEF Step
<1>5. Near(c) /\ Suits(c, g)' /\ NoticeLasts(c, g)
  BY <1>1, <1>2, StillSame
<1>6. CASE tkilled[t]
  <2> DEFINE s == ExitNow(t)
  <2>1. todo' = [todo EXCEPT ![ThreadOf(c)] = s]
    BY <1>4, <1>6 DEF KilledExits
  <2>2. g = Calm(g.quiet) /\ g.quiet \in BOOLEAN
    BY <1>4, BareIsCalm, LabelParts
  <2>3. s \in Seq(Ops) /\ Fits(t, s, g, InUser)
    BY <1>4, <2>2, FitsExit
  <2>4. TickFit(s)
    BY <1>4, <2>3, FitsTickFree DEF Bare
  <2>5. \A p \in Threads : ~Pends(Ahead(c), p)
    <3> SUFFICES ASSUME NEW p \in Threads, Pends(Ahead(c), p)
                 PROVE  FALSE
      OBVIOUS
    <3>1. Head(Ahead(c)) # Op("wake", p)
      BY <1>3 DEF Op
    <3>2. Pends(r, p)
      BY <1>3, <3>1, PendsTail
    <3>3. PICK i \in DOMAIN r : r[i] = Op("wake", p)
      BY <3>2 DEF Pends
    <3> HIDE DEF r
    <3>4. r[i][1] = "wake"
      BY <3>3 DEF Op
    <3> QED
      BY <1>2, <1>3, <1>4, <3>4, FitsPending DEF Bare
  <2>6. Matches(c, g)'
    BY <1>4, <1>5 DEF Matches, Bare, Plain
  <2>7. DataType /\ CodeType /\ RunInv
    BY DEF IntrInv
  <2> HIDE DEF s
  <2>8. ASSUME NEW p \in Threads, Noticed(p), Relies(c, p) PROVE Noticed(p)'
    BY <1>1, <1>5, <2>1, <2>5, <2>7, <2>8, NoticeKept
  <2> QED
    BY <1>5, <2>1, <2>3, <2>4, <2>6, <2>8, LocalStep
<1>7. CASE ~tkilled[t]
  <2>1. Done(c)
    BY <1>4, <1>7 DEF KilledExits
  <2> QED
    BY <1>1, <1>2, <1>4, <1>5, <2>1, DoneStep
<1> QED
  BY <1>6, <1>7

\* sys_sleep begins.
LEMMA StartKeeps ==
    ASSUME IntrInv, NEW c \in Harts, SleepStart(c)
    PROVE  IntrInv'
<1> DEFINE t == ThreadOf(c)
<1>1. At(c, "start") /\ UNCHANGED <<hart, spin, saved, ticks, seen, tstate>> /\ ~ipanic' /\ Done(c)
  BY DEF SleepStart, At
<1>2. PICK g, m \in Labels : Matches(c, g) /\ Step(t, g, Head(Ahead(c)), m) /\ Fits(t, Tail(Ahead(c)), m, InUser)
  BY <1>1, AtHead
<1>3. Head(Ahead(c))[1] = "start"
  BY <1>1, AtHead
<1>4. m = g
  BY <1>2, <1>3 DEF Step
<1>5. Near(c) /\ Suits(c, g)' /\ NoticeLasts(c, g)
  BY <1>1, <1>2, StillSame
<1> QED
  BY <1>1, <1>2, <1>4, <1>5, DoneStep

\* sys_sleep looks at ticks.
LEMMA LoopKeeps ==
    ASSUME IntrInv, NEW c \in Harts, SleepLoop(c)
    PROVE  IntrInv'
<1> DEFINE t == ThreadOf(c)
<1>1. At(c, "loop") /\ UNCHANGED <<hart, spin, saved, ticks, tstate>> /\ ~ipanic'
  BY DEF SleepLoop, At
<1>2. PICK g, m \in Labels : Matches(c, g) /\ Step(t, g, Head(Ahead(c)), m) /\ Fits(t, Tail(Ahead(c)), m, InUser)
  BY <1>1, AtHead
<1>3. Head(Ahead(c))[1] = "loop" /\ Head(Ahead(c))[2] = Arg(c)
  BY <1>1, AtHead
<1>4. t \in Threads /\ Arg(c) = t /\ g.held = {TicksLock} /\ g.noff = 1 /\ Plain(g) /\ ~g.dev /\ m = Label({}, 0, g.quiet, FALSE, FALSE, FALSE)
  BY <1>2, <1>3 DEF Step, With
<1>5. g.quiet \in BOOLEAN /\ m = Calm(g.quiet) /\ g = Owner(TicksLock, g.quiet, FALSE, FALSE) /\ TicksLock \in SpinLocks
  <2>1. g = Label(g.held, g.noff, g.quiet, g.away, g.looked, g.dev) /\ g.quiet \in BOOLEAN /\ g.away \in BOOLEAN /\ g.looked \in BOOLEAN /\ g.dev \in BOOLEAN
    BY LabelParts
  <2>2. g.away = FALSE /\ g.looked = FALSE /\ g.dev = FALSE
    BY <1>4, <2>1 DEF Plain
  <2> QED
    BY <1>4, <2>1, <2>2 DEF Calm, Owner, SpinLocks
<1>6. DataType /\ ticks \in Nat /\ seen \in [Threads -> Nat]
  BY DEF IntrInv, DataType
<1>7. PICK e \in Nat : /\ seen' = [seen EXCEPT ![t] = e]
                       /\ \/ e = ticks /\ Becomes(c, SleepOn(t) \o <<Op("loop", t)>>)
                          \/ Becomes(c, <<Release(TicksLock)>>)
  BY <1>4, <1>6 DEF SleepLoop
<1>8. seen' \in [Threads -> Nat] /\ seen'[t] = e /\ \A p \in Threads \ {t} : seen'[p] = seen[p]
  BY <1>4, <1>6, <1>7
<1>9. ticks' \in Nat /\ tstate' \in [Threads -> {"RUNNABLE", "RUNNING", "SLEEPING", "ZOMBIE"}]
  BY <1>1, <1>6 DEF DataType
<1>10. Near(c) /\ Suits(c, g)' /\ ThreadOf(c)' = t
  BY <1>1, <1>2, <1>8, <1>9, StillNear DEF Matches
<1>11. \A p \in Threads : Relies(c, p) => seen'[p] = seen[p]
  BY <1>1, <1>8, ReliesApart
<1>12. CASE e = ticks /\ Becomes(c, SleepOn(t) \o <<Op("loop", t)>>)
  <2> DEFINE ops == SleepOn(t) \o <<Op("loop", t)>>
             k == Owner(TicksLock, g.quiet, FALSE, TRUE)
  <2>1. ops \in Seq(Ops) /\ Fits(t, ops, k, m)
    BY <1>4, <1>5, FitsLoop
  <2>2. k \in Labels /\ k.held = {TicksLock} /\ k.noff = 1 /\ k.quiet = g.quiet /\ ~k.away /\ k.looked /\ ~k.dev
    BY <1>5, OwnerFields DEF With
  <2> HIDE DEF ops, k
  <2>3. TickFit(ops)
    BY <2>1, <2>2, FitsTickFree
  <2>4. Suits(c, k)'
    BY <1>4, <1>10, <2>2 DEF Suits, Plain
  <2>5. NoticeLasts(c, k)
    BY <1>1, <1>8, <1>12 DEF NoticeLasts
  <2>6. Becomes(c, ops)
    BY <1>12 DEF ops
  <2> QED
    BY <1>1, <1>2, <1>10, <1>11, <2>1, <2>2, <2>3, <2>4, <2>5, <2>6, PlainStep
<1>13. CASE Becomes(c, <<Release(TicksLock)>>)
  <2> DEFINE ops == <<Release(TicksLock)>>
  <2>1. ops \in Seq(Ops)
    BY <1>5, OpsTyped
  <2>2. Step(t, g, Release(TicksLock), m)
    BY <1>5, StepTake
  <2>3. Fits(t, ops, g, m)
    BY <2>2, FitsOne
  <2>4. Becomes(c, ops)
    BY <1>13
  <2> HIDE DEF ops
  <2>5. TickFit(ops)
    BY <1>4, <2>1, <2>3, FitsTickFree
  <2>6. NoticeLasts(c, g)
    BY <1>4 DEF NoticeLasts, Plain
  <2> QED
    BY <1>1, <1>2, <1>10, <1>11, <2>1, <2>3, <2>4, <2>5, <2>6, PlainStep
<1> QED
  BY <1>7, <1>12, <1>13

-----------------------------------------------------------------------------
(* Traps.                                                                    *)

\* The handler of a CPU wakes everyone after it has counted.
LEMMA TickFitDev ==
    ASSUME NEW c \in Harts
    PROVE  TickFit(DevIntr(c))
<1>1. TickFit(<<>>)
  BY DEF TickFit
<1> QED
  BY <1>1, TickFitClock DEF DevIntr

\* kerneltrap.
LEMMA FitsKernelTrap ==
    ASSUME NEW t, NEW c \in Harts
    PROVE  LET s == DevIntr(c) \o <<Op("resched", c), Op("iret", c)>> IN
           s \in Seq(Ops) /\ TickFit(s) /\ \E g : Begins(g) /\ Fits(t, s, g, InUser)
<1> DEFINE r == <<Op("resched", c), Op("iret", c)>>
<1>1. r \in Seq(Ops) /\ Fits(t, r, Calm(TRUE), InUser)
  BY FitsReturn
<1> HIDE DEF r
<1>2. PICK g : Begins(g) /\ Fits(t, DevIntr(c), g, Calm(TRUE)) /\ DevIntr(c) \in Seq(Ops)
  BY FitsDevIntr
<1>3. DevIntr(c) \o r \in Seq(Ops) /\ Fits(t, DevIntr(c) \o r, g, InUser)
  BY <1>1, <1>2, FitsJoin
<1>4. TickFit(DevIntr(c) \o r)
  <2>1. ~Calm(TRUE).dev
    BY CalmFields DEF Bare
  <2>2. TickFit(r)
    BY <1>1, <2>1, FitsTickFree
  <2> QED
    BY <1>1, <1>2, <2>2, TickFitDev, TickFitConcat
<1> QED
  BY <1>2, <1>3, <1>4 DEF r

\* usertrap for a timer interrupt.
LEMMA FitsUserTrap ==
    ASSUME NEW t \in Threads, NEW c \in Harts
    PROVE  LET s == DevIntr(c) \o (<<Op("killed", t)>> \o Yield(t) \o UserTrapRet) IN
           s \in Seq(Ops) /\ TickFit(s) /\ \E g : Begins(g) /\ Fits(t, s, g, InUser)
<1> DEFINE x1 == <<Op("killed", t)>>
           x2 == Yield(t)
           x3 == UserTrapRet
<1>1. Calm(TRUE) \in Labels /\ InUser \in Labels
  BY CalmFields, InUserFields
<1>2. x1 \in Seq(Ops) /\ x3 \in Seq(Ops)
  BY OpsTyped DEF UserTrapRet
<1>3. Fits(t, x1, Calm(TRUE), Calm(TRUE)) /\ Fits(t, x3, Calm(TRUE), InUser)
  <2>1. Step(t, Calm(TRUE), Op("killed", t), Calm(TRUE)) /\ Step(t, Calm(TRUE), Op("sret", TicksLock), InUser)
    BY StepCalm
  <2> QED
    BY <1>1, <2>1, FitsOne DEF UserTrapRet
<1>4. x2 \in Seq(Ops) /\ Fits(t, x2, Calm(TRUE), Calm(TRUE))
  BY FitsYield
<1> HIDE DEF x1, x2, x3
<1>5. x1 \o x2 \in Seq(Ops) /\ Fits(t, x1 \o x2, Calm(TRUE), Calm(TRUE))
  BY <1>2, <1>3, <1>4, FitsJoin
<1>6. (x1 \o x2) \o x3 \in Seq(Ops) /\ Fits(t, (x1 \o x2) \o x3, Calm(TRUE), InUser)
  BY <1>2, <1>3, <1>5, FitsJoin
<1> DEFINE r == (x1 \o x2) \o x3
<1>7. r \in Seq(Ops) /\ Fits(t, r, Calm(TRUE), InUser)
  BY <1>6
<1> HIDE DEF r
<1>8. PICK g : Begins(g) /\ Fits(t, DevIntr(c), g, Calm(TRUE)) /\ DevIntr(c) \in Seq(Ops)
  BY FitsDevIntr
<1>9. DevIntr(c) \o r \in Seq(Ops) /\ Fits(t, DevIntr(c) \o r, g, InUser)
  BY <1>7, <1>8, FitsJoin
<1>10. TickFit(DevIntr(c) \o r)
  <2>1. ~Calm(TRUE).dev
    BY CalmFields DEF Bare
  <2>2. TickFit(r)
    BY <1>7, <2>1, FitsTickFree
  <2> QED
    BY <1>7, <1>8, <2>2, TickFitDev, TickFitConcat
<1> QED
  BY <1>8, <1>9, <1>10 DEF r, x1, x2, x3

\* With interrupts on, or in user mode, a CPU holds no lock.
LEMMA Interruptible ==
    ASSUME IntrInv, NEW c \in Harts, hart[c].intr \/ Ahead(c) = <<>>
    PROVE  Fits(ThreadOf(c), Ahead(c), InUser, InUser) /\ Suits(c, InUser) /\ Ahead(c) \in Seq(Ops) /\ TickFit(Ahead(c))
<1>1. PICK g \in Labels : Fits(ThreadOf(c), Ahead(c), g, InUser) /\ Matches(c, g)
  BY DEF IntrInv, Running
<1>2. g = InUser
  <2>1. CASE hart[c].intr
    <3>1. ~g.quiet /\ g.noff = 0
      BY <1>1, <2>1 DEF Matches, Suits
    <3>2. Bare(g) /\ g.quiet = FALSE
      BY <3>1, LabelParts DEF Bare, Plain
    <3> QED
      BY <3>2, BareIsCalm, CalmFields
  <2>2. CASE Ahead(c) = <<>>
    BY <1>1, <2>2, FitsNil
  <2> QED
    BY <2>1, <2>2
<1>3. ThreadOf(c) \in Threads \union Harts
  BY ThreadsApart DEF IntrInv
<1> QED
  BY <1>1, <1>2, <1>3 DEF Matches, IntrInv, CodeType, Ahead

\* A trap, or the scheduler's next round, begins with new code in front.
LEMMA TrapStep ==
    ASSUME IntrInv, NEW c \in Harts, hart[c].intr \/ Ahead(c) = <<>>, NEW b \in BOOLEAN, hart' = [hart EXCEPT ![c].intr = b],
           UNCHANGED <<spin, saved, ticks, seen, tstate>>, ~ipanic', NEW ops \in Seq(Ops), Starts(c, ops), TickFit(ops),
           NEW g \in Labels, g.held = {}, g.noff = 0, ~g.away, ~g.looked, g.quiet => ~b, Fits(ThreadOf(c), ops, g, InUser)
    PROVE  IntrInv'
<1> DEFINE t == ThreadOf(c)
           r == Ahead(c)
           s == ops \o r
           h == hart[c]
           k == [h EXCEPT !.intr = b]
<1>1. Fits(t, r, InUser, InUser) /\ Suits(c, InUser) /\ r \in Seq(Ops) /\ TickFit(r)
  BY Interruptible
<1>2. DataType /\ CodeType /\ RunInv /\ hart \in [Harts -> HartType] /\ h \in HartType
  BY DEF IntrInv, DataType
<1>3. k \in HartType /\ k.proc = h.proc /\ k.noff = h.noff /\ k.intr = b
  BY <1>2 DEF HartType
<1>4. hart' = [hart EXCEPT ![c] = k]
  OBVIOUS
<1> HIDE DEF k
<1>5. hart' \in [Harts -> HartType] /\ hart'[c] = k /\ \A d \in Harts \ {c} : hart'[d] = hart[d]
  BY <1>2, <1>3, <1>4
<1>6. Near(c)
  BY <1>2, <1>3, <1>5 DEF Near, DataType
<1>7. Matches(c, g)'
  <2>1. Suits(c, g)'
    BY <1>1, <1>3, <1>5, InUserFields DEF Suits
  <2> QED
    BY <2>1 DEF Matches
<1>8. todo' = [todo EXCEPT ![t] = s]
  BY DEF Starts, Ahead
<1> HIDE DEF r
<1>9. s \in Seq(Ops) /\ Fits(t, s, g, InUser) /\ TickFit(s) /\ \A p : Pends(r, p) => Pends(s, p)
  <2> HIDE DEF t
  <2>1. Fits(t, ops, g, InUser)
    BY DEF t
  <2> QED
    BY <1>1, <2>1, FitsJoin, TickFitConcat, PendsConcat
<1> HIDE DEF s
<1>10. ASSUME NEW p \in Threads, Noticed(p), Relies(c, p) PROVE Noticed(p)'
  BY <1>2, <1>6, <1>8, <1>9, <1>10, NoticeKept DEF r
<1> QED
  BY <1>6, <1>7, <1>8, <1>9, <1>10, LocalStep

\* A timer interrupt.
LEMMA InterruptKeeps ==
    ASSUME IntrInv, NEW c \in Harts, Interrupt(c)
    PROVE  IntrInv'
<1> DEFINE t == ThreadOf(c)
<1>1. hart[c].intr /\ hart' = [hart EXCEPT ![c].intr = FALSE] /\ UNCHANGED <<spin, saved, ticks, seen, tstate>> /\ ~ipanic'
  BY DEF Interrupt
<1>2. CASE InUserMode(c)
  <2>1. t \in Threads /\ hart[c].proc = t
    BY <1>2, ThreadsApart DEF InUserMode, IntrInv
  <2> DEFINE ops == DevIntr(c) \o (<<Op("killed", t)>> \o Yield(t) \o UserTrapRet)
  <2>2. Starts(c, ops)
    BY <1>2, <2>1 DEF Interrupt
  <2>3. ops \in Seq(Ops) /\ TickFit(ops) /\ \E g : Begins(g) /\ Fits(t, ops, g, InUser)
    BY <2>1, FitsUserTrap
  <2> HIDE DEF ops
  <2> QED
    BY <1>1, <2>2, <2>3, TrapStep DEF Begins
<1>3. CASE ~InUserMode(c)
  <2> DEFINE ops == DevIntr(c) \o <<Op("resched", c), Op("iret", c)>>
  <2>1. Starts(c, ops)
    BY <1>3 DEF Interrupt
  <2>2. ops \in Seq(Ops) /\ TickFit(ops) /\ \E g : Begins(g) /\ Fits(t, ops, g, InUser)
    BY FitsKernelTrap
  <2> HIDE DEF ops
  <2> QED
    BY <1>1, <2>1, <2>2, TrapStep DEF Begins
<1> QED
  BY <1>2, <1>3

\* The scheduler turns to a process.
LEMMA SchedulerKeeps ==
    ASSUME IntrInv, NEW c \in Harts, NEW p \in Threads, Scheduler(c, p)
    PROVE  IntrInv'
<1> DEFINE ops == <<Acquire(p), Op("pick", p), Release(p)>>
<1>0. hart[c].intr \in BOOLEAN
  BY DEF IntrInv, DataType, HartType
<1>1. PICK on \in {TRUE, hart[c].intr} :
        hart' = [hart EXCEPT ![c].intr = on] /\ UNCHANGED <<spin, saved, ticks, seen, tstate>> /\ ~ipanic' /\ Starts(c, ops)
  BY DEF Scheduler
<1>2. ThreadOf(c) = c /\ Ahead(c) = <<>>
  BY DEF Scheduler, ThreadOf, Ahead
<1>3. ops \in Seq(Ops) /\ Fits(c, ops, InUser, InUser)
  BY FitsScheduler
<1> HIDE DEF ops
<1>4. TickFit(ops)
  BY <1>3, InUserFields, FitsTickFree
<1> QED
  BY <1>0, <1>1, <1>2, <1>3, <1>4, InUserFields, TrapStep

\* System calls.
LEMMA SysSleepKeeps ==
    ASSUME IntrInv, NEW c \in Harts, NEW n, SysSleep(c, n)
    PROVE  IntrInv'
<1> DEFINE t == ThreadOf(c)
           body == <<Acquire(TicksLock), Op("start", t), Op("loop", t)>>
           ops == SystemCall(t, body)
<1>1. t \in Threads /\ hart[c].proc = t /\ Ahead(c) = <<>>
  BY ThreadsApart DEF SysSleep, InUserMode, IntrInv
<1>2. hart' = [hart EXCEPT ![c].intr = FALSE] /\ UNCHANGED <<spin, saved, ticks, seen, tstate>> /\ ~ipanic' /\ Starts(c, ops)
  BY <1>1 DEF SysSleep, InUserMode
<1>3. body \in Seq(Ops) /\ Fits(t, body, InUser, InUser)
  BY <1>1, FitsSysSleep
<1> HIDE DEF body
<1>4. ops \in Seq(Ops) /\ Fits(t, ops, InUser, InUser)
  BY <1>1, <1>3, FitsSystemCall
<1> HIDE DEF ops
<1>5. TickFit(ops)
  BY <1>4, InUserFields, FitsTickFree
<1> QED
  BY <1>1, <1>2, <1>4, <1>5, InUserFields, TrapStep

\* A process enters kill, which marks another one.
LEMMA SysKillKeeps ==
    ASSUME IntrInv, NEW c \in Harts, NEW v \in Threads, SysKill(c, v)
    PROVE  IntrInv'
<1> DEFINE t == ThreadOf(c)
           body == <<Op("kill", v)>>
           ops == SystemCall(t, body)
<1>1. t \in Threads /\ hart[c].proc = t /\ Ahead(c) = <<>>
  BY ThreadsApart DEF SysKill, InUserMode, IntrInv
<1>2. hart' = [hart EXCEPT ![c].intr = FALSE] /\ UNCHANGED <<spin, saved, ticks, seen, tstate>> /\ ~ipanic' /\ Starts(c, ops)
  BY <1>1 DEF SysKill, InUserMode
<1>3. body \in Seq(Ops) /\ Fits(t, body, InUser, InUser)
  <2>1. Step(t, InUser, Op("kill", v), InUser)
    BY CalmFields, StepCalm
  <2> QED
    BY <2>1, OpsTyped, InUserFields, FitsOne
<1> HIDE DEF body
<1>4. ops \in Seq(Ops) /\ Fits(t, ops, InUser, InUser)
  BY <1>1, <1>3, FitsSystemCall
<1> HIDE DEF ops
<1>5. TickFit(ops)
  BY <1>4, InUserFields, FitsTickFree
<1> QED
  BY <1>1, <1>2, <1>4, <1>5, InUserFields, TrapStep

\* What a step that changes the thread of CPU c leaves alone.
Apart(c) ==
    /\ DataType /\ RunInv /\ CodeType /\ \A d \in Harts \ {c} : hart'[d] = hart[d]
    /\ spin' = spin /\ seen' = seen /\ ticks' = ticks /\ \A x \in Threads \ {ThreadOf(c)} : saved'[x] = saved[x]
    /\ todo' = [todo EXCEPT ![ThreadOf(c)] = Tail(Ahead(c))] /\ \A x \in Threads : ~Pends(Ahead(c), x)

\* The other CPUs do not notice it.
LEMMA OthersKeep ==
    ASSUME NEW c \in Harts, Apart(c)
    PROVE  /\ \A x \in Threads : Noticed(x) => Noticed(x)'
           /\ \A d \in Harts \ {c} : ThreadOf(d)' = ThreadOf(d) /\ (Running(d) => Running(d)')
<1>1. \A d \in Harts \ {c} : ThreadOf(d)' = ThreadOf(d) /\ ThreadOf(d) \in Threads \union Harts /\ ThreadOf(d) # ThreadOf(c)
  BY ThreadsApart DEF Apart, ThreadOf
<1>2. \A d \in Harts \ {c} : Ahead(d)' = Ahead(d)
  BY <1>1 DEF Ahead, Apart, CodeType
<1>3. ASSUME NEW x \in Threads, Noticed(x) PROVE Noticed(x)'
  <2>1. CASE seen[x] = ticks
    BY <2>1 DEF Noticed, Apart
  <2>2. CASE seen[x] # ticks
    <3>1. PICK d \in Harts : Pends(Ahead(d), x)
      BY <1>3, <2>2 DEF Noticed
    <3>2. d # c
      BY <3>1 DEF Apart
    <3> QED
      BY <1>2, <3>1, <3>2 DEF Noticed
  <2> QED
    BY <2>1, <2>2
<1>4. ASSUME NEW d \in Harts \ {c}, Running(d) PROVE Running(d)'
  <2>1. PICK k \in Labels : Fits(ThreadOf(d), Ahead(d), k, InUser) /\ Matches(d, k)
    BY <1>4 DEF Running
  <2>2. ThreadOf(d)' = ThreadOf(d) /\ Ahead(d)' = Ahead(d) /\ hart'[d] = hart[d] /\ spin' = spin
    BY <1>1, <1>2 DEF Apart
  <2>3. k.away => saved'[ThreadOf(d)] = saved[ThreadOf(d)]
    BY <1>1, <2>1 DEF Matches, Suits, Apart
  <2>4. Suits(d, k)'
    BY <2>1, <2>2, <2>3 DEF Matches, Suits
  <2>5. k.looked => Noticed(ThreadOf(d))'
    <3> SUFFICES ASSUME k.looked
                 PROVE  Noticed(ThreadOf(d))'
      OBVIOUS
    <3> DEFINE p == ThreadOf(d)
    <3>1. p \in Threads /\ Noticed(p) /\ p' = p
      BY <2>1, <2>2 DEF Matches, Suits
    <3> HIDE DEF p
    <3>2. Noticed(p)'
      BY <1>3, <3>1
    <3> QED
      BY <3>2 DEF p
  <2>6. Matches(d, k)'
    BY <2>4, <2>5 DEF Matches
  <2> QED
    BY <2>1, <2>2, <2>6 DEF Running
<1> QED
  BY <1>1, <1>3, <1>4

\* Code outside clockintr has nothing pending.
LEMMA NothingPends ==
    ASSUME NEW t, NEW s \in Seq(Ops), s # <<>>, Head(s)[1] # "wake", NEW m, NEW b, Fits(t, Tail(s), m, b), ~m.dev, NEW x
    PROVE  ~Pends(s, x)
<1> SUFFICES ASSUME Pends(s, x)
             PROVE  FALSE
  OBVIOUS
<1> DEFINE r == Tail(s)
<1>1. Head(s) # Op("wake", x)
  BY DEF Op
<1>2. Pends(r, x) /\ r \in Seq(Ops) /\ Fits(t, r, m, b)
  BY <1>1, PendsTail, HeadTailProperties
<1> HIDE DEF r
<1>3. PICK i \in DOMAIN r : r[i] = Op("wake", x)
  BY <1>2 DEF Pends
<1>4. r[i][1] = "wake"
  BY <1>3 DEF Op
<1> QED
  BY <1>2, <1>4, FitsPending

\* Done, as an update.
LEMMA DoneTodo ==
    ASSUME NEW c, Done(c), Tail(Ahead(c)) \in Seq(Ops)
    PROVE  todo' = [todo EXCEPT ![ThreadOf(c)] = Tail(Ahead(c))]
<1>1. <<>> \o Tail(Ahead(c)) = Tail(Ahead(c))
  BY ConcatEmptySeq
<1> QED
  BY <1>1 DEF Done, Becomes, Ahead

\* The scheduler switches to a process.
LEMMA PickKeeps ==
    ASSUME IntrInv, NEW c \in Harts, Pick(c)
    PROVE  IntrInv'
<1> DEFINE t == ThreadOf(c)
           p == Arg(c)
           r == Tail(Ahead(c))
           h == hart[c]
           k == [h EXCEPT !.proc = p]
<1>1. At(c, "pick") /\ spin' = spin /\ saved' = saved /\ seen' = seen /\ ticks' = ticks /\ ~ipanic' /\ Done(c)
  BY DEF Pick, At
<1>2. PICK g, m \in Labels : Matches(c, g) /\ Step(t, g, Head(Ahead(c)), m) /\ Fits(t, r, m, InUser)
  BY <1>1, AtHead
<1>3. Head(Ahead(c))[1] = "pick" /\ Head(Ahead(c))[2] = p /\ Ahead(c) \in Seq(Ops) /\ Ahead(c) # <<>> /\ r \in Seq(Ops) /\ TickFit(r)
  BY <1>1, AtHead
<1>4. p \in Threads /\ t \in Harts /\ g.held = {p} /\ g.noff = 1 /\ Plain(g) /\ ~g.quiet /\ m = g
  BY <1>2, <1>3 DEF Step, With
<1>5. DataType /\ CodeType /\ RunInv /\ hart \in [Harts -> HartType] /\ h \in HartType
  BY DEF IntrInv, DataType
<1>6. CASE tstate[p] # "RUNNABLE"
  <2>1. UNCHANGED <<hart, spin, saved, ticks, seen, tstate>>
    BY <1>1, <1>6 DEF Pick
  <2>2. Near(c) /\ Suits(c, g)' /\ NoticeLasts(c, g)
    BY <1>1, <1>2, <2>1, StillSame
  <2> QED
    BY <1>1, <1>2, <1>4, <2>2, DoneStep
<1>7. CASE tstate[p] = "RUNNABLE"
  <2>1. tstate' = [tstate EXCEPT ![p] = "RUNNING"] /\ hart' = [hart EXCEPT ![c] = k]
    BY <1>7 DEF Pick
  <2>2. k \in HartType /\ k.proc = p /\ k.noff = h.noff /\ k.intr = h.intr /\ k.intena = h.intena
    BY <1>4, <1>5 DEF HartType
  <2> HIDE DEF k
  <2>3. hart' \in [Harts -> HartType] /\ hart'[c] = k /\ \A d \in Harts \ {c} : hart'[d] = hart[d]
    BY <1>5, <2>1, <2>2
  <2>4. /\ tstate' \in [Threads -> {"RUNNABLE", "RUNNING", "SLEEPING", "ZOMBIE"}] /\ tstate'[p] = "RUNNING"
        /\ \A x \in Threads \ {p} : tstate'[x] = tstate[x]
    BY <1>4, <1>5, <2>1 DEF DataType
  <2>5. t = c /\ hart[c].proc = NoThread /\ p # c /\ p # NoThread
    BY <1>4, <1>5, ThreadsApart, InterruptAssumption
  <2>6. ThreadOf(c)' = p
    BY <2>2, <2>3, <2>5 DEF ThreadOf
  <2>7. todo' = [todo EXCEPT ![c] = r]
    BY <1>1, <1>3, <2>5, DoneTodo
  <2>8. CodeType' /\ todo'[c] = r /\ \A x \in (Threads \union Harts) \ {c} : todo'[x] = todo[x]
    BY <1>3, <1>5, <2>7 DEF CodeType
  <2>9. DataType'
    BY <1>1, <1>5, <2>3, <2>4 DEF DataType
  <2>10. ~g.dev /\ g = Owner(p, FALSE, FALSE, FALSE)
    <3>1. /\ g = Label(g.held, g.noff, g.quiet, g.away, g.looked, g.dev) /\ (g.dev => g.quiet)
          /\ g.quiet \in BOOLEAN /\ g.away \in BOOLEAN /\ g.looked \in BOOLEAN /\ g.dev \in BOOLEAN
      BY LabelParts
    <3>2. g.quiet = FALSE /\ g.away = FALSE /\ g.looked = FALSE /\ g.dev = FALSE
      BY <1>4, <3>1 DEF Plain
    <3> QED
      BY <1>4, <3>1, <3>2 DEF Owner
  <2>11. Apart(c)
    <3>1. \A x \in Threads : ~Pends(Ahead(c), x)
      BY <1>2, <1>3, <1>4, <2>10, NothingPends
    <3> QED
      BY <1>1, <1>5, <2>3, <2>5, <2>7, <3>1 DEF Apart
  <2>12. \A d \in Harts \ {c} : hart[d].proc # p
    <3> SUFFICES ASSUME NEW d \in Harts \ {c}, hart[d].proc = p
                 PROVE  FALSE
      OBVIOUS
    <3>1. tstate[hart[d].proc] = "RUNNING"
      BY <1>5, <2>5 DEF RunInv
    <3> QED
      BY <1>7, <3>1
  <2>13. RunInv'
    <3> SUFFICES ASSUME NEW d \in Harts, hart'[d].proc # NoThread
                 PROVE  tstate'[hart'[d].proc] = "RUNNING" /\ \A e \in Harts : hart'[e].proc = hart'[d].proc => e = d
      BY DEF RunInv
    <3>1. CASE d = c
      BY <2>2, <2>3, <2>4, <2>12, <3>1
    <3>2. CASE d # c
      <4>1. hart'[d] = hart[d] /\ hart[d].proc \in Threads \ {p} /\ tstate[hart[d].proc] = "RUNNING" /\ \A e \in Harts : hart[e].proc = hart[d].proc => e = d
        BY <1>5, <2>3, <2>12, <3>2, ThreadsApart DEF RunInv
      <4> QED
        BY <2>2, <2>3, <2>4, <4>1
    <3> QED
      BY <3>1, <3>2
  <2>14. PICK q, a \in BOOLEAN : Fits(p, todo[p], Owner(p, q, a, FALSE), InUser) /\ (q => a /\ ~saved[p])
    BY <1>4, <1>7 DEF IntrInv, Suspended
  <2>15. Running(c)'
    <3>0. p \in SpinLocks
      BY <1>4 DEF SpinLocks
    <3>7. PICK o \in Labels : o = Owner(p, q, a, FALSE)
      BY <3>0, OwnerFields
    <3>1. o.held = {p} /\ o.noff = 1 /\ o.quiet = q /\ o.away = a /\ ~o.looked
      BY <3>7 DEF Owner, Label
    <3>2. Fits(p, todo[p], o, InUser) /\ Ahead(c)' = todo[p]
      BY <1>4, <2>5, <2>6, <2>8, <2>14, <3>7 DEF Ahead
    <3>3. g.held = {x \in SpinLocks : spin[x] = c} /\ g.noff = h.noff /\ ~h.intr
      BY <1>2, <1>4 DEF Matches, Suits
    <3>4. Suits(c, o)'
      BY <1>1, <1>4, <2>2, <2>3, <2>6, <2>14, <3>1, <3>3 DEF Suits
    <3>5. Matches(c, o)'
      BY <3>1, <3>4 DEF Matches
    <3> QED
      BY <2>6, <3>1, <3>2, <3>5 DEF Running
  <2>16. \A d \in Harts : Running(d)'
    BY <2>11, <2>15, OthersKeep DEF IntrInv
  <2>17. ASSUME NEW x \in Threads PROVE Suspended(x)' /\ (tstate'[x] = "SLEEPING" => Noticed(x)')
    <3>1. CASE x = p
      BY <2>4, <3>1 DEF Suspended
    <3>2. CASE x # p
      <4>1. x # c
        BY InterruptAssumption
      <4>2. tstate'[x] = tstate[x] /\ todo'[x] = todo[x] /\ saved' = saved
        BY <1>1, <2>4, <2>8, <3>2, <4>1
      <4>3. Suspended(x)'
        BY <4>2 DEF IntrInv, Suspended
      <4>4. tstate[x] = "SLEEPING" => Noticed(x)'
        BY <2>11, OthersKeep DEF IntrInv
      <4> QED
        BY <4>2, <4>3, <4>4
    <3> QED
      BY <3>1, <3>2
  <2>18. ASSUME NEW d \in Harts PROVE Waiting(d)'
    <3>1. CASE d = c
      BY <1>2, <1>4, <2>2, <2>3, <2>5, <2>8, <2>10, <3>1 DEF Waiting
    <3>2. CASE d # c
      BY <2>3, <2>8, <3>2 DEF Waiting, IntrInv
    <3> QED
      BY <3>1, <3>2
  <2>19. \A x \in Threads \union Harts : TickFit(todo'[x])
    BY <1>3, <2>8 DEF IntrInv
  <2> QED
    BY <1>1, <2>8, <2>9, <2>13, <2>16, <2>17, <2>18, <2>19 DEF IntrInv
<1> QED
  BY <1>6, <1>7

\* sched: the process holds its lock and no other, and the scheduler goes on
\* with it.
LEMMA SwitchKeeps ==
    ASSUME IntrInv, NEW c \in Harts, SwitchAway(c)
    PROVE  IntrInv'
<1> DEFINE p == ThreadOf(c)
           r == Tail(Ahead(c))
           h == hart[c]
           k == [h EXCEPT !.proc = NoThread]
<1>1. At(c, "sched") /\ spin' = spin /\ seen' = seen /\ ticks' = ticks /\ Done(c)
  BY DEF SwitchAway, At
<1>2. PICK g, m \in Labels : Matches(c, g) /\ Step(p, g, Head(Ahead(c)), m) /\ Fits(p, r, m, InUser)
  BY <1>1, AtHead
<1>3. Head(Ahead(c))[1] = "sched" /\ Head(Ahead(c))[2] = Arg(c) /\ Ahead(c) \in Seq(Ops) /\ Ahead(c) # <<>> /\ r \in Seq(Ops) /\ TickFit(r)
  BY <1>1, AtHead
<1>4. /\ p \in Threads /\ g.held = {p} /\ g.noff = 1 /\ ~g.away /\ ~g.dev /\ Arg(c) \in {"RUNNABLE", "SLEEPING", "ZOMBIE"}
      /\ (g.looked <=> Arg(c) = "SLEEPING") /\ m = IF Arg(c) = "ZOMBIE" THEN InUser ELSE Label({p}, 1, g.quiet, TRUE, FALSE, FALSE)
  BY <1>2, <1>3 DEF Step, With
<1>5. DataType /\ CodeType /\ RunInv /\ hart \in [Harts -> HartType] /\ h \in HartType /\ saved \in [Threads -> BOOLEAN]
  BY DEF IntrInv, DataType
<1>6. h.proc = p /\ p # NoThread /\ p # c
  BY <1>4, <1>5, ThreadsApart, InterruptAssumption
<1>7. g.held = {x \in SpinLocks : spin[x] = c} /\ g.noff = h.noff /\ ~h.intr /\ (g.quiet => ~h.intena) /\ (g.looked => Noticed(p))
  BY <1>2, <1>4 DEF Matches, Suits
<1>8. spin[p] = c /\ p \in SpinLocks
  BY <1>4, <1>7
<1>9. /\ ~ipanic' /\ tstate' = [tstate EXCEPT ![p] = Arg(c)] /\ saved' = [saved EXCEPT ![p] = h.intena]
      /\ hart' = [hart EXCEPT ![c] = k]
  BY <1>4, <1>6, <1>7, <1>8 DEF SwitchAway, Holding
<1>10. k \in HartType /\ k.proc = NoThread /\ k.noff = h.noff /\ k.intr = h.intr /\ h.intena \in BOOLEAN
  BY <1>5 DEF HartType
<1> HIDE DEF k
<1>11. hart' \in [Harts -> HartType] /\ hart'[c] = k /\ \A d \in Harts \ {c} : hart'[d] = hart[d]
  BY <1>5, <1>9, <1>10
<1>12. /\ tstate' \in [Threads -> {"RUNNABLE", "RUNNING", "SLEEPING", "ZOMBIE"}] /\ tstate'[p] = Arg(c)
       /\ \A x \in Threads \ {p} : tstate'[x] = tstate[x]
  BY <1>4, <1>5, <1>9 DEF DataType
<1>13. saved' \in [Threads -> BOOLEAN] /\ saved'[p] = h.intena /\ \A x \in Threads \ {p} : saved'[x] = saved[x]
  BY <1>4, <1>5, <1>9, <1>10
<1>14. ThreadOf(c)' = c
  BY <1>10, <1>11 DEF ThreadOf
<1>15. todo' = [todo EXCEPT ![p] = r]
  BY <1>1, <1>3, DoneTodo
<1>16. CodeType' /\ todo'[p] = r /\ \A x \in (Threads \union Harts) \ {p} : todo'[x] = todo[x]
  BY <1>3, <1>4, <1>5, <1>15 DEF CodeType
<1>17. DataType'
  BY <1>1, <1>5, <1>11, <1>12, <1>13 DEF DataType
<1>18. ~m.dev /\ (Arg(c) # "ZOMBIE" => m = Owner(p, g.quiet, TRUE, FALSE)) /\ g.quiet \in BOOLEAN
  <2>1. Arg(c) # "ZOMBIE" => m = Label({p}, 1, g.quiet, TRUE, FALSE, FALSE)
    BY <1>4
  <2>2. ~Label({p}, 1, g.quiet, TRUE, FALSE, FALSE).dev
    BY DEF Label
  <2> QED
    BY <1>4, <2>1, <2>2, InUserFields, LabelParts DEF Owner
<1>19. Apart(c)
  <2>1. \A x \in Threads : ~Pends(Ahead(c), x)
    BY <1>2, <1>3, <1>18, NothingPends
  <2> QED
    BY <1>1, <1>5, <1>11, <1>13, <1>15, <2>1 DEF Apart
<1>20. RunInv'
  <2> SUFFICES ASSUME NEW d \in Harts, hart'[d].proc # NoThread
               PROVE  tstate'[hart'[d].proc] = "RUNNING" /\ \A e \in Harts : hart'[e].proc = hart'[d].proc => e = d
    BY DEF RunInv
  <2>1. d # c
    BY <1>10, <1>11
  <2>2. hart'[d] = hart[d] /\ hart[d].proc \in Threads \ {p} /\ tstate[hart[d].proc] = "RUNNING" /\ \A e \in Harts : hart[e].proc = hart[d].proc => e = d
    BY <1>5, <1>6, <1>11, <2>1, ThreadsApart DEF RunInv
  <2> QED
    BY <1>10, <1>11, <1>12, <2>2
<1>21. Running(c)'
  <2>0. PICK o \in Labels : o = Owner(p, FALSE, FALSE, FALSE)
    BY <1>8, OwnerFields
  <2>1. o.held = {p} /\ o.noff = 1 /\ ~o.quiet /\ ~o.away /\ ~o.looked
    BY <1>8, <2>0, OwnerFields DEF With
  <2>2. Fits(c, todo[c], o, InUser) /\ Ahead(c)' = todo[c]
    BY <1>6, <1>14, <1>16, <2>0 DEF Ahead, IntrInv, Waiting
  <2>3. Suits(c, o)'
    BY <1>1, <1>4, <1>7, <1>10, <1>11, <2>1 DEF Suits
  <2>4. Matches(c, o)'
    BY <2>1, <2>3 DEF Matches
  <2> QED
    BY <1>14, <2>1, <2>2, <2>4 DEF Running
<1>22. \A d \in Harts : Running(d)'
  BY <1>19, <1>21, OthersKeep DEF IntrInv
<1>23. ASSUME NEW x \in Threads PROVE Suspended(x)' /\ (tstate'[x] = "SLEEPING" => Noticed(x)')
  <2>1. CASE x = p
    <3>1. Suspended(x)'
      <4> SUFFICES ASSUME tstate'[p] \in {"RUNNABLE", "SLEEPING"}
                   PROVE  \E q, a \in BOOLEAN : Fits(p, todo'[p], Owner(p, q, a, FALSE), InUser) /\ (q => a /\ ~saved'[p])
        BY <2>1 DEF Suspended
      <4>1. m = Owner(p, g.quiet, TRUE, FALSE)
        BY <1>12, <1>18
      <4>2. Fits(p, todo'[p], Owner(p, g.quiet, TRUE, FALSE), InUser)
        BY <1>2, <1>16, <4>1
      <4> QED
        BY <1>7, <1>13, <1>18, <4>2
    <3>2. ASSUME tstate'[x] = "SLEEPING" PROVE Noticed(x)'
      <4>1. Noticed(p)
        BY <1>4, <1>7, <1>12, <2>1, <3>2
      <4>2. Noticed(x)
        BY <2>1, <4>1
      <4> QED
        BY <1>19, <4>2, OthersKeep
    <3> QED
      BY <3>1, <3>2
  <2>2. CASE x # p
    <3>1. tstate'[x] = tstate[x] /\ todo'[x] = todo[x] /\ saved'[x] = saved[x]
      BY <1>12, <1>13, <1>16, <2>2
    <3>2. Suspended(x)'
      BY <3>1 DEF IntrInv, Suspended
    <3>3. tstate[x] = "SLEEPING" => Noticed(x)'
      BY <1>19, OthersKeep DEF IntrInv
    <3> QED
      BY <3>1, <3>2, <3>3
  <2> QED
    BY <2>1, <2>2
<1>24. ASSUME NEW d \in Harts PROVE Waiting(d)'
  <2>1. CASE d = c
    BY <1>10, <1>11, <2>1 DEF Waiting
  <2>2. CASE d # c
    <3>1. d # p
      BY <1>4, InterruptAssumption
    <3> QED
      BY <1>11, <1>16, <2>2, <3>1 DEF Waiting, IntrInv
  <2> QED
    BY <2>1, <2>2
<1>25. \A x \in Threads \union Harts : TickFit(todo'[x])
  BY <1>3, <1>16 DEF IntrInv
<1> QED
  BY <1>9, <1>16, <1>17, <1>20, <1>22, <1>23, <1>24, <1>25 DEF IntrInv

\* At the start the CPUs are idle and the processes in forkret.
LEMMA IntrStarts == IntrInit => IntrInv
<1> SUFFICES ASSUME IntrInit
             PROVE  IntrInv
  OBVIOUS
<1>0. NoThread \notin Threads \union Harts /\ \A d \in Harts : d \notin Threads
  BY InterruptAssumption
<1>1. DataType
  BY DEF IntrInit, DataType, HartType
<1>2. \A c \in Harts : hart[c] = [intr |-> FALSE, noff |-> 0, intena |-> FALSE, proc |-> NoThread] /\ ThreadOf(c) = c
  BY DEF IntrInit, ThreadOf
<1>3. \A p \in Threads : todo[p] = <<Release(p)>> \o UserTrapRet
  BY DEF IntrInit
<1>4. \A c \in Harts : todo[c] = <<>>
  BY <1>0 DEF IntrInit
<1>5. ASSUME NEW p \in Threads
      PROVE  todo[p] \in Seq(Ops) /\ Fits(p, todo[p], Owner(p, FALSE, FALSE, FALSE), InUser) /\ TickFit(todo[p])
  <2> DEFINE r == <<Release(p)>>
             s == UserTrapRet
             o == Owner(p, FALSE, FALSE, FALSE)
  <2>1. r \in Seq(Ops) /\ s \in Seq(Ops)
    BY OpsTyped DEF UserTrapRet, SpinLocks
  <2>2. o \in Labels /\ ~o.dev /\ InUser \in Labels /\ p \in SpinLocks
    BY OwnerFields, InUserFields DEF SpinLocks
  <2>3. Step(p, o, Release(p), InUser) /\ Step(p, InUser, Op("sret", TicksLock), InUser)
    BY <2>2, StepTake, StepCalm, CalmFields
  <2>4. Fits(p, r, o, InUser) /\ Fits(p, s, InUser, InUser)
    BY <2>2, <2>3, FitsOne DEF UserTrapRet
  <2> HIDE DEF r, s, o
  <2>5. r \o s \in Seq(Ops) /\ Fits(p, r \o s, o, InUser)
    BY <2>1, <2>4, FitsJoin
  <2>6. TickFit(r \o s)
    BY <2>2, <2>5, FitsTickFree
  <2>7. todo[p] = r \o s
    BY <1>3 DEF r, s
  <2> QED
    BY <2>5, <2>6, <2>7 DEF o
<1>6. \A t \in Threads \union Harts : todo[t] \in Seq(Ops) /\ TickFit(todo[t])
  <2>1. <<>> \in Seq(Ops) /\ TickFit(<<>>)
    BY DEF TickFit
  <2> QED
    BY <1>4, <1>5, <2>1
<1>7. CodeType
  <2>1. todo = [t \in Threads \union Harts |-> todo[t]]
    BY DEF IntrInit
  <2> QED
    BY <1>6, <2>1 DEF CodeType
<1>8. RunInv /\ ~ipanic
  BY <1>2 DEF RunInv, IntrInit
<1>9. ASSUME NEW c \in Harts PROVE Running(c) /\ Waiting(c)
  <2>1. Fits(ThreadOf(c), Ahead(c), InUser, InUser)
    BY <1>2, <1>4, FitsNil, InUserFields DEF Ahead
  <2>2. {x \in SpinLocks : spin[x] = c} = {}
    BY <1>0 DEF IntrInit
  <2>3. Matches(c, InUser)
    BY <1>2, <2>2, InUserFields DEF Matches, Suits
  <2>4. Running(c)
    BY <2>1, <2>3, InUserFields, Zenon DEF Running
  <2>5. Waiting(c)
    BY <1>2 DEF Waiting
  <2> QED
    BY <2>4, <2>5
<1>10. ASSUME NEW p \in Threads PROVE Suspended(p) /\ tstate[p] # "SLEEPING"
  BY <1>5 DEF Suspended, IntrInit
<1> QED
  BY <1>1, <1>6, <1>7, <1>8, <1>9, <1>10 DEF IntrInv

\* Every step keeps the invariant.
LEMMA IntrStep ==
    ASSUME IntrInv, [IntrNext]_intrVars
    PROVE  IntrInv'
<1>1. CASE UNCHANGED intrVars
  <2>1. \A c \in Harts : ThreadOf(c)' = ThreadOf(c) /\ Ahead(c)' = Ahead(c)
    BY <1>1 DEF intrVars, ThreadOf, Ahead
  <2>2. \A p : Noticed(p)' <=> Noticed(p)
    BY <1>1, <2>1 DEF intrVars, Noticed
  <2>3. ASSUME NEW c \in Harts PROVE Running(c)' /\ Waiting(c)'
    <3>1. PICK g \in Labels : Fits(ThreadOf(c), Ahead(c), g, InUser) /\ Matches(c, g)
      BY DEF IntrInv, Running
    <3>2. Matches(c, g)'
      BY <1>1, <2>1, <3>1 DEF intrVars, Matches, Suits, Noticed, ThreadOf, Ahead
    <3>3. Running(c)'
      BY <2>1, <3>1, <3>2 DEF Running
    <3>4. Waiting(c)'
      BY <1>1 DEF intrVars, IntrInv, Waiting
    <3> QED
      BY <3>3, <3>4
  <2>4. \A p \in Threads : Suspended(p)' /\ (tstate'[p] = "SLEEPING" => Noticed(p)')
    BY <1>1, <2>2 DEF intrVars, IntrInv, Suspended
  <2>5. DataType' /\ CodeType' /\ RunInv' /\ ~ipanic' /\ \A t \in Threads \union Harts : TickFit(todo'[t])
    BY <1>1 DEF intrVars, IntrInv, DataType, CodeType, RunInv
  <2> QED
    BY <2>3, <2>4, <2>5 DEF IntrInv
<1>2. ASSUME NEW c \in Harts, HartStep(c) PROVE IntrInv'
  <2>1. CASE AcquireLock(c) \/ SpinLock(c) \/ ReleaseLock(c) \/ IntrOn(c)
    BY <2>1, AcquireKeeps, SpinKeeps, ReleaseKeeps, IntrOnKeeps
  <2>2. CASE Pick(c) \/ SwitchAway(c) \/ Resume(c) \/ Resched(c)
    BY <2>2, PickKeeps, SwitchKeeps, ResumeKeeps, ReschedKeeps
  <2>3. CASE Tick(c) \/ WakeTick(c) \/ KillOne(c) \/ KilledExits(c)
    BY <2>3, TickKeeps, WakeKeeps, KillKeeps, KilledKeeps
  <2>4. CASE SleepStart(c) \/ SleepLoop(c)
    BY <2>4, StartKeeps, LoopKeeps
  <2> QED
    BY <1>2, <2>1, <2>2, <2>3, <2>4 DEF HartStep
<1>3. ASSUME NEW c \in Harts, Interrupt(c) PROVE IntrInv'
  BY <1>3, InterruptKeeps
<1>4. ASSUME NEW c \in Harts, NEW p \in Threads, Scheduler(c, p) \/ SysKill(c, p) PROVE IntrInv'
  BY <1>4, SchedulerKeeps, SysKillKeeps
<1>5. ASSUME NEW c \in Harts, NEW n \in SleepTimes, SysSleep(c, n) PROVE IntrInv'
  BY <1>5, SysSleepKeeps
<1> QED
  BY <1>1, <1>2, <1>3, <1>4, <1>5 DEF IntrNext

\* At every moment the code that each thread of kernel/proc.c, trap.c and
\* spinlock.c still has to run fits the locks it holds, the noff and intena of
\* its CPU and its interrupt flag, up to its return to user mode or the
\* scheduler's loop; InterruptsSafe and TicksNoticed follow.
THEOREM InterruptInvariant == IntrSpec => []IntrInv
<1>1. IntrInit => IntrInv
  BY IntrStarts
<1>2. IntrInv /\ [IntrNext]_intrVars => IntrInv'
  BY IntrStep
<1> QED
  BY <1>1, <1>2, PTL DEF IntrSpec

\* A CPU that spins holds no lock, or tickslock while it spins for the lock of
\* its own process.
LEMMA SpinsBelow ==
    ASSUME IntrInv, NEW c \in Harts, NEW l \in SpinsFor(c)
    PROVE  spin[l] # c /\ \A x \in SpinLocks : spin[x] = c => x = TicksLock /\ l # TicksLock
<1>1. At(c, "spin") /\ Arg(c) = l /\ l \in SpinLocks
  BY DEF SpinsFor
<1>2. PICK g, m \in Labels : Matches(c, g) /\ Step(ThreadOf(c), g, Head(Ahead(c)), m)
  BY <1>1, AtHead
<1>3. Head(Ahead(c))[1] = "spin" /\ Head(Ahead(c))[2] = l
  BY <1>1, AtHead
<1>4. \/ g.held = {}
      \/ g.held = {TicksLock} /\ l = ThreadOf(c) /\ ThreadOf(c) \in Threads
  BY <1>2, <1>3 DEF Step
<1>5. g.held = {x \in SpinLocks : spin[x] = c}
  BY <1>2 DEF Matches, Suits
<1> QED
  BY <1>1, <1>4, <1>5, InterruptAssumption

\* Whatever a thread is about to do but spin, noff is the number of its locks.
LEMMA StepCounts ==
    ASSUME NEW t, NEW g, NEW op, NEW m, Step(t, g, op, m)
    PROVE  /\ op[1] # "spin" => g.noff = Cardinality(g.held)
           /\ op[1] = "spin" => g.noff = Cardinality(g.held) + 1
<1>1. Cardinality({}) = 0 /\ \A x : IsFiniteSet({x}) /\ Cardinality({x}) = 1
  BY FS_EmptySet, FS_Singleton
<1>2. t \in Threads => Cardinality({TicksLock, t}) = 2
  <2>1. {TicksLock, t} = {TicksLock} \union {t} /\ (t \in Threads => t \notin {TicksLock})
    BY InterruptAssumption
  <2> DEFINE S == {TicksLock}
  <2>2. IsFiniteSet(S) /\ Cardinality(S) = 1
    BY <1>1
  <2> HIDE DEF S
  <2>3. Cardinality(S \union {t}) = IF t \in S THEN Cardinality(S) ELSE Cardinality(S) + 1
    BY <2>2, FS_AddElement
  <2>4. t \notin S => Cardinality(S \union {t}) = 2
    BY <2>2, <2>3
  <2> QED
    BY <2>1, <2>4 DEF S
<1>3. CASE op[1] = "spin"
  <2>1. (g.held = {} /\ g.noff = 1) \/ (g.held = {TicksLock} /\ g.noff = 2)
    BY <1>3 DEF Step
  <2> QED
    BY <1>1, <1>3, <2>1
<1>4. CASE op[1] # "spin"
  <2>1. \/ g.held = {} /\ g.noff = 0
        \/ \E x : g.held = {x} /\ g.noff = 1
        \/ g.held = {TicksLock, t} /\ g.noff = 2 /\ t \in Threads
    BY <1>4 DEF Step, Bare, With
  <2> QED
    BY <1>1, <1>2, <1>4, <2>1
<1> QED
  BY <1>3, <1>4

\* noff of a CPU is the number of the locks it holds and spins for.
LEMMA NoffCounts ==
    ASSUME IntrInv, NEW c \in Harts
    PROVE  hart[c].noff = Cardinality({l \in SpinLocks : Holding(c, l)}) + Cardinality(SpinsFor(c))
<1> DEFINE held == {l \in SpinLocks : Holding(c, l)}
<1>1. PICK g \in Labels : Fits(ThreadOf(c), Ahead(c), g, InUser) /\ Matches(c, g)
  BY DEF IntrInv, Running
<1>2. \A k : Matches(c, k) => k.held = held /\ k.noff = hart[c].noff
  BY DEF Matches, Suits, Holding
<1>3. Cardinality({}) = 0 /\ \A x : Cardinality({x}) = 1
  BY FS_EmptySet, FS_Singleton
<1> HIDE DEF held
<1>4. CASE Ahead(c) = <<>>
  <2>1. g = InUser
    BY <1>1, <1>4, FitsNil
  <2>2. SpinsFor(c) = {}
    BY <1>4 DEF SpinsFor, At
  <2> QED
    BY <1>1, <1>2, <1>3, <2>1, <2>2, InUserFields DEF held
<1>5. CASE Ahead(c) # <<>>
  <2> DEFINE n == Head(Ahead(c))[1]
  <2>1. At(c, n)
    BY <1>5 DEF At, IntrInv
  <2>2. PICK k, m \in Labels : Matches(c, k) /\ Step(ThreadOf(c), k, Head(Ahead(c)), m)
    BY <2>1, AtHead
  <2>3. CASE n = "spin"
    <3>1. SpinsFor(c) = {Arg(c)}
      <4>1. Arg(c) \in SpinLocks
        BY <2>2, <2>3 DEF Step, Arg
      <4> QED
        BY <2>1, <2>3, <4>1 DEF SpinsFor
    <3>2. Cardinality(SpinsFor(c)) = 1
      BY <1>3, <3>1
    <3> QED
      BY <1>2, <2>2, <2>3, <3>2, StepCounts DEF held
  <2>4. CASE n # "spin"
    <3>1. SpinsFor(c) = {}
      BY <2>4 DEF SpinsFor, At
    <3>2. Cardinality(SpinsFor(c)) = 0
      BY <1>3, <3>1
    <3>3. k.noff = Cardinality(k.held) /\ k.noff \in {0, 1, 2}
      BY <2>2, <2>4, StepCounts, LabelParts
    <3> QED
      BY <1>2, <2>2, <3>2, <3>3 DEF held
  <2> QED
    BY <2>3, <2>4
<1> QED
  BY <1>4, <1>5 DEF held

\* Whatever the number of CPUs and processes, no interrupt makes a CPU wait for
\* a lock that it holds itself, and no two CPUs spin for each other's locks.
THEOREM InterruptsSafeAlways == IntrSpec => []InterruptsSafe
<1>1. IntrInv => InterruptsSafe
  <2> SUFFICES ASSUME IntrInv
               PROVE  InterruptsSafe
    OBVIOUS
  <2>1. ASSUME NEW c \in Harts
        PROVE  LET locks == {l \in SpinLocks : Holding(c, l)}
                   h == hart[c]
               IN /\ h.intr => h.noff = 0 /\ locks = {}
                  /\ h.noff = Cardinality(locks) + Cardinality(SpinsFor(c))
                  /\ (\E i \in DOMAIN Ahead(c) : Ahead(c)[i][1] = "iret") => ~h.intr
                  /\ \A d \in WaitsOn(c) : c \notin WaitsOn(d) /\ d # c
    <3>1. PICK g \in Labels : Fits(ThreadOf(c), Ahead(c), g, InUser) /\ Matches(c, g)
      BY DEF IntrInv, Running
    <3>2. Ahead(c) \in Seq(Ops)
      BY ThreadsApart DEF IntrInv, Ahead, CodeType
    <3>3. (g.noff = 0 => g.held = {}) /\ g.held = {l \in SpinLocks : Holding(c, l)} /\ g.noff = hart[c].noff /\ (g.quiet \/ g.noff # 0 => ~hart[c].intr)
      BY <3>1, LabelParts DEF Matches, Suits, Holding
    <3>4. (\E i \in DOMAIN Ahead(c) : Ahead(c)[i][1] = "iret") => g.quiet
      BY <3>1, <3>2, FitsPending
    <3>5. ASSUME NEW d \in WaitsOn(c) PROVE c \notin WaitsOn(d) /\ d # c
      <4>1. PICK l \in SpinsFor(c) : d = spin[l] /\ d # NoThread
        BY <3>5 DEF WaitsOn
      <4>2. l \in SpinLocks /\ d \in Harts
        BY <4>1 DEF SpinsFor, IntrInv, DataType
      <4>3. d # c
        BY <4>1, SpinsBelow
      <4>4. ASSUME c \in WaitsOn(d) PROVE FALSE
        <5>1. PICK x \in SpinsFor(d) : c = spin[x]
          BY <4>4 DEF WaitsOn
        <5>2. x \in SpinLocks
          BY <5>1 DEF SpinsFor
        <5>3. x = TicksLock /\ l # TicksLock
          BY <4>1, <5>1, <5>2, SpinsBelow
        <5>4. l = TicksLock
          BY <4>1, <4>2, <5>1, SpinsBelow
        <5> QED
          BY <5>3, <5>4
      <4> QED
        BY <4>3, <4>4
    <3> QED
      BY <3>3, <3>4, <3>5, NoffCounts
  <2>2. ~ipanic
    BY DEF IntrInv
  <2> QED
    BY <2>1, <2>2 DEF InterruptsSafe
<1> QED
  BY <1>1, InterruptInvariant, PTL

\* Whatever the number of CPUs and processes, a process that sys_sleep put to
\* sleep on ticks has seen the value they have, or the handler of clockintr that
\* counted since will still wake it: no tick is lost between the look at ticks
\* and the sleep.
THEOREM TicksNoticedAlways == IntrSpec => []TicksNoticed
<1>1. IntrInv => TicksNoticed
  BY DEF IntrInv, TicksNoticed, Noticed, Pends
<1> QED
  BY <1>1, InterruptInvariant, PTL

=============================================================================
