------------------------------ MODULE UserHeap ------------------------------
(* The allocator of user programs (user/umalloc.c): a circular list of free  *)
(* blocks in address order, a search that starts where the last one ended,   *)
(* and more memory from sbrk.  Addresses and sizes count header units; one   *)
(* turn of the loops of malloc and free is a step.                           *)
EXTENDS Naturals, FiniteSets

CONSTANTS HeapStart,  \* the break when the program starts
          HeapEnd,    \* the memory sbrk can get
          MinCore,    \* units morecore asks for at least (4096 in the code)
          UnitBytes,  \* sizeof(Header)
          ByteCounts, \* the arguments of malloc
          MaxHeapOps  \* bound: calls of malloc, free and sbrk

MaxInt == 2147483647  \* sbrk takes an int
Base == 1        \* the static header, below the heap
NullPtr == 0

ASSUME HeapAssumption ==
    /\ HeapStart \in Nat /\ HeapEnd \in Nat /\ Base < HeapStart /\ HeapStart <= HeapEnd
    /\ MinCore \in Nat \ {0} /\ UnitBytes \in Nat \ {0} /\ MaxHeapOps \in Nat
    /\ ByteCounts \subseteq Nat
    /\ MinCore * UnitBytes <= MaxInt /\ \A n \in ByteCounts : n + 2 * UnitBytes <= MaxInt

VARIABLES
    hdr,      \* the header at an address: ptr and size
    freep,
    brk,
    live,     \* ghost: the blocks malloc returned, <<header, units>>
    foreign,  \* ghost: units the program got from sbrk itself
    hpc,      \* the function that runs
    hp,       \* its locals; back: what free returns to
    heapOps

heapVars == <<hdr, freep, brk, live, foreign, hpc, hp, heapOps>>

NoLocals == [p |-> NullPtr, prevp |-> NullPtr, n |-> 0, bp |-> NullPtr, back |-> "idle"]

HeapInit ==
    /\ hdr = [a \in 1 .. HeapEnd |-> [ptr |-> NullPtr, size |-> 0]]
    /\ freep = NullPtr /\ brk = HeapStart
    /\ live = {} /\ foreign = {}
    /\ hpc = "idle" /\ hp = NoLocals /\ heapOps = 0

MayOp == hpc = "idle" /\ heapOps < MaxHeapOps /\ heapOps' = heapOps + 1

-----------------------------------------------------------------------------
(* malloc                                                                    *)

Units(nbytes) == (nbytes + UnitBytes - 1) \div UnitBytes + 1

\* The first call makes the list that consists of base alone.
Malloc(nbytes) ==
    LET made == IF freep = NullPtr THEN [hdr EXCEPT ![Base] = [ptr |-> Base, size |-> 0]] ELSE hdr
        start == IF freep = NullPtr THEN Base ELSE freep
    IN
    /\ MayOp
    /\ hdr' = made /\ freep' = start
    /\ hp' = [NoLocals EXCEPT !.prevp = start, !.p = made[start].ptr, !.n = Units(nbytes)]
    /\ hpc' = "search"
    /\ UNCHANGED <<brk, live, foreign>>

\* The block fits exactly and leaves the list, or its end is cut off.
Exact == hdr[hp.p].size = hp.n
Cut == hp.p + hdr[hp.p].size - hp.n
Taken == IF Exact THEN [hdr EXCEPT ![hp.prevp].ptr = hdr[hp.p].ptr]
         ELSE [hdr EXCEPT ![hp.p].size = @ - hp.n, ![Cut].size = hp.n]

Take ==
    /\ hpc = "search" /\ hdr[hp.p].size >= hp.n
    /\ hdr' = Taken
    /\ live' = live \union {<<Cut, hp.n>>}
    /\ freep' = hp.prevp
    /\ hpc' = "idle" /\ hp' = NoLocals
    /\ UNCHANGED <<brk, foreign, heapOps>>

TooSmall == hpc = "search" /\ hdr[hp.p].size < hp.n

SearchOn ==
    /\ TooSmall /\ hp.p # freep
    /\ hp' = [hp EXCEPT !.prevp = hp.p, !.p = hdr[hp.p].ptr]
    /\ UNCHANGED <<hdr, freep, brk, live, foreign, hpc, heapOps>>

\* Once around: morecore frees what sbrk gives it, and the search goes on.  The
\* bytes it asks for fit sbrk's int (HeapAssumption): a larger request would
\* reach sbrk as another, even negative, number.
MoreCore ==
    LET nu == IF hp.n < MinCore THEN MinCore ELSE hp.n IN
    /\ TooSmall /\ hp.p = freep
    /\ \/ /\ brk + nu <= HeapEnd + 1
          /\ hdr' = [hdr EXCEPT ![brk].size = nu]
          /\ brk' = brk + nu
          /\ hp' = [hp EXCEPT !.bp = brk, !.p = freep, !.back = "search"]
          /\ hpc' = "free"
       \/ /\ hpc' = "idle" /\ hp' = NoLocals
          /\ UNCHANGED <<hdr, brk>>
    /\ UNCHANGED <<freep, live, foreign, heapOps>>

-----------------------------------------------------------------------------
(* free                                                                      *)

Free(b) ==
    /\ MayOp /\ b \in live
    /\ live' = live \ {b}
    /\ hp' = [NoLocals EXCEPT !.bp = b[1], !.p = freep]
    /\ hpc' = "free"
    /\ UNCHANGED <<hdr, freep, brk, foreign>>

\* bp belongs between p and its successor, or at an end of the heap.
Found ==
    LET next == hdr[hp.p].ptr IN
    \/ hp.bp > hp.p /\ hp.bp < next
    \/ hp.p >= next /\ (hp.bp > hp.p \/ hp.bp < next)

FreeOn ==
    /\ hpc = "free" /\ ~Found
    /\ hp' = [hp EXCEPT !.p = hdr[hp.p].ptr]
    /\ UNCHANGED <<hdr, freep, brk, live, foreign, hpc, heapOps>>

\* Join bp with the block above it, then p with bp.
JoinUpper_KeepsSize(bp, p) ==
    LET next == hdr[p].ptr IN
    IF bp + hdr[bp].size = next THEN [hdr EXCEPT ![bp].ptr = hdr[next].ptr] ELSE [hdr EXCEPT ![bp].ptr = next]
JoinUpper(bp, p) ==
    LET next == hdr[p].ptr IN
    IF bp + hdr[bp].size = next
    THEN [hdr EXCEPT ![bp] = [ptr |-> hdr[next].ptr, size |-> @.size + hdr[next].size]]
    ELSE [hdr EXCEPT ![bp].ptr = next]
JoinLower(h, bp, p) ==
    IF p + h[p].size = bp
    THEN [h EXCEPT ![p] = [ptr |-> h[bp].ptr, size |-> @.size + h[bp].size]]
    ELSE [h EXCEPT ![p].ptr = bp]

FreeLink ==
    /\ hpc = "free" /\ Found
    /\ hdr' = JoinLower(JoinUpper(hp.bp, hp.p), hp.bp, hp.p)
    /\ freep' = hp.p
    /\ hpc' = hp.back
    /\ hp' = IF hp.back = "idle" THEN NoLocals
             ELSE [hp EXCEPT !.prevp = hp.p, !.p = hdr'[hp.p].ptr, !.bp = NullPtr, !.back = "idle"]
    /\ UNCHANGED <<brk, live, foreign, heapOps>>

\* The program calls sbrk itself: the heap is no longer in one piece.
OtherSbrk ==
    /\ MayOp /\ brk <= HeapEnd
    /\ brk' = brk + 1
    /\ foreign' = foreign \union {brk}
    /\ UNCHANGED <<hdr, freep, live, hpc, hp>>

-----------------------------------------------------------------------------
HeapNext ==
    \/ \E n \in ByteCounts : Malloc(n)
    \/ \E b \in live : Free(b)
    \/ Take \/ SearchOn \/ MoreCore \/ FreeOn \/ FreeLink \/ OtherSbrk
    \/ hpc = "idle" /\ heapOps = MaxHeapOps /\ UNCHANGED heapVars

-----------------------------------------------------------------------------
(* Properties.                                                               *)

\* The blocks on the free list, base left out.
Along[k \in 0 .. HeapEnd] == IF k = 0 THEN hdr[Base].ptr ELSE hdr[Along[k - 1]].ptr
OnList == {Along[k] : k \in 0 .. HeapEnd} \ {Base}

\* Between calls every unit of the heap belongs to exactly one block, which is
\* on the free list or was handed out and is as large as was asked for; the
\* list leads back to where the next search starts, and no two free blocks that
\* touch stay apart: after any sequence of malloc, free and sbrk, nothing is
\* lost, handed out twice or split for good.
HeapPartitioned ==
    hpc = "idle" /\ freep # NullPtr =>
        LET freeBlocks == {<<a, hdr[a].size>> : a \in OnList}
            blocks == live \union freeBlocks
        IN /\ \A u \in HeapStart .. brk - 1 :
                Cardinality({b \in blocks : b[1] <= u /\ u < b[1] + b[2]}) = IF u \in foreign THEN 0 ELSE 1
           /\ live \intersect freeBlocks = {}
           /\ \A b \in blocks : b[1] + b[2] <= brk
           /\ \A b \in live : hdr[b[1]].size = b[2]
           /\ \A b, c \in freeBlocks : b[1] + b[2] # c[1]
           /\ freep \in OnList \union {Base}
=============================================================================
