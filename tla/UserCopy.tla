------------------------------ MODULE UserCopy ------------------------------
(* Copies between the kernel and user memory, page by page: walkaddr,        *)
(* copyout, copyin and copyinstr of kernel/vm.c, fetchaddr and fetchstr of   *)
(* kernel/syscall.c.  One turn of a loop is a step.  Every user byte is      *)
(* different, so that a byte shows where it came from.                       *)
EXTENDS Naturals, Sequences

CONSTANTS UserPages,   \* pages below MAXVA
          PageBytes,
          AddrMod,     \* addresses are computed modulo this (2^64)
          WordBytes,   \* sizeof(uint64)
          Lengths      \* the len of a copy, the max of a string

MaxVa == UserPages * PageBytes
NulByte == 0

ASSUME CopyAssumption ==
    /\ UserPages \in Nat \ {0} /\ PageBytes \in Nat \ {0} /\ WordBytes \in Nat \ {0}
    /\ AddrMod \in Nat /\ AddrMod % PageBytes = 0 /\ AddrMod > MaxVa
    /\ Lengths \subseteq Nat

VARIABLES
    ptes,   \* a page's entry: "user", "kernel" (PTE_U is clear) or "invalid"
    umem,   \* the bytes of user memory
    usize,  \* p->sz
    copy,   \* the call: function, address, bytes left, what it copied, result
    asked   \* ghost: the call and user memory as they were at its start

copyVars == <<ptes, umem, usize, copy, asked>>

\* Memory with the only NUL byte at one address, or with none.
UserBytes(nul) == [a \in 0 .. MaxVa - 1 |-> IF a = nul THEN NulByte ELSE a + 1]

CopyCalls == [fn : {"copyin", "copyout", "copyinstr", "fetchaddr"}, va : 0 .. AddrMod - 1, left : Lengths,
              out : {<<>>}, result : {"entered"}]

CopyInit ==
    /\ ptes \in [0 .. UserPages - 1 -> {"user", "kernel", "invalid"}]
    /\ usize \in 0 .. MaxVa
    /\ copy \in CopyCalls
    /\ \E nul \in 0 .. MaxVa : umem = UserBytes(nul)
    /\ copy.fn # "fetchaddr" => usize = 0
    /\ copy.fn # "copyinstr" => umem = UserBytes(MaxVa)
    /\ asked = [copy |-> copy, umem |-> umem]

-----------------------------------------------------------------------------
PageDown(va) == (va \div PageBytes) * PageBytes

\* walkaddr: only pages of the user may be looked up.
WalkAddr(va) == va < MaxVa /\ ptes[va \div PageBytes] = "user"

\* The bytes of this turn, and where the next one starts.
Stretch(va, left) == LET n == PageBytes - (va - PageDown(va)) IN IF n > left THEN left ELSE n
NextVa_Unaligned(va) == (va + PageBytes) % AddrMod
NextVa(va) == (PageDown(va) + PageBytes) % AddrMod

Bytes(va, n) == [i \in 1 .. n |-> umem[va + i - 1]]
Ends(result) == copy' = [copy EXCEPT !.result = result]
Turning(fns) == copy.fn \in fns /\ copy.result = "running"

\* fetchaddr: both tests are needed, in case of overflow.
Enter ==
    /\ copy.result = "entered"
    /\ IF copy.fn = "fetchaddr"
       THEN IF copy.va >= usize \/ (copy.va + WordBytes) % AddrMod > usize
            THEN Ends("failed")
            ELSE copy' = [copy EXCEPT !.left = WordBytes, !.result = "running"]
       ELSE Ends("running")
    /\ UNCHANGED <<ptes, umem, usize, asked>>

NotMapped ==
    /\ copy.result = "running" /\ copy.left > 0 /\ ~WalkAddr(copy.va)
    /\ Ends("failed")
    /\ UNCHANGED <<ptes, umem, usize, asked>>

Copyin ==
    LET n == Stretch(copy.va, copy.left) IN
    /\ Turning({"copyin", "fetchaddr"}) /\ copy.left > 0 /\ WalkAddr(copy.va)
    /\ copy' = [copy EXCEPT !.out = @ \o Bytes(copy.va, n), !.left = @ - n, !.va = NextVa(@)]
    /\ UNCHANGED <<ptes, umem, usize, asked>>

\* The byte number i of the source is MaxVa + i.
Copyout ==
    LET n == Stretch(copy.va, copy.left)
        done == Len(copy.out)
        src == [i \in 1 .. n |-> MaxVa + done + i]
    IN
    /\ Turning({"copyout"}) /\ copy.left > 0 /\ WalkAddr(copy.va)
    /\ umem' = [a \in DOMAIN umem |->
                   IF a >= copy.va /\ a < copy.va + n THEN src[a - copy.va + 1] ELSE umem[a]]
    /\ copy' = [copy EXCEPT !.out = @ \o src, !.left = @ - n, !.va = NextVa(@)]
    /\ UNCHANGED <<ptes, usize, asked>>

\* copyinstr: up to the NUL byte, which is copied too.
Copyinstr ==
    LET n == Stretch(copy.va, copy.left)
        bytes == Bytes(copy.va, n)
        nuls == {i \in 1 .. n : bytes[i] = NulByte}
    IN
    /\ Turning({"copyinstr"}) /\ copy.left > 0 /\ WalkAddr(copy.va)
    /\ \/ \E i \in nuls :
          /\ copy' = [copy EXCEPT !.out = @ \o SubSeq(bytes, 1, i), !.result = "copied"]
       \/ /\ nuls = {}
          /\ copy' = [copy EXCEPT !.out = @ \o bytes, !.left = @ - n, !.va = NextVa(@)]
    /\ UNCHANGED <<ptes, umem, usize, asked>>

\* The loops end: a string without its NUL byte is an error.
LoopEnds ==
    /\ copy.result = "running" /\ copy.left = 0
    /\ Ends(IF copy.fn = "copyinstr" THEN "failed" ELSE "copied")
    /\ UNCHANGED <<ptes, umem, usize, asked>>

Returned == copy.result \in {"copied", "failed"} /\ UNCHANGED copyVars

CopyNext == Enter \/ NotMapped \/ Copyin \/ Copyout \/ Copyinstr \/ LoopEnds \/ Returned

CopySpec == CopyInit /\ [][CopyNext]_copyVars

-----------------------------------------------------------------------------
(* Properties.                                                               *)

\* How many bytes from va on are the user's.
Reach(va) == CHOOSE k \in 0 .. MaxVa : (\A i \in 0 .. k - 1 : WalkAddr(va + i)) /\ ~WalkAddr(va + k)

\* A copy that succeeds has moved exactly the bytes asked for, wherever the
\* range starts and ends in its pages; it fails only if the range leaves the
\* user's pages or the string has no end within its limit; and whatever
\* happens it never touches a byte outside the range or outside those pages.
CopiesExact ==
    LET c == asked.copy
        len == IF c.fn = "fetchaddr" THEN WordBytes ELSE c.left
        mine == Reach(c.va)
        within == {k \in 1 .. len : k <= mine /\ asked.umem[c.va + k - 1] = NulByte}
        from(n) == [i \in 1 .. n |-> asked.umem[c.va + i - 1]]
    IN
    /\ \A a \in DOMAIN umem : umem[a] # asked.umem[a] =>
            c.fn = "copyout" /\ WalkAddr(a) /\ a >= c.va /\ a < c.va + len
    /\ copy.result = "copied" =>
        CASE c.fn = "copyinstr" -> \E k \in within : copy.out = from(k)
          [] c.fn = "copyout" -> mine >= len /\ \A i \in 1 .. len : umem[c.va + i - 1] = MaxVa + i
          [] OTHER -> mine >= len /\ copy.out = from(len) /\ (c.fn = "fetchaddr" => c.va + len <= usize)
    /\ copy.result = "failed" =>
        CASE c.fn = "copyinstr" -> within = {}
          [] c.fn = "fetchaddr" -> mine < len \/ c.va + len > usize
          [] OTHER -> mine < len
=============================================================================
