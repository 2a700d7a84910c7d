------------------------------ MODULE FsBlocks ------------------------------
(* The contents of files: the block allocator, bmap, itrunc, readi and       *)
(* writei of kernel/fs.c under fileread and filewrite of kernel/file.c.      *)
(* Writers of different files share the free blocks and may find none at any *)
(* block of a write, so one turn of the loop of writei is a step; writers    *)
(* that share an open file share its offset.  A block is read and written in *)
(* its buffer; a change that is not logged lasts as long as the buffer.      *)
EXTENDS Naturals, FiniteSets, Sequences

CONSTANTS IoProcs,     \* processes
          OpenFiles,    \* entries of the file table
          InodeOf,      \* the inode behind each
          DataBlocks,   \* 1 .. the number of blocks balloc can hand out
          BSIZE,        \* bytes of a block
          BPB,          \* bits of a bitmap block
          NDIRECT, NINDIRECT,
          OpBlocks,
          Counts,       \* how much read and write are asked for
          MaxIo,        \* how many reads, writes and truncations are made
          NoWriter

ASSUME BlockAssumption ==
    /\ InodeOf \in [OpenFiles -> Nat] /\ NoWriter \notin IoProcs
    /\ IsFiniteSet(DataBlocks) /\ DataBlocks \subseteq Nat \ {0}
    /\ BSIZE \in Nat \ {0} /\ BPB \in Nat \ {0} /\ NDIRECT \in Nat \ {0} /\ NINDIRECT \in Nat \ {0}
    /\ OpBlocks \in Nat /\ OpBlocks >= 6
    /\ Counts \subseteq Nat \ {0} /\ MaxIo \in Nat

Nodes == {InodeOf[f] : f \in OpenFiles}
MAXFILE == NDIRECT + NINDIRECT
Words == IF BSIZE > NINDIRECT THEN BSIZE ELSE NINDIRECT

VARIABLES
    used,     \* the bits set in the bitmap
    blk,      \* the blocks as bread finds them: bytes, or block numbers
    saved,    \* the blocks as the log or the disk has them
    node,     \* ip->size and ip->addrs in memory (0: no block)
    dnode,    \* and on disk
    nlk,      \* who holds ip->lock
    off,      \* f->off
    io,       \* the call a process is in
    ios,      \* calls made so far
    content,  \* ghost: the bytes each place of a file may hold
    spans,    \* ghost: the bytes <<file, first, last>> each chunk wrote
    bpanic    \* bfree found a block that is free already

blockVars == <<used, blk, saved, node, dnode, nlk, off, io, ios, content, spans, bpanic>>

ZeroBlock == [k \in 0 .. Words - 1 |-> 0]
NoIo == [pc |-> "user", f |-> NoWriter, left |-> 0, n |-> 0, tot |-> 0, at |-> 0, logged |-> {}]

BlockInit ==
    /\ used = {}
    /\ blk = [b \in DataBlocks |-> ZeroBlock]
    /\ saved = blk
    /\ node = [i \in Nodes |-> [size |-> 0, addrs |-> [k \in 0 .. NDIRECT |-> 0]]]
    /\ dnode = node
    /\ nlk = [i \in Nodes |-> NoWriter]
    /\ off = [f \in OpenFiles |-> 0]
    /\ io = [p \in IoProcs |-> NoIo]
    /\ ios = 0
    /\ content = [i \in Nodes |-> <<>>]
    /\ spans = {} /\ bpanic = FALSE

-----------------------------------------------------------------------------
(* The allocator and bmap work on a record of the bitmap, the blocks, the    *)
(* inode and the blocks logged.                                              *)

\* balloc: the first free block, zeroed; 0 if there is none.
Balloc(w) ==
    LET avail == DataBlocks \ w.used
        b == CHOOSE x \in avail : \A y \in avail : x <= y
    IN IF avail = {} THEN [w EXCEPT !.got = 0]
       ELSE [w EXCEPT !.got = b, !.used = @ \union {b}, !.blk[b] = ZeroBlock, !.logged = @ \union {<<"bitmap", b \div BPB>>, <<"block", b>>}]

Direct(w, k) ==
    IF w.addrs[k] # 0 THEN [w EXCEPT !.got = w.addrs[k]]
    ELSE LET v == Balloc(w) IN [v EXCEPT !.addrs[k] = v.got]

\* bmap: the block, allocated if there is none; the indirect block stays even
\* if the block itself cannot be had.
Bmap(w, bn) ==
    IF bn < NDIRECT THEN Direct(w, bn)
    ELSE LET x == Direct(w, NDIRECT)
             ind == x.got
             v == Balloc(x)
         IN CASE ind = 0 -> x
              [] ind # 0 /\ x.blk[ind][bn - NDIRECT] # 0 -> [x EXCEPT !.got = x.blk[ind][bn - NDIRECT]]
              [] OTHER -> IF v.got = 0 THEN v
                          ELSE [v EXCEPT !.blk[ind][bn - NDIRECT] = v.got, !.logged = @ \union {<<"block", ind>>}]

BlockWork(i, logged) == [used |-> used, blk |-> blk, addrs |-> node[i].addrs, logged |-> logged, got |-> 0]

\* The blocks of an inode, the indirect block included; itrunc frees them.
Entries(a) == IF a[NDIRECT] = 0 THEN {} ELSE {blk[a[NDIRECT]][k] : k \in 0 .. NINDIRECT - 1} \ {0}
BlocksOf_Direct(a) == {a[k] : k \in 0 .. NDIRECT} \ {0}
BlocksOf(a) == ({a[k] : k \in 0 .. NDIRECT} \ {0}) \union Entries(a)

-----------------------------------------------------------------------------
Unlocked(i) == nlk[i] = NoWriter
MayIo(p) == io[p].pc = "user" /\ ios < MaxIo
File(p) == io[p].f
Ip(p) == InodeOf[File(p)]
Io(p, c) == io' = [io EXCEPT ![p] = c]
Smaller(a, b) == IF a < b THEN a ELSE b

\* filewrite: a few blocks at a time, each chunk a transaction of its own.
ChunkMax_NoSlop == ((OpBlocks - 1 - 1) \div 2) * BSIZE
ChunkMax == ((OpBlocks - 1 - 1 - 2) \div 2) * BSIZE

FileWrite(p, f, n) ==
    /\ MayIo(p)
    /\ Io(p, [NoIo EXCEPT !.pc = "chunk", !.f = f, !.left = n])
    /\ ios' = ios + 1
    /\ UNCHANGED <<used, blk, saved, node, dnode, nlk, off, content, spans, bpanic>>

\* begin_op, ilock and the checks of writei; the offset is read under the lock.
Offset(p) == off[File(p)]

Chunk_OffsetFirst(p) ==
    /\ \/ /\ io[p].pc = "chunk"
          /\ Io(p, [io[p] EXCEPT !.pc = "offset", !.at = Offset(p), !.n = Smaller(io[p].left, ChunkMax)])
          /\ UNCHANGED nlk
       \/ /\ io[p].pc = "offset" /\ Unlocked(Ip(p)) /\ io[p].at <= node[Ip(p)].size /\ io[p].at + io[p].n <= MAXFILE * BSIZE
          /\ nlk' = [nlk EXCEPT ![Ip(p)] = p]
          /\ Io(p, [io[p] EXCEPT !.pc = "write", !.tot = 0, !.logged = {}])
    /\ UNCHANGED <<used, blk, saved, node, dnode, off, ios, content, spans, bpanic>>

Chunk(p) ==
    LET i == Ip(p)
        n == Smaller(io[p].left, ChunkMax)
        fits == Offset(p) <= node[i].size /\ Offset(p) + n <= MAXFILE * BSIZE
    IN
    /\ io[p].pc = "chunk" /\ Unlocked(i)
    /\ \/ /\ fits
          /\ nlk' = [nlk EXCEPT ![i] = p]
          /\ Io(p, [io[p] EXCEPT !.pc = "write", !.n = n, !.tot = 0, !.at = Offset(p), !.logged = {}])
       \/ /\ ~fits
          /\ Io(p, NoIo)
          /\ UNCHANGED nlk
    /\ UNCHANGED <<used, blk, saved, node, dnode, off, ios, content, spans, bpanic>>

\* The bytes of one turn of the loop, the byte written being the time.  Those
\* of a failed turn may stay where the file is long enough, or go.
Span(c) == Smaller(c.n - c.tot, BSIZE - ((c.at + c.tot) % BSIZE))
Overwritten(s, from, k) ==
    [j \in 1 .. (IF from + k > Len(s) THEN from + k ELSE Len(s)) |-> IF j > from /\ j <= from + k THEN {ios} ELSE s[j]]
Torn(s, from, k) ==
    [j \in 1 .. Len(s) |-> IF j > from /\ j <= from + k THEN s[j] \union {ios} ELSE s[j]]

\* either_copyin of k bytes into block b, at byte "at" of it.
Copied(blocks, b, at, k) ==
    [blocks EXCEPT ![b] = [x \in DOMAIN @ |-> IF x >= at /\ x < at + k THEN ios ELSE @[x]]]

\* log_write: what the buffers of these blocks hold goes to the disk.
Saves(logged) == saved' = [b \in DataBlocks |-> IF <<"block", b>> \in logged THEN blk'[b] ELSE saved[b]]

\* log_write of the block the data went to.
WithData_Missing(w) == w.logged
WithData(w) == w.logged \union {<<"block", w.got>>}

\* A turn of writei.  The user page may be missing: then a part of the bytes is
\* in the buffer, which is released unlogged, and the loop ends; they reach the
\* disk only if the buffer was logged before, by this or by another call whose
\* transaction is not committed yet.  The loop ends too without a block.
WriteBlock(p) ==
    LET c == io[p]
        i == Ip(p)
        from == c.at + c.tot
        w == Bmap(BlockWork(i, c.logged), from \div BSIZE)
        m == Span(c)
        all == WithData(w)
    IN
    /\ c.pc = "write" /\ c.tot < c.n
    /\ used' = w.used
    /\ node' = [node EXCEPT ![i].addrs = w.addrs]
    /\ \/ /\ w.got = 0
          /\ blk' = w.blk
          /\ Saves(w.logged)
          /\ Io(p, [c EXCEPT !.pc = "update", !.logged = w.logged])
          /\ UNCHANGED content
       \/ /\ w.got # 0
          /\ blk' = Copied(w.blk, w.got, from % BSIZE, m)
          /\ Saves(all)
          /\ Io(p, [c EXCEPT !.tot = @ + m, !.logged = all])
          /\ content' = [content EXCEPT ![i] = Overwritten(@, from, m)]
       \/ \E part \in 0 .. m - 1 :
          /\ w.got # 0
          /\ blk' = Copied(w.blk, w.got, from % BSIZE, part)
          /\ Saves(w.logged) \/ Saves(all)
          /\ Io(p, [c EXCEPT !.pc = "update", !.logged = w.logged])
          /\ content' = [content EXCEPT ![i] = Torn(@, from, part)]
    /\ UNCHANGED <<dnode, nlk, off, ios, spans, bpanic>>

\* bget: the buffer of a block that is neither in use nor pinned is taken for
\* another; the next bread of the block reads the disk.
Forget(b) ==
    /\ blk[b] # saved[b]
    /\ blk' = [blk EXCEPT ![b] = saved[b]]
    /\ UNCHANGED <<used, saved, node, dnode, nlk, off, io, ios, content, spans, bpanic>>

\* The end of writei: the size grows and the inode is written even if it did
\* not; then the offset moves and the next chunk follows a complete one.
Size(i, end) == IF end > node[i].size THEN end ELSE node[i].size

Written(i, new) == [dnode EXCEPT ![i] = new]

Update(p) ==
    LET c == io[p]
        i == Ip(p)
        new == [node[i] EXCEPT !.size = Size(i, c.at + c.tot)]
        left == c.left - c.tot
    IN
    /\ c.pc \in {"write", "update"} /\ (c.pc = "write" => c.tot = c.n)
    /\ node' = [node EXCEPT ![i] = new]
    /\ dnode' = Written(i, new)
    /\ nlk' = [nlk EXCEPT ![i] = NoWriter]
    /\ off' = [off EXCEPT ![File(p)] = @ + c.tot]
    /\ Io(p, IF c.tot = c.n /\ left > 0 THEN [NoIo EXCEPT !.pc = "chunk", !.f = c.f, !.left = left] ELSE NoIo)
    /\ spans' = IF c.tot = 0 THEN spans ELSE spans \union {<<c.f, c.at, c.at + c.tot - 1, ios>>}
    /\ UNCHANGED <<used, blk, saved, ios, content, bpanic>>

\* fileread, under the lock from beginning to end; the offset stays if readi
\* cannot copy to the user page.
FileRead(p, f, n) ==
    LET i == InodeOf[f]
        from == off[f]
        k == IF from > node[i].size THEN 0 ELSE Smaller(n, node[i].size - from)
    IN
    /\ MayIo(p) /\ Unlocked(i)
    /\ \E r \in {k, 0} : off' = [off EXCEPT ![f] = @ + r]
    /\ ios' = ios + 1
    /\ UNCHANGED <<used, blk, saved, node, dnode, nlk, io, content, spans, bpanic>>

\* bfree: the bit of a block must be set.
Bfree(bits, blocks) == [used |-> bits \ blocks, panic |-> ~(blocks \subseteq bits)]

\* itrunc, from sys_open with O_TRUNC; the new open file starts at 0 and the
\* others keep their offsets.
Itrunc(p, f) ==
    LET i == InodeOf[f]
        freed == Bfree(used, BlocksOf(node[i].addrs))
        empty == [size |-> 0, addrs |-> [k \in 0 .. NDIRECT |-> 0]]
    IN
    /\ MayIo(p) /\ Unlocked(i)
    /\ bpanic' = (bpanic \/ freed.panic)
    /\ used' = freed.used
    /\ node' = [node EXCEPT ![i] = empty]
    /\ dnode' = [dnode EXCEPT ![i] = empty]
    /\ content' = [content EXCEPT ![i] = <<>>]
    /\ off' = [off EXCEPT ![f] = 0]
    /\ spans' = {s \in spans : InodeOf[s[1]] # i}
    /\ ios' = ios + 1
    /\ UNCHANGED <<blk, saved, nlk, io>>

BlockStep(p) == Chunk(p) \/ WriteBlock(p) \/ Update(p)

BlockNext ==
    \/ \E p \in IoProcs :
        \/ BlockStep(p)
        \/ \E f \in OpenFiles : Itrunc(p, f) \/ \E n \in Counts : FileWrite(p, f, n) \/ FileRead(p, f, n)
    \/ \E b \in DataBlocks : Forget(b)

BlockSpec == BlockInit /\ [][BlockNext]_blockVars

-----------------------------------------------------------------------------
(* Properties.                                                               *)

\* Every block that is marked in use belongs to one place in one inode, also
\* after writes that ran out of blocks or whose data could not be read.
BlocksOwnedOnce ==
    LET slots == UNION {{<<i, k, node[i].addrs[k]>> : k \in 0 .. NDIRECT}
                        \union {<<i, NDIRECT + 1 + k, blk[node[i].addrs[NDIRECT]][k]>> :
                                k \in {x \in 0 .. NINDIRECT - 1 : node[i].addrs[NDIRECT] # 0}} : i \in Nodes}
        owned == {s \in slots : s[3] # 0}
    IN /\ {s[3] : s \in owned} = used
       /\ Cardinality(owned) = Cardinality(used)
       /\ ~bpanic

\* A file nobody has locked holds, in the buffers and on the disk they may fall
\* back to, at every place the last byte a write put there, or one of a write
\* that failed there since (filewrite returns -1 and does not say which bytes
\* are in); none of a block's former owner.  The inode on disk is the one in
\* memory.
Byte(blocks, i, j) ==
    LET a == node[i].addrs
        bn == j \div BSIZE
        b == IF bn < NDIRECT THEN a[bn] ELSE blk[a[NDIRECT]][bn - NDIRECT]
    IN blocks[b][j % BSIZE]

FileContent ==
    \A i \in Nodes : Unlocked(i) =>
        /\ Len(content[i]) = node[i].size
        /\ \A j \in 1 .. node[i].size : {Byte(blk, i, j - 1), Byte(saved, i, j - 1)} \subseteq content[i][j]
        /\ dnode[i] = node[i]

\* Writes through one open file never overlap: each chunk takes the offset the
\* previous one left, whoever made it.
SharedWritesDisjoint ==
    \A s, t \in spans : s # t /\ s[1] = t[1] => s[3] < t[2] \/ t[3] < s[2]

\* A chunk fits into one transaction: the blocks logged, with the inode's, are
\* at most what begin_op reserved.
ChunkFitsLog == \A p \in IoProcs : Cardinality(io[p].logged) + 1 <= OpBlocks
=============================================================================
