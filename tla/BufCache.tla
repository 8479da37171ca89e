------------------------------ MODULE BufCache ------------------------------
(***************************************************************************)
(* The block buffer cache of kernel/buf.c, and the code of kernel/fs.c     *)
(* that keeps a pointer into one of its buffers while it asks for another. *)
(*                                                                         *)
(* bread() hands out a pointer and brelse() does not take it back: a       *)
(* buffer is never pinned.  Once every buffer is valid, and as none stays  *)
(* dirty, bread() always evicts the first one.  A function that uses its   *)
(* pointer after another bread() may find a different block behind it.     *)
(*                                                                         *)
(* As in MiniFs the functions map a record s to a record: s.bufs, s.disk,  *)
(* s.fl (sb.free_list) and s.ino (the files' inodes, all of them open and  *)
(* so in the inode cache).  bread() also gives k, the buffer.              *)
(***************************************************************************)
EXTENDS Integers, Sequences, SequencesExt, FiniteSets

CONSTANTS
    NBUFS,          \* buffers (16; 8 on the Mega Drive)
    NBLOCKS,        \* blocks; 0 is the superblock, 1 holds the inodes
    NDIRECT,        \* direct block pointers of an inode (12)
    PTRS_PER_BLK,   \* words of a block (512)
    Files,          \* files, as words of the inode block
    Values          \* what programs write

ASSUME BufCacheAssumption ==
    /\ NBUFS \in Nat \ {0}
    /\ NBLOCKS \in Nat /\ NBLOCKS > 2
    /\ NDIRECT \in Nat \ {0}
    /\ PTRS_PER_BLK \in Nat \ {0}
    /\ Files \subseteq 1..PTRS_PER_BLK
    /\ Values \subseteq 1..(NBLOCKS - 1)

Blocks == 0..(NBLOCKS - 1)
Words == 1..PTRS_PER_BLK
Bufs == 1..NBUFS
FileBlocks == 0..(NDIRECT + PTRS_PER_BLK - 1)
Zero == [w \in Words |-> 0]

None == -1
Invalid == [blk |-> None, dirty |-> FALSE, data |-> Zero]
Empty == [size |-> 0, direct |-> [n \in 0..(NDIRECT - 1) |-> 0], indirect |-> 0]

VARIABLES
    bufs,           \* bufs[]
    disk,           \* blocks on the disk
    free_list,      \* sb.free_list in memory
    ino,            \* the files' inodes in memory
    written,        \* what was last written to each block of a file, 0 if nothing
    stolen          \* has a function used a buffer that was evicted while it
                    \* kept a pointer to it?

vars == <<bufs, disk, free_list, ino, written, stolen>>
-----------------------------------------------------------------------------
(* buf.c.                                                                  *)

bwrite(s, k) ==
    LET b == s.bufs[k] IN
    IF b.dirty THEN [s EXCEPT !.disk[b.blk] = b.data, !.bufs[k].dirty = FALSE] ELSE s

\* The buffer that a block which is in none is read into.
Victim(s) ==
    LET invalid == {k \in Bufs : s.bufs[k].blk = None}
        clean == {k \in Bufs : ~s.bufs[k].dirty}
    IN  IF invalid # {} THEN Min(invalid) ELSE IF clean # {} THEN Min(clean) ELSE 1

\* Mutant of bread: the buffer is claimed but not filled.
breadUnread(s, b) ==
    LET hit == {k \in Bufs : s.bufs[k].blk = b}
        k == Victim(s)
    IN  IF hit # {} THEN [s |-> s, k |-> Min(hit)]
        ELSE [s |-> [bwrite(s, k) EXCEPT !.bufs[k].blk = b], k |-> k]

\* Mutant of bread: the cache is not looked at.
breadMiss(s, b) ==
    LET k == Victim(s) IN
    [s |-> [bwrite(s, k) EXCEPT !.bufs[k] =
                [blk |-> b, dirty |-> FALSE, data |-> s.disk[b]]],
     k |-> k]

bread(s, b) ==
    LET hit == {k \in Bufs : s.bufs[k].blk = b}
        k == Victim(s)
        s1 == bwrite(s, k)
    IN  IF hit # {} THEN [s |-> s, k |-> Min(hit)]
        ELSE [s |-> [s1 EXCEPT !.bufs[k] = [blk |-> b, dirty |-> FALSE, data |-> s1.disk[b]]],
              k |-> k]

\* Change the buffer behind a pointer; b->dirty = 1; bwrite(b); brelse(b).
Store(s, k, data) ==
    bwrite([s EXCEPT !.bufs[k].data = data, !.bufs[k].dirty = TRUE], k)

SetWord(s, b, w, v) ==
    LET Set(r) == Store(r.s, r.k, [r.s.bufs[r.k].data EXCEPT ![w] = v]) IN
    Set(bread(s, b))
SetBlock(s, b, data) ==
    LET Fill(r) == Store(r.s, r.k, data) IN Fill(bread(s, b))
-----------------------------------------------------------------------------
(* fs.c.                                                                   *)

\* The superblock and the inode block; an inode is as good as one of its
\* pointers here.
WriteSb(s) == SetWord(s, 0, 1, s.fl)
fs_iupdate(s, f) == SetWord(s, 1, f, s.ino[f].indirect)

balloc(s) ==
    LET Take(r) == WriteSb([r.s EXCEPT !.fl = r.s.bufs[r.k].data[1]]) IN
    IF s.fl = 0 THEN [s |-> s, blk |-> 0]
    ELSE [s |-> Take(bread(s, s.fl)), blk |-> s.fl]

\* Mutant of bfree: the new head of the list is not linked to the old one.
bfreeUnlinked(s, b) == WriteSb([SetBlock(s, b, Zero) EXCEPT !.fl = b])

bfree(s, b) ==
    WriteSb([SetBlock(s, b, [Zero EXCEPT ![1] = s.fl]) EXCEPT !.fl = b])

WithIndirect(s, f) ==
    LET Zeroed(a) ==
            [a EXCEPT !.s = SetBlock([@ EXCEPT !.ino[f].indirect = a.blk], a.blk, Zero)]
    IN  IF s.ino[f].indirect # 0 \/ s.fl = 0 THEN [s |-> s, blk |-> s.ino[f].indirect]
        ELSE Zeroed(balloc(s))

\* bmap() with alloc.  The pointer into the indirect block is kept across
\* balloc(), and written through after it.
bmap(s, f, bn) ==
    LET old == s.ino[f].direct[bn]
        Direct(a) == [a EXCEPT !.s.ino[f].direct[bn] = a.blk]
        w == bn - NDIRECT + 1
        SetPointer(a, k, ind) ==
            [s |-> Store([a.s EXCEPT !.stolen = @ \/ a.s.bufs[k].blk # ind],
                         k, [a.s.bufs[k].data EXCEPT ![w] = a.blk]),
             blk |-> a.blk]
        Pointer(r, ind) ==
            IF r.s.bufs[r.k].data[w] # 0 THEN [s |-> r.s, blk |-> r.s.bufs[r.k].data[w]]
            ELSE SetPointer(balloc(r.s), r.k, ind)
        Indirect(ind) ==
            IF ind.blk = 0 THEN ind ELSE Pointer(bread(ind.s, ind.blk), ind.blk)
    IN  IF bn >= NDIRECT THEN Indirect(WithIndirect(s, f))
        ELSE IF old # 0 THEN [s |-> s, blk |-> old]
        ELSE Direct(balloc(s))

\* Mutant of fs_write: writing over a block makes the file longer.
fs_writeGrows(s, f, bn, v) ==
    LET Grown(t) == [t EXCEPT !.ino[f].size = @ + 1]
        Fill(m) ==
            IF m.blk = 0 THEN m
            ELSE [m EXCEPT !.s =
                    fs_iupdate(Grown(SetBlock(@, m.blk, [w \in Words |-> v])), f)]
    IN  Fill(bmap(s, f, bn))

\* fs_write() of one block.
fs_write(s, f, bn, v) ==
    LET Grown(t) == [t EXCEPT !.ino[f].size = IF bn >= @ THEN bn + 1 ELSE @]
        Fill(m) ==
            IF m.blk = 0 THEN m
            ELSE [m EXCEPT !.s =
                    fs_iupdate(Grown(SetBlock(@, m.blk, [w \in Words |-> v])), f)]
    IN  Fill(bmap(s, f, bn))

\* "if (ptrs[i] != 0) bfree(ptrs[i])".
FreeIfAny(s, b) == IF b = 0 THEN s ELSE bfree(s, b)

\* One turn of fs_iput()'s loop over the indirect block in buffer k, which it
\* keeps a pointer to across bfree().
FreePointer(s, k, ind, w) ==
    FreeIfAny([s EXCEPT !.stolen = @ \/ s.bufs[k].blk # ind], s.bufs[k].data[w])
FreePointers(s, k, ind) ==
    FoldLeft(LAMBDA t, w : FreePointer(t, k, ind, w), s, [w \in Words |-> w])

\* fs_iput() of the last reference to a file that has no name.
fs_iput(s, f) ==
    LET di == s.ino[f]
        direct == [n \in 1..NDIRECT |-> di.direct[n - 1]]
        Pointers(ib) == bfree(FreePointers(ib.s, ib.k, di.indirect), di.indirect)
        Indirect(t) == IF di.indirect = 0 THEN t ELSE Pointers(bread(t, di.indirect))
        t1 == Indirect(FoldLeft(FreeIfAny, fs_iupdate(s, f), direct))
    IN  fs_iupdate([t1 EXCEPT !.ino[f] = Empty], f)
-----------------------------------------------------------------------------
Mem == [bufs |-> bufs, disk |-> disk, fl |-> free_list, ino |-> ino, stolen |-> stolen]

Become(s) ==
    /\ bufs' = s.bufs /\ disk' = s.disk /\ free_list' = s.fl /\ ino' = s.ino
    /\ stolen' = s.stolen

\* buf_init() and fs_init(), on a disk without files.
Init ==
    LET Chain(b) == IF b < NBLOCKS - 1 THEN b + 1 ELSE 0
        blank == [b \in Blocks |-> IF b = 0 THEN [Zero EXCEPT ![1] = 2]
                                   ELSE IF b = 1 THEN Zero
                                   ELSE [Zero EXCEPT ![1] = Chain(b)]]
    IN  /\ disk = blank
        /\ bufs = [k \in Bufs |-> IF k > 1 THEN Invalid
                                  ELSE [blk |-> 0, dirty |-> FALSE, data |-> blank[0]]]
        /\ free_list = 2
        /\ ino = [f \in Files |-> Empty]
        /\ written = [f \in Files |-> [bn \in FileBlocks |-> 0]]
        /\ stolen = FALSE

\* write() at the end of a file, or over a block it has.
Write(f, bn, v) ==
    /\ ~stolen /\ bn <= ino[f].size
    /\ \E r \in {fs_write(Mem, f, bn, v)} :
          /\ Become(r.s)
          /\ written' = IF r.blk = 0 THEN written ELSE [written EXCEPT ![f][bn] = v]

\* The last close() of a file that was unlinked.
Delete(f) ==
    /\ ~stolen
    /\ Become(fs_iput(Mem, f))
    /\ written' = [written EXCEPT ![f] = [bn \in FileBlocks |-> 0]]

\* Any other use of the cache: fs_read(), fs_iget(), ialloc(), dir_lookup().
Touch(b) ==
    /\ Become(bread(Mem, b).s)
    /\ UNCHANGED written

Next ==
    \/ \E f \in Files, bn \in FileBlocks, v \in Values : Write(f, bn, v)
    \/ \E f \in Files : Delete(f)
    \/ \E b \in Blocks : Touch(b)

Spec == Init /\ [][Next]_vars
-----------------------------------------------------------------------------
(* Properties.                                                             *)

TypeOK ==
    /\ bufs \in [Bufs -> [blk : Blocks \cup {None}, dirty : BOOLEAN, data : [Words -> Blocks]]]
    /\ disk \in [Blocks -> [Words -> Blocks]]
    /\ free_list \in Blocks
    /\ ino \in [Files -> [size : 0..Cardinality(FileBlocks),
                          direct : [0..(NDIRECT - 1) -> Blocks], indirect : Blocks]]
    /\ written \in [Files -> [FileBlocks -> {0} \cup Values]]
    /\ stolen \in BOOLEAN

\* Whatever is evicted and whoever wrote through a stale pointer: no block is
\* in two buffers, and between calls every buffer holds what the disk holds, so
\* that a crash takes back nothing and an eviction never has to write.
BuffersCoherent ==
    \A k \in Bufs : bufs[k].blk # None =>
        /\ bufs[k].data = disk[bufs[k].blk] /\ ~bufs[k].dirty
        /\ \A j \in Bufs \ {k} : bufs[j].blk # bufs[k].blk

\* bmap() without alloc, and what fs_read() gets.
MappedBlock(f, bn) ==
    IF bn < NDIRECT THEN ino[f].direct[bn]
    ELSE IF ino[f].indirect = 0 THEN 0
    ELSE disk[ino[f].indirect][bn - NDIRECT + 1]

\* "Map file offset to block number, allocating if needed": a block of a file
\* is found again, and holds what was last written to it.
WritesReadBack ==
    \A f \in Files, bn \in FileBlocks : written[f][bn] # 0 =>
        /\ MappedBlock(f, bn) # 0
        /\ disk[MappedBlock(f, bn)] = [w \in Words |-> written[f][bn]]

\* With a cache smaller than the set of blocks in use, and whatever was evicted
\* in between, files read back as written, until bmap() or fs_iput() has lost
\* the indirect block it was pointing at.
ReadsBackUnlessStolen == stolen \/ WritesReadBack

\* The n-th block of the free list, from 0; 0 after its end.
NthFree[n \in 0..NBLOCKS] ==
    IF n = 0 THEN free_list
    ELSE LET before == NthFree[n - 1] IN IF before = 0 THEN 0 ELSE disk[before][1]

\* Where a block may be: on the free list, in a file, or a file's indirect block.
Places == ({None} \X (0..NBLOCKS)) \cup (Files \X (0..(NDIRECT + PTRS_PER_BLK)))
BlockAt(p) ==
    IF p[1] = None THEN NthFree[p[2]]
    ELSE IF p[2] \in FileBlocks THEN MappedBlock(p[1], p[2])
    ELSE ino[p[1]].indirect

\* Until then, every block is on the free list once, or belongs to one file
\* once, and the superblock on the disk has the head of the list.
BlocksPartitioned ==
    stolen \/
    /\ \A b \in Blocks \ {0, 1} : Cardinality({p \in Places : BlockAt(p) = b}) = 1
    /\ \A p \in Places : BlockAt(p) # 1
    /\ disk[0][1] = free_list
-----------------------------------------------------------------------------
(* Inductive invariant.                                                    *)

\* No buffer stays dirty, invalid ones included.
CacheInv == TypeOK /\ BuffersCoherent /\ \A k \in Bufs : ~bufs[k].dirty
=============================================================================
